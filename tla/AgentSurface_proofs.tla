------------------------- MODULE AgentSurface_proofs -------------------------
(***************************************************************************)
(* Theorems about AgentSurface, for every ring size and whatever may       *)
(* happen, however often: sockets, servers and host processes come and go  *)
(* while an event waits, and a command is queued, run, refused or lost.    *)
(***************************************************************************)
EXTENDS AgentSurface, SequenceTheorems, FiniteSetTheorems, TLAPS

Kinds == {"event", "result", "ack", "command"}
Stages == {"queued", "binding", "bound", "completing", "terminating"}
Outs == {"", "ok", "refused", "retryable"}
Drivers == {"none", "starting", "filling", "draining", "started"}

Connection == [spawn : Nat, n : Nat]
EventOf(m) == [seq : Nat, msg : 0..m, conv : 0..2]
FrameOf(m) == [kind : Kinds, e : EventOf(m), cmd : Nat, out : Outs]
JobOf(m) == [conn : Connection, e : EventOf(m), stage : Stages]
KeptOf(m) == [spawn : Nat, seq : Nat, msg : 0..m]
Fill == [kind : {"first", "again"}, upTo : Nat]
Done == [cmd : Nat, sure : BOOLEAN]
HostOf(m) ==
  [spawn : Nat, base : Nat, alive : BOOLEAN, n : Nat, link : {"down", "hello", "acked"},
   met : BOOLEAN, driver : Drivers, conv : Conversations, seq : Nat,
   ring : Seq(EventOf(m)), early : Seq(0..m), informed : BOOLEAN,
   fills : Seq(Fill), queue : Seq(Nat), busy : Nat, replaying : BOOLEAN]
EntryOf(m) ==
  [host : Connection, auth : 0..2, spawn : Nat, kept : 0..2, lastSeq : Nat,
   ring : Seq(KeptOf(m)), tail : Seq(JobOf(m))]
SurfaceOf(m) == [up : BOOLEAN, visible : BOOLEAN, rows : SUBSET (1..m), mark : Int]

(* The values of the variables: no event tells more than was said. *)
Typed ==
  /\ said \in Nat
  /\ host \in HostOf(said)
  /\ up \in Seq(FrameOf(said)) /\ down \in Seq(FrameOf(said))
  /\ broker \in EntryOf(said)
  /\ bound \in 0..2
  /\ surface \in SurfaceOf(said)
  /\ cmds \in Seq(Outcomes) /\ ran \in Seq(Done)

(* A socket that is closed carries nothing, and a dead host has none. *)
Closed ==
  /\ host.link = "down" => up = <<>> /\ down = <<>>
  /\ ~host.alive => host.link = "down"

(* The entry and its jobs name sockets there have been; the conversation of *)
(* a trusted connection is the bound one.                                   *)
Earlier(conn) == conn.spawn < host.spawn \/ (conn.spawn = host.spawn /\ conn.n <= host.n)
Connected ==
  /\ host.spawn # 0
  /\ broker.spawn <= host.spawn
  /\ broker.host # NoConn => broker.host.spawn = broker.spawn /\ Earlier(broker.host)
  /\ \A i \in 1..Len(broker.tail) :
       /\ Earlier(broker.tail[i].conn) /\ broker.tail[i].conn.spawn # 0
       /\ i > 1 => broker.tail[i].stage = "queued"
  /\ broker.auth \in {0, bound} /\ broker.kept \in {0, bound}
  /\ Awaiting("bound") \/ Awaiting("completing") => Head(broker.tail).e.conv = bound

(* The entry's ring is of the spawn the entry serves, in the order of its   *)
(* numbers and up to lastSeq; an event that waits is still beyond it.       *)
Story ==
  /\ RingOfOneSpawn
  /\ broker.spawn = 0 => broker.ring = <<>>
  /\ \A i \in 1..Len(broker.ring) : broker.ring[i].seq <= broker.lastSeq
  /\ \A stage \in {"binding", "bound", "completing"} :
       Awaiting(stage) /\ StillHost(Head(broker.tail)) => IsNew(Head(broker.tail).e)

(* A surface that is shown has the ring's messages, and its watermark.      *)
Shown ==
  surface.up /\ surface.visible
    => surface.rows = RingMessages /\ surface.mark = broker.lastSeq

(* Where a command may still be carried out: on its way down, in the queue  *)
(* of the host or running.  It is there once, nobody has heard of its end,  *)
(* and what ends worth a retry was not carried out, for all its driver said. *)
Sent(i) == i \in 1..Len(down) /\ down[i].kind = "command"
Fresh(c) ==
  /\ c \in Commands
  /\ cmds[c] # "retryable"
  /\ \A i \in 1..Len(ran) : ran[i].cmd # c
  /\ \A i \in 1..Len(up) : up[i].kind = "result" => up[i].cmd # c
Once ==
  /\ \A i \in 1..Len(down) : Sent(i) =>
       /\ Fresh(down[i].cmd)
       /\ down[i].cmd # host.busy
       /\ \A j \in 1..Len(host.queue) : host.queue[j] # down[i].cmd
       /\ \A j \in 1..Len(down) : Sent(j) /\ down[j].cmd = down[i].cmd => i = j
  /\ \A i \in 1..Len(host.queue) :
       /\ Fresh(host.queue[i])
       /\ host.queue[i] # host.busy
       /\ \A j \in 1..Len(host.queue) : host.queue[j] = host.queue[i] => i = j
  /\ host.busy # 0 => Fresh(host.busy)
Judged ==
  /\ \A i \in 1..Len(ran) : ran[i].cmd \in Commands
  /\ \A i \in 1..Len(up) : up[i].kind = "result" =>
       /\ up[i].cmd \in Commands
       /\ up[i].out \in {"ok", "refused", "retryable"}
       /\ up[i].out = "retryable" =>
            \A j \in 1..Len(ran) : ran[j].cmd = up[i].cmd => ~ran[j].sure

IInv == /\ Typed /\ Closed /\ Connected /\ Story /\ Shown
        /\ Once /\ Judged /\ RetryIsSafe
-----------------------------------------------------------------------------
(* Types. *)

(* What was told stays told when more is said. *)
LEMMA MoreSaid ==
  ASSUME NEW m \in Nat
  PROVE  /\ EventOf(m) \subseteq EventOf(m + 1) /\ FrameOf(m) \subseteq FrameOf(m + 1)
         /\ HostOf(m) \subseteq HostOf(m + 1) /\ EntryOf(m) \subseteq EntryOf(m + 1)
         /\ Seq(FrameOf(m)) \subseteq Seq(FrameOf(m + 1))
<1>1. 0..m \subseteq 0..(m + 1)  OBVIOUS
<1>2. EventOf(m) \subseteq EventOf(m + 1)  BY <1>1 DEF EventOf
<1>3. FrameOf(m) \subseteq FrameOf(m + 1)  BY <1>2 DEF FrameOf
<1>4. JobOf(m) \subseteq JobOf(m + 1)  BY <1>2 DEF JobOf
<1>5. KeptOf(m) \subseteq KeptOf(m + 1)  BY <1>1 DEF KeptOf
<1>6. /\ Seq(EventOf(m)) \subseteq Seq(EventOf(m + 1))
      /\ Seq(0..m) \subseteq Seq(0..(m + 1))
      /\ Seq(JobOf(m)) \subseteq Seq(JobOf(m + 1))
      /\ Seq(KeptOf(m)) \subseteq Seq(KeptOf(m + 1))
      /\ Seq(FrameOf(m)) \subseteq Seq(FrameOf(m + 1))
  BY <1>1, <1>2, <1>3, <1>4, <1>5, SeqMonotonic
<1>7. HostOf(m) \subseteq HostOf(m + 1)  BY <1>6 DEF HostOf
<1>8. EntryOf(m) \subseteq EntryOf(m + 1)  BY <1>6 DEF EntryOf
<1> QED  BY <1>2, <1>3, <1>6, <1>7, <1>8

(* The numbered events of a host, and the host that keeps them. *)
LEMMA NumberedType ==
  ASSUME NEW m \in Nat, NEW h \in HostOf(m), NEW msgs \in Seq(0..m)
  PROVE  Numbered(h, msgs) \in Seq(EventOf(m)) /\ Len(Numbered(h, msgs)) = Len(msgs)
<1>1. h.seq \in Nat /\ h.conv \in 0..2  BY DEF HostOf, Conversations
<1>2. \A i \in 1..Len(msgs) : msgs[i] \in 0..m  OBVIOUS
<1>3. \A i \in 1..Len(msgs) :
        [seq |-> h.seq + i, msg |-> msgs[i], conv |-> IF msgs[i] = 0 THEN h.conv ELSE 0] \in EventOf(m)
  BY <1>1, <1>2 DEF EventOf
<1>4. Len(msgs) \in Nat  OBVIOUS
<1> QED  BY <1>3, <1>4 DEF Numbered

LEMMA LastOfType ==
  ASSUME NEW S, NEW events \in Seq(S)
  PROVE  LastOf(events) \in Seq(S)
BY SubSeqProperties, SurfaceAssumption DEF LastOf

LEMMA EmittedType ==
  ASSUME NEW m \in Nat, NEW h \in HostOf(m), NEW msgs \in Seq(0..m)
  PROVE  /\ Emitted(h, msgs) \in HostOf(m)
         /\ \A f \in {"spawn", "n", "alive", "link", "queue", "busy"} :
              Emitted(h, msgs)[f] = h[f]
<1> DEFINE events == h.ring \o Numbered(h, msgs)
           ring == LastOf(events)
           told == h.informed \/ \E i \in 1..Len(msgs) : msgs[i] = 0
           seq == h.seq + Len(msgs)
<1>1. events \in Seq(EventOf(m))
  <2>1. h.ring \in Seq(EventOf(m))  BY DEF HostOf
  <2> QED  BY <2>1, NumberedType
<1>2. ring \in Seq(EventOf(m))
  <2> HIDE DEF events
  <2> QED  BY <1>1, LastOfType
<1>3. told \in BOOLEAN  OBVIOUS
<1>4. seq \in Nat  BY DEF HostOf
<1>5. Emitted(h, msgs) = [h EXCEPT !.seq = seq, !.ring = ring, !.informed = told]
  BY DEF Emitted
<1> HIDE DEF ring, told, seq, events
<1>6. [h EXCEPT !.seq = seq, !.ring = ring, !.informed = told] \in HostOf(m)
  BY <1>2, <1>3, <1>4 DEF HostOf
<1> QED  BY <1>5, <1>6 DEF HostOf

(* Frames that carry events add no result to what is on its way up. *)
Silent == \A i \in 1..Len(up') : up'[i].kind = "result" =>
            \E j \in 1..Len(up) : up[j] = up'[i]

LEMMA SendingEvents ==
  ASSUME NEW m \in Nat, up \in Seq(FrameOf(m)), NEW events \in Seq(EventOf(m)),
         Sending([i \in 1..Len(events) |-> EventFrame(events[i])])
  PROVE  up' \in Seq(FrameOf(m)) /\ Silent
<1> DEFINE frames == [i \in 1..Len(events) |-> EventFrame(events[i])]
<1>1. \A i \in 1..Len(events) : EventFrame(events[i]) \in FrameOf(m)
  <2>1. ASSUME NEW e \in EventOf(m)
        PROVE  [kind |-> "event", e |-> e, cmd |-> 0, out |-> ""] \in FrameOf(m)
    BY DEF FrameOf, Kinds, Outs
  <2>2. \A i \in 1..Len(events) : events[i] \in EventOf(m)  OBVIOUS
  <2>3. \A e : EventFrame(e) = [kind |-> "event", e |-> e, cmd |-> 0, out |-> ""]
    BY DEF EventFrame, Frame
  <2> QED  BY <2>1, <2>2, <2>3
<1>2. frames \in Seq(FrameOf(m)) /\ Len(frames) = Len(events)  BY <1>1
<1>3. \A i \in 1..Len(frames) : frames[i].kind = "event"  BY <1>2 DEF EventFrame, Frame
<1> HIDE DEF frames
<1>4. CASE up' = up  BY <1>4 DEF Silent
<1>5. CASE up' = up \o frames
  <2>1. up' \in Seq(FrameOf(m)) /\ Len(up') = Len(up) + Len(frames)
    BY <1>2, <1>5, ConcatProperties
  <2>2. ASSUME NEW i \in 1..Len(up'), up'[i].kind = "result"
        PROVE  \E j \in 1..Len(up) : up[j] = up'[i]
    <3>1. CASE i \in 1..Len(up)  BY <1>2, <1>5, <3>1
    <3>2. CASE i \notin 1..Len(up)
      <4>1. i - Len(up) \in 1..Len(frames) /\ up'[i] = frames[i - Len(up)]
        BY <1>2, <1>5, <2>1, <3>2
      <4> QED  BY <1>3, <2>2, <4>1
    <3> QED  BY <3>1, <3>2
  <2> QED  BY <2>1, <2>2 DEF Silent
<1> QED  BY <1>4, <1>5 DEF Sending, frames

(* What emitting does to the host and to its socket. *)
LEMMA EmittingType ==
  ASSUME NEW m \in Nat, up \in Seq(FrameOf(m)), NEW h \in HostOf(m),
         NEW msgs \in Seq(0..m), Emitting(h, msgs)
  PROVE  /\ host' \in HostOf(m) /\ up' \in Seq(FrameOf(m)) /\ Silent
         /\ \A f \in {"spawn", "n", "alive", "link", "queue", "busy"} :
              host'[f] = h[f]
<1> DEFINE events == Numbered(h, msgs)
<1>1. events \in Seq(EventOf(m)) /\ Len(events) = Len(msgs)  BY NumberedType
<1>2. Sending([i \in 1..Len(msgs) |-> EventFrame(events[i])])  BY DEF Emitting
<1>3. host' = Emitted(h, msgs)  BY DEF Emitting
<1> HIDE DEF events
<1>4. up' \in Seq(FrameOf(m)) /\ Silent  BY <1>1, <1>2, SendingEvents
<1> QED  BY <1>3, <1>4, EmittedType

LEMMA FillingType ==
  ASSUME said \in Nat, NEW m \in Nat, NEW h \in HostOf(m), NEW kind \in {"first", "again"}
  PROVE  /\ Filling(h, kind) \in HostOf(m)
         /\ \A f \in {"spawn", "n", "alive", "link", "queue", "busy"} :
              Filling(h, kind)[f] = h[f]
<1> DEFINE fills == Append(h.fills, [kind |-> kind, upTo |-> said])
<1>1. fills \in Seq(Fill)
  <2>1. h.fills \in Seq(Fill) /\ [kind |-> kind, upTo |-> said] \in Fill
    BY DEF HostOf, Fill
  <2> QED  BY <2>1
<1>2. Filling(h, kind) = [h EXCEPT !.fills = fills]  BY DEF Filling
<1> HIDE DEF fills
<1> QED  BY <1>1, <1>2 DEF HostOf

LEMMA HistoryType ==
  ASSUME Typed, NEW k \in 0..said
  PROVE  History(k) \in Seq(0..said)
<1>1. host.base \in Nat /\ said \in Nat  BY DEF Typed, HostOf
<1>2. \A i \in 1..(k - host.base) : host.base + i \in 0..said  BY <1>1
<1>3. CASE k - host.base \in Nat
  <2>1. SUFFICES ASSUME NEW n \in Nat, n = k - host.base,
                        NEW b \in Nat, b = host.base
                 PROVE  [i \in 1..n |-> b + i] \in Seq(0..said)
    BY <1>1, <1>3 DEF History
  <2>2. \A i \in 1..n : b + i \in 0..said  BY <1>2, <2>1
  <2> QED  BY <2>2
<1>4. CASE k - host.base \notin Nat
  <2>1. 1..(k - host.base) = {}  BY <1>1, <1>4
  <2>2. History(k) = <<>>  BY <2>1 DEF History
  <2> QED  BY <2>2
<1> QED  BY <1>3, <1>4

LEMMA WithoutType ==
  ASSUME NEW S, NEW s \in Seq(S), NEW i \in 1..Len(s)
  PROVE  Without(s, i) \in Seq(S) /\ Len(Without(s, i)) = Len(s) - 1
         /\ \A j \in 1..Len(Without(s, i)) :
              Without(s, i)[j] = IF j < i THEN s[j] ELSE s[j + 1]
<1> DEFINE a == SubSeq(s, 1, i - 1)
           b == SubSeq(s, i + 1, Len(s))
<1>1. /\ a \in Seq(S) /\ Len(a) = i - 1
      /\ \A j \in 1..Len(a) : a[j] = s[j]
      /\ b \in Seq(S) /\ Len(b) = Len(s) - i
      /\ \A j \in 1..Len(b) : b[j] = s[i + j]
  BY SubSeqProperties
<1> HIDE DEF a, b
<1>2. /\ a \o b \in Seq(S) /\ Len(a \o b) = Len(a) + Len(b)
      /\ \A j \in 1..Len(a \o b) :
           (a \o b)[j] = IF j <= Len(a) THEN a[j] ELSE b[j - Len(a)]
  <2>1. a \in Seq(S) /\ b \in Seq(S)  BY <1>1
  <2> QED  BY <2>1
<1>i. Len(s) \in Nat /\ i \in Nat /\ 1 <= i /\ i <= Len(s)  OBVIOUS
<1>n. Len(a \o b) = Len(s) - 1  BY <1>i, <1>1, <1>2
<1>3. ASSUME NEW j \in 1..Len(a \o b)
      PROVE  (a \o b)[j] = IF j < i THEN s[j] ELSE s[j + 1]
  <2>1. CASE j < i
    <3>1. j <= Len(a) /\ j \in 1..Len(a)  BY <1>i, <1>1, <1>n, <2>1
    <3> QED  BY <1>1, <1>2, <2>1, <3>1
  <2>2. CASE ~(j < i)
    <3>1. ~(j <= Len(a)) /\ j - Len(a) \in 1..Len(b) /\ i + (j - Len(a)) = j + 1
      BY <1>i, <1>1, <1>n, <2>2
    <3>2. (a \o b)[j] = b[j - Len(a)]  BY <1>2, <3>1
    <3>3. b[j - Len(a)] = s[i + (j - Len(a))]  BY <1>1, <3>1
    <3> QED  BY <2>2, <3>1, <3>2, <3>3
  <2> QED  BY <2>1, <2>2
<1> QED  BY <1>2, <1>n, <1>3 DEF Without, a, b

LEMMA NewHostType ==
  ASSUME NEW spawn \in Nat, NEW conv \in Conversations, NEW base \in Nat, NEW m \in Nat
  PROVE  NewHost(spawn, conv, base) \in HostOf(m)
BY DEF NewHost, HostOf, Drivers

LEMMA TailAfterType ==
  ASSUME Typed, NEW last \in Nat
  PROVE  TailAfter(last) \in Seq(EventOf(said))
<1> DEFINE old == {i \in 1..Len(host.ring) : host.ring[i].seq <= last}
<1>1. host.ring \in Seq(EventOf(said))  BY DEF Typed, HostOf
<1>2. IsFiniteSet(1..Len(host.ring))  BY <1>1, FS_Interval
<1>3. IsFiniteSet(old)  BY <1>2, FS_Subset
<1>4. Cardinality(old) + 1 \in Nat \ {0}  BY <1>3, FS_CardinalityType
<1>5. TailAfter(last) = SubSeq(host.ring, Cardinality(old) + 1, Len(host.ring))
  BY DEF TailAfter
<1> HIDE DEF old
<1> QED  BY <1>1, <1>4, <1>5, SubSeqProperties

(* What the four steps that emit events leave of a host, and on its socket. *)
Same(h) == \A f \in {"spawn", "n", "alive", "queue", "busy"} : h[f] = host[f]
Emits ==
  /\ host' \in HostOf(said') /\ up' \in Seq(FrameOf(said')) /\ Silent
  /\ Same(host') /\ (host'.link = "down" => host.link = "down")

LEMMA AckEmits ==
  ASSUME Typed, HandleHelloAck
  PROVE  Emits
<1> DEFINE f == Head(down)
           tail == TailAfter(f.e.seq)
<1>1. said' = said /\ said \in Nat /\ host \in HostOf(said) /\ up \in Seq(FrameOf(said))
  BY DEF Typed, HandleHelloAck
<1>2. Acked \in HostOf(said) /\ Same(Acked) /\ Acked.link = "acked"
  BY <1>1 DEF Acked, HostOf, Same
<1>3. CASE host' = [Acked EXCEPT !.met = TRUE, !.driver = "starting"] /\ up' = up
  <2>1. [Acked EXCEPT !.met = TRUE, !.driver = "starting"] \in HostOf(said)
    BY <1>2 DEF HostOf, Drivers
  <2>2. Same(host') /\ host'.link = "acked"  BY <1>2, <1>3 DEF HostOf, Same
  <2>3. Silent  BY <1>3 DEF Silent
  <2> QED  BY <1>1, <1>3, <2>1, <2>2, <2>3 DEF Emits
<1>4. CASE host' = Acked /\ Sending([i \in 1..Len(tail) |-> EventFrame(tail[i])])
  <2>1. f.e.seq \in Nat
    <3>1. down \in Seq(FrameOf(said)) /\ down # <<>>  BY DEF Typed, HandleHelloAck
    <3>2. f \in FrameOf(said)  BY <3>1
    <3> QED  BY <3>2 DEF FrameOf, EventOf
  <2>2. tail \in Seq(EventOf(said))  BY <2>1, TailAfterType
  <2> HIDE DEF tail
  <2>3. up' \in Seq(FrameOf(said)) /\ Silent  BY <1>1, <1>4, <2>2, SendingEvents
  <2> QED  BY <1>1, <1>2, <1>4, <2>3 DEF Emits
<1>5. CASE Emitting(Filling(Acked, "again"), IF host.informed THEN <<0>> ELSE <<>>)
  <2>1. Filling(Acked, "again") \in HostOf(said)
        /\ Same(Filling(Acked, "again")) /\ Filling(Acked, "again").link = "acked"
    BY <1>1, <1>2, FillingType DEF Same
  <2>2. (IF host.informed THEN <<0>> ELSE <<>>) \in Seq(0..said)
    <3>1. <<0>> \in Seq(0..said) /\ <<>> \in Seq(0..said)  BY <1>1
    <3> QED  BY <3>1
  <2> DEFINE h == Filling(Acked, "again")
             msgs == IF host.informed THEN <<0>> ELSE <<>>
  <2>3. h \in HostOf(said) /\ msgs \in Seq(0..said) /\ Emitting(h, msgs)
    BY <1>5, <2>1, <2>2
  <2>4. Same(h) /\ h.link = "acked"  BY <2>1
  <2> HIDE DEF h, msgs
  <2>5. /\ host' \in HostOf(said) /\ up' \in Seq(FrameOf(said)) /\ Silent
        /\ \A x \in {"spawn", "n", "alive", "link", "queue", "busy"} : host'[x] = h[x]
    BY <1>1, <2>3, EmittingType
  <2> QED  BY <1>1, <2>4, <2>5 DEF Emits, Same
<1> QED  BY <1>3, <1>4, <1>5 DEF HandleHelloAck

LEMMA StartEmits ==
  ASSUME Typed, DriverStarts
  PROVE  Emits
<1> DEFINE h0 == [host EXCEPT !.driver = "filling", !.early = <<>>]
           h == Filling(h0, "first")
           msgs == <<0>> \o host.early
<1>1. said' = said /\ said \in Nat /\ host \in HostOf(said) /\ up \in Seq(FrameOf(said))
  BY DEF Typed, DriverStarts
<1>2. h0 \in HostOf(said) /\ Same(h0) /\ h0.link = host.link
  <2>1. ASSUME NEW none \in Seq(0..said)
        PROVE  LET g == [host EXCEPT !.driver = "filling", !.early = none]
               IN g \in HostOf(said) /\ Same(g) /\ g.link = host.link
    BY <1>1 DEF HostOf, Drivers, Same
  <2>2. <<>> \in Seq(0..said)  OBVIOUS
  <2> QED  BY <2>1, <2>2
<1>3. msgs \in Seq(0..said)
  <2>1. <<0>> \in Seq(0..said) /\ host.early \in Seq(0..said)  BY <1>1 DEF HostOf
  <2> QED  BY <2>1
<1>4. Emitting(h, msgs)  BY DEF DriverStarts
<1> HIDE DEF h0, msgs
<1>5. h \in HostOf(said) /\ Same(h) /\ h.link = host.link
  BY <1>1, <1>2, FillingType DEF Same
<1> HIDE DEF h
<1>6. /\ host' \in HostOf(said) /\ up' \in Seq(FrameOf(said)) /\ Silent
      /\ \A x \in {"spawn", "n", "alive", "link", "queue", "busy"} : host'[x] = h[x]
  BY <1>1, <1>3, <1>4, <1>5, EmittingType
<1> QED  BY <1>1, <1>5, <1>6 DEF Emits, Same

LEMMA FillEmits ==
  ASSUME Typed, NEW i \in 1..Len(host.fills), NEW k \in 0..said, FillEnds(i, k)
  PROVE  Emits
<1> DEFINE fills == Without(host.fills, i)
           rest == [host EXCEPT !.fills = fills]
           h == IF host.fills[i].kind = "first" THEN [rest EXCEPT !.driver = "draining"] ELSE rest
           msgs == History(k)
<1>1. said' = said /\ said \in Nat /\ host \in HostOf(said) /\ up \in Seq(FrameOf(said))
  BY DEF Typed, FillEnds
<1>2. fills \in Seq(Fill)
  <2>1. host.fills \in Seq(Fill)  BY <1>1 DEF HostOf
  <2> QED  BY <2>1, WithoutType
<1>3. Emitting(h, msgs)
  <2>1. rest = [host EXCEPT !.fills = Without(@, i)]  BY <1>1 DEF HostOf
  <2> QED  BY <2>1 DEF FillEnds
<1>4. msgs \in Seq(0..said)  BY HistoryType
<1> HIDE DEF fills, msgs
<1>5. rest \in HostOf(said) /\ Same(rest) /\ rest.link = host.link
  BY <1>1, <1>2 DEF HostOf, Same
<1> HIDE DEF rest
<1>6. h \in HostOf(said) /\ Same(h) /\ h.link = host.link
  BY <1>5 DEF HostOf, Same, Drivers
<1> HIDE DEF h
<1>7. /\ host' \in HostOf(said) /\ up' \in Seq(FrameOf(said)) /\ Silent
      /\ \A x \in {"spawn", "n", "alive", "link", "queue", "busy"} : host'[x] = h[x]
  BY <1>1, <1>3, <1>4, <1>6, EmittingType
<1> QED  BY <1>1, <1>6, <1>7 DEF Emits, Same

LEMMA SayEmits ==
  ASSUME Typed, Say
  PROVE  Emits
<1> DEFINE m == said + 1
           early == Append(host.early, said + 1)
<1>1. said' = m /\ said \in Nat /\ m \in Nat  BY DEF Typed, Say
<1>2. host \in HostOf(m) /\ up \in Seq(FrameOf(m))  BY MoreSaid DEF Typed
<1>3. m \in 0..m  BY <1>1
<1>4. CASE host' = [host EXCEPT !.early = early] /\ up' = up
  <2>1. early \in Seq(0..m)
    <3>1. host.early \in Seq(0..m)  BY <1>2 DEF HostOf
    <3> QED  BY <1>3, <3>1
  <2> HIDE DEF early
  <2>2. host' \in HostOf(m) /\ Same(host') /\ host'.link = host.link
    BY <1>2, <1>4, <2>1 DEF HostOf, Same
  <2>3. Silent  BY <1>4 DEF Silent
  <2> QED  BY <1>1, <1>2, <1>4, <2>2, <2>3 DEF Emits
<1>5. CASE Emitting(host, <<said + 1>>)
  <2>1. <<said + 1>> \in Seq(0..m)  BY <1>3
  <2> DEFINE msgs == <<said + 1>>
  <2>2. msgs \in Seq(0..m) /\ Emitting(host, msgs)  BY <1>5, <2>1
  <2> HIDE DEF msgs, m
  <2>3. /\ host' \in HostOf(m) /\ up' \in Seq(FrameOf(m)) /\ Silent
        /\ \A x \in {"spawn", "n", "alive", "link", "queue", "busy"} : host'[x] = host[x]
    BY <1>1, <1>2, <2>2, EmittingType
  <2> QED  BY <1>1, <2>3 DEF Emits, Same
<1>6. [host EXCEPT !.early = early] = [host EXCEPT !.early = Append(@, said + 1)]
  BY <1>2 DEF HostOf
<1> QED  BY <1>4, <1>5, <1>6 DEF Say

(* A socket that ends leaves nothing on its way. *)
LEMMA LinkEndsType ==
  ASSUME NEW m \in Nat, NEW h \in HostOf(m), LinkEnds(h)
  PROVE  /\ host' \in HostOf(m) /\ host'.link = "down"
         /\ \A f \in {"spawn", "n", "alive", "queue", "busy"} : host'[f] = h[f]
         /\ up' = <<>> /\ down' = <<>>
BY DEF LinkEnds, HostOf

(* One result more on its way up, or none when the socket is closed. *)
LEMMA SendingResult ==
  ASSUME NEW m \in Nat, up \in Seq(FrameOf(m)), NEW c \in Nat,
         NEW out \in {"ok", "refused", "retryable"}, Sending(<<Result(c, out)>>)
  PROVE  /\ up' \in Seq(FrameOf(m))
         /\ \/ up' = up
            \/ /\ Len(up') = Len(up) + 1
               /\ \A i \in 1..Len(up) : up'[i] = up[i]
               /\ up'[Len(up')] = Result(c, out)
<1>1. Result(c, out) \in FrameOf(m)
  <2>1. NoEvent \in EventOf(m)  BY DEF NoEvent, EventOf
  <2>2. ASSUME NEW e \in EventOf(m)
        PROVE  [kind |-> "result", e |-> e, cmd |-> c, out |-> out] \in FrameOf(m)
    BY DEF FrameOf, Kinds, Outs
  <2> QED  BY <2>1, <2>2 DEF Result, Frame
<1>2. CASE up' = up  BY <1>2
<1>3. CASE up' = up \o <<Result(c, out)>>
  <2> DEFINE r == Result(c, out)
  <2>1. r \in FrameOf(m) /\ up' = up \o <<r>>  BY <1>1, <1>3
  <2> HIDE DEF r
  <2>2. /\ up' \in Seq(FrameOf(m)) /\ Len(up') = Len(up) + 1
        /\ \A i \in 1..Len(up) : up'[i] = up[i]
        /\ up'[Len(up')] = r
    BY <2>1
  <2> QED  BY <2>2 DEF r
<1> QED  BY <1>2, <1>3 DEF Sending

(* The commands the host takes up: queue and busy change, nothing else that *)
(* a connection is known by.                                                *)
Works(h) == \A f \in {"spawn", "n", "alive", "link"} : h[f] = host[f]

LEMMA HeadCommand ==
  ASSUME Typed, down # <<>>
  PROVE  /\ Head(down) \in FrameOf(said) /\ Head(down).cmd \in Nat /\ Head(down).e.seq \in Nat
         /\ Tail(down) \in Seq(FrameOf(said)) /\ Len(Tail(down)) = Len(down) - 1
         /\ \A i \in 1..Len(Tail(down)) : Tail(down)[i] = down[i + 1]
         /\ 1 \in 1..Len(down) /\ Head(down) = down[1]
<1>1. down \in Seq(FrameOf(said))  BY DEF Typed
<1>2. Head(down) \in FrameOf(said) /\ 1 \in 1..Len(down) /\ Head(down) = down[1]  BY <1>1
<1>3. Head(down).cmd \in Nat /\ Head(down).e.seq \in Nat  BY <1>2 DEF FrameOf, EventOf
<1>4. /\ Tail(down) \in Seq(FrameOf(said)) /\ Len(Tail(down)) = Len(down) - 1
      /\ \A i \in 1..Len(Tail(down)) : Tail(down)[i] = down[i + 1]
  BY <1>1
<1> QED  BY <1>2, <1>3, <1>4

LEMMA RouteType ==
  ASSUME Typed, RouteCommand
  PROVE  host' \in HostOf(said) /\ up' \in Seq(FrameOf(said)) /\ Works(host')
<1> DEFINE c == Head(down).cmd
<1>1. c \in Nat  BY HeadCommand DEF RouteCommand
<1>2. said \in Nat /\ host \in HostOf(said) /\ up \in Seq(FrameOf(said))  BY DEF Typed
<1>3. CASE host' = [host EXCEPT !.queue = Append(@, c)] /\ up' = up
  <2> DEFINE q == Append(host.queue, c)
  <2>1. q \in Seq(Nat)
    <3>1. host.queue \in Seq(Nat)  BY <1>2 DEF HostOf
    <3> QED  BY <1>1, <3>1
  <2>2. host' = [host EXCEPT !.queue = q]  BY <1>2, <1>3 DEF HostOf
  <2> HIDE DEF q
  <2> QED  BY <1>2, <1>3, <2>1, <2>2 DEF HostOf, Works
<1>4. CASE host' = Running(host, c) /\ up' = up
  BY <1>1, <1>2, <1>4 DEF Running, HostOf, Works
<1>5. CASE host' = host /\ Sending(<<Result(c, "refused")>>)
  BY <1>1, <1>2, <1>5, SendingResult DEF Works
<1> QED  BY <1>3, <1>4, <1>5 DEF RouteCommand

LEMMA DrainType ==
  ASSUME Typed, DrainCommandQueue
  PROVE  host' \in HostOf(said) /\ up' \in Seq(FrameOf(said)) /\ Works(host')
<1>1. said \in Nat /\ host \in HostOf(said) /\ up \in Seq(FrameOf(said))  BY DEF Typed
<1>2. CASE host' = [host EXCEPT !.driver = "started"] /\ up' = up
  BY <1>1, <1>2 DEF HostOf, Works, Drivers
<1> DEFINE c == Head(host.queue)
           q == Tail(host.queue)
<1>3. ASSUME host.queue # <<>> PROVE c \in Nat /\ q \in Seq(Nat)
  <2>1. host.queue \in Seq(Nat)  BY <1>1 DEF HostOf
  <2> QED  BY <1>3, <2>1
<1>4. CASE /\ host.queue # <<>> /\ up' = up
           /\ host' = [Running(host, c) EXCEPT !.queue = Tail(@), !.replaying = TRUE]
  <2>1. host' = [host EXCEPT !.busy = c, !.queue = q, !.replaying = TRUE]
    BY <1>1, <1>4 DEF Running, HostOf
  <2>2. c \in Nat /\ q \in Seq(Nat)  BY <1>3, <1>4
  <2> HIDE DEF c, q
  <2>3. host' \in HostOf(said)  BY <1>1, <2>1, <2>2 DEF HostOf
  <2>4. Works(host')  BY <1>1, <2>1, <2>2 DEF HostOf, Works
  <2> QED  BY <1>1, <1>4, <2>3, <2>4
<1>5. CASE /\ host.queue # <<>> /\ host' = [host EXCEPT !.queue = Tail(@)]
           /\ Sending(<<Result(c, "refused")>>)
  <2>1. host' = [host EXCEPT !.queue = q]  BY <1>1, <1>5 DEF HostOf
  <2>2. c \in Nat /\ q \in Seq(Nat)  BY <1>3, <1>5
  <2> HIDE DEF c, q
  <2>3. host' \in HostOf(said) /\ Works(host')  BY <1>1, <2>1, <2>2 DEF HostOf, Works
  <2> QED  BY <1>1, <1>5, <2>2, <2>3, SendingResult
<1> QED  BY <1>2, <1>4, <1>5 DEF DrainCommandQueue

LEMMA RunType ==
  ASSUME Typed, NEW out \in Verdicts, NEW acted \in BOOLEAN,
         RunEnds(out, acted)
  PROVE  host' \in HostOf(said) /\ up' \in Seq(FrameOf(said)) /\ Works(host')
<1>1. said \in Nat /\ host \in HostOf(said) /\ up \in Seq(FrameOf(said))  BY DEF Typed
<1>2. host' \in HostOf(said) /\ Works(host') /\ host.busy \in Nat
  BY <1>1 DEF RunEnds, HostOf, Works
<1>3. Sending(<<Result(host.busy, out)>>)  BY DEF RunEnds
<1> QED  BY <1>1, <1>2, <1>3, SendingResult DEF Verdicts

(* What a broker's entry becomes: its promise chain serves the first job,   *)
(* moves it to its next await, keeps its event or gives the host up.        *)
LEMMA ServedIs ==
  ASSUME NEW m \in Nat, NEW entry \in EntryOf(m), entry.tail # <<>>
  PROVE  /\ Served(entry) \in EntryOf(m)
         /\ \A f \in {"host", "auth", "spawn", "kept", "lastSeq", "ring"} :
              Served(entry)[f] = entry[f]
         /\ Len(Served(entry).tail) = Len(entry.tail) - 1
         /\ \A i \in 1..Len(Served(entry).tail) : Served(entry).tail[i] = entry.tail[i + 1]
<1> DEFINE tail == Tail(entry.tail)
<1>1. /\ tail \in Seq(JobOf(m)) /\ Len(tail) = Len(entry.tail) - 1
      /\ \A i \in 1..Len(tail) : tail[i] = entry.tail[i + 1]
  <2>1. entry.tail \in Seq(JobOf(m))  BY DEF EntryOf
  <2> QED  BY <2>1
<1>2. Served(entry) = [entry EXCEPT !.tail = tail]  BY DEF Served
<1> HIDE DEF tail
<1> QED  BY <1>1, <1>2 DEF EntryOf

LEMMA FirstJob ==
  ASSUME NEW m \in Nat, NEW entry \in EntryOf(m), entry.tail # <<>>
  PROVE  /\ 1 \in 1..Len(entry.tail) /\ Head(entry.tail) = entry.tail[1]
         /\ Head(entry.tail) \in JobOf(m)
         /\ Head(entry.tail).e \in EventOf(m) /\ Head(entry.tail).conn \in Connection
<1>1. entry.tail \in Seq(JobOf(m))  BY DEF EntryOf
<1>2. 1 \in 1..Len(entry.tail) /\ Head(entry.tail) = entry.tail[1] /\ entry.tail[1] \in JobOf(m)
  BY <1>1
<1> QED  BY <1>2 DEF JobOf

LEMMA StagedIs ==
  ASSUME NEW m \in Nat, NEW entry \in EntryOf(m), entry.tail # <<>>, NEW stage \in Stages
  PROVE  /\ Staged(entry, stage) \in EntryOf(m)
         /\ \A f \in {"host", "auth", "spawn", "kept", "lastSeq", "ring"} :
              Staged(entry, stage)[f] = entry[f]
         /\ Len(Staged(entry, stage).tail) = Len(entry.tail)
         /\ Staged(entry, stage).tail # <<>>
         /\ Head(Staged(entry, stage).tail).stage = stage
         /\ Head(Staged(entry, stage).tail).conn = Head(entry.tail).conn
         /\ Head(Staged(entry, stage).tail).e = Head(entry.tail).e
         /\ \A i \in 1..Len(entry.tail) :
              /\ Staged(entry, stage).tail[i].conn = entry.tail[i].conn
              /\ i > 1 => Staged(entry, stage).tail[i] = entry.tail[i]
<1> DEFINE job == [Head(entry.tail) EXCEPT !.stage = stage]
           tail == [entry.tail EXCEPT ![1] = job]
<1>1. entry.tail \in Seq(JobOf(m)) /\ 1 \in 1..Len(entry.tail)
      /\ Head(entry.tail) = entry.tail[1] /\ Head(entry.tail) \in JobOf(m)
  BY FirstJob DEF EntryOf
<1>2. /\ job \in JobOf(m) /\ job.stage = stage /\ job.conn = Head(entry.tail).conn
      /\ job.e = Head(entry.tail).e
  BY <1>1 DEF JobOf
<1>3. Staged(entry, stage) = [entry EXCEPT !.tail = tail]
  BY <1>1 DEF Staged, EntryOf
<1> HIDE DEF job
<1>4. /\ tail \in Seq(JobOf(m)) /\ Len(tail) = Len(entry.tail) /\ tail # <<>>
      /\ Head(tail) = job /\ tail[1] = job
      /\ \A i \in 1..Len(entry.tail) : i # 1 => tail[i] = entry.tail[i]
  BY <1>1, <1>2
<1> HIDE DEF tail
<1>5. [entry EXCEPT !.tail = tail] \in EntryOf(m)  BY <1>4 DEF EntryOf
<1>6. /\ [entry EXCEPT !.tail = tail].tail = tail
      /\ \A f \in {"host", "auth", "spawn", "kept", "lastSeq", "ring"} :
            [entry EXCEPT !.tail = tail][f] = entry[f]
  BY DEF EntryOf
<1>7. \A i \in 1..Len(entry.tail) :
         tail[i].conn = entry.tail[i].conn /\ (i > 1 => tail[i] = entry.tail[i])
  BY <1>1, <1>2, <1>4
<1> QED  BY <1>2, <1>3, <1>4, <1>5, <1>6, <1>7

(* Retain: one event more in the ring, and the job is done. *)
LEMMA RetainIs ==
  ASSUME NEW m \in Nat, NEW entry \in EntryOf(m), entry.tail # <<>>,
         Retain(entry, Head(entry.tail))
  PROVE  LET job == Head(entry.tail) IN
         /\ broker' \in EntryOf(m)
         /\ \A f \in {"host", "auth", "spawn", "kept"} : broker'[f] = entry[f]
         /\ broker'.lastSeq = job.e.seq
         /\ broker'.ring = Append(entry.ring, [spawn |-> job.conn.spawn, seq |-> job.e.seq,
                                               msg |-> job.e.msg])
         /\ Len(broker'.tail) = Len(entry.tail) - 1
         /\ \A i \in 1..Len(broker'.tail) : broker'.tail[i] = entry.tail[i + 1]
<1> DEFINE job == Head(entry.tail)
           kept == [spawn |-> job.conn.spawn, seq |-> job.e.seq, msg |-> job.e.msg]
           ring == Append(entry.ring, kept)
           next == [entry EXCEPT !.lastSeq = job.e.seq, !.ring = ring]
<1>1. job.e.seq \in Nat /\ kept \in KeptOf(m)
  BY FirstJob DEF EventOf, Connection, KeptOf
<1>2. ring \in Seq(KeptOf(m))
  <2>1. entry.ring \in Seq(KeptOf(m))  BY DEF EntryOf
  <2> HIDE DEF kept
  <2> QED  BY <1>1, <2>1
<1>3. broker' = Served(next)
  <2>1. next = [entry EXCEPT !.lastSeq = job.e.seq, !.ring = Append(@, kept)]
    BY DEF EntryOf
  <2> QED  BY <2>1 DEF Retain
<1> HIDE DEF ring, kept
<1>4. /\ next \in EntryOf(m) /\ next.tail = entry.tail /\ next.lastSeq = job.e.seq
      /\ next.ring = ring
      /\ \A f \in {"host", "auth", "spawn", "kept"} : next[f] = entry[f]
  <2>1. ASSUME NEW n \in Nat
        PROVE  LET e == [entry EXCEPT !.lastSeq = n, !.ring = ring] IN
               /\ e \in EntryOf(m) /\ e.tail = entry.tail /\ e.lastSeq = n
               /\ e.ring = ring
               /\ \A f \in {"host", "auth", "spawn", "kept"} : e[f] = entry[f]
    BY <1>2 DEF EntryOf
  <2> QED  BY <1>1, <2>1
<1> HIDE DEF next
<1>5. /\ broker' \in EntryOf(m)
      /\ \A f \in {"host", "auth", "spawn", "kept", "lastSeq", "ring"} :
            broker'[f] = next[f]
      /\ Len(broker'.tail) = Len(entry.tail) - 1
      /\ \A i \in 1..Len(broker'.tail) : broker'.tail[i] = entry.tail[i + 1]
  BY <1>3, <1>4, ServedIs
<1> HIDE DEF job
<1>6. /\ broker' \in EntryOf(m)
      /\ \A f \in {"host", "auth", "spawn", "kept"} : broker'[f] = entry[f]
      /\ broker'.lastSeq = job.e.seq
      /\ broker'.ring = ring
      /\ Len(broker'.tail) = Len(entry.tail) - 1
      /\ \A i \in 1..Len(broker'.tail) : broker'.tail[i] = entry.tail[i + 1]
  BY <1>4, <1>5
<1> QED  BY <1>6 DEF ring, kept, job

-----------------------------------------------------------------------------
(* What a step does to the host process and to its socket. *)
HostTyped ==
  /\ host' \in HostOf(said') /\ up' \in Seq(FrameOf(said')) /\ down' \in Seq(FrameOf(said'))
  /\ Closed'
SameHost == host'.spawn = host.spawn /\ host'.n = host.n

LEMMA HostEmits ==
  ASSUME Typed, Closed,
         \/ HandleHelloAck \/ DriverStarts \/ Say
         \/ \E i \in 1..Len(host.fills), k \in 0..said : FillEnds(i, k)
  PROVE  HostTyped /\ SameHost /\ Silent
<1>1. Emits
  BY AckEmits, StartEmits, SayEmits, FillEmits
<1>2. down' \in Seq(FrameOf(said')) /\ (down = <<>> => down' = <<>>)
  <2>1. CASE HandleHelloAck
    BY <2>1, HeadCommand DEF HandleHelloAck
  <2>2. CASE DriverStarts \/ \E i \in 1..Len(host.fills), k \in 0..said : FillEnds(i, k)
    BY <2>2 DEF DriverStarts, FillEnds, Typed
  <2>3. CASE Say
    BY <2>3, MoreSaid DEF Say, Typed
  <2> QED  BY <2>1, <2>2, <2>3
<1>3. host.alive
  BY DEF Closed, HandleHelloAck, DriverStarts, Say, FillEnds
<1>4. host.link = "down" => up' = up
  <2>1. ~HandleHelloAck \/ host.link # "down"  BY DEF HandleHelloAck, Closed
  <2> QED  BY <2>1 DEF DriverStarts, Say, FillEnds, Emitting, Sending, Linked
<1> QED  BY <1>1, <1>2, <1>3, <1>4 DEF Emits, HostTyped, SameHost, Same, Closed

LEMMA HostWorks ==
  ASSUME Typed, Closed,
         RouteCommand \/ DrainCommandQueue \/ \E out \in Verdicts, acted \in BOOLEAN : RunEnds(out, acted)
  PROVE  HostTyped /\ SameHost
<1>1. host' \in HostOf(said) /\ up' \in Seq(FrameOf(said)) /\ Works(host')
  BY RouteType, DrainType, RunType
<1>2. said' = said /\ down' \in Seq(FrameOf(said)) /\ (down = <<>> => down' = <<>>)
  BY HeadCommand DEF RouteCommand, DrainCommandQueue, RunEnds, Typed
<1>3. host.link = "down" => up' = up
  BY DEF RouteCommand, DrainCommandQueue, RunEnds, Sending, Linked
<1> QED  BY <1>1, <1>2, <1>3 DEF HostTyped, SameHost, Works, Closed

(* The steps that may end a socket, and no more. *)
Ended == \/ UNCHANGED <<host, up, down>>
         \/ /\ host' \in HostOf(said) /\ host'.link = "down" /\ up' = <<>> /\ down' = <<>>
            /\ \A f \in {"spawn", "n", "queue", "busy"} : host'[f] = host[f]

LEMMA RejectedEnds ==
  ASSUME Typed, NEW job, Rejected(job)
  PROVE  Ended
BY LinkEndsType DEF Rejected, Ended, Typed

LEMMA Ends ==
  ASSUME Typed,
         SocketDrops \/ HostDies \/ Terminates \/ Restart \/ HandleHostEvent \/
         BindingRefused \/ CompletionFails
  PROVE  Ended /\ said' = said
<1>1. said \in Nat /\ host \in HostOf(said)  BY DEF Typed
<1>2. [host EXCEPT !.alive = FALSE] \in HostOf(said)  BY <1>1 DEF HostOf
<1>3. \A f \in {"spawn", "n", "queue", "busy"} : [host EXCEPT !.alive = FALSE][f] = host[f]
  BY <1>1 DEF HostOf
<1>4. CASE SocketDrops \/ Restart
  BY <1>1, <1>4, LinkEndsType DEF SocketDrops, Restart, Ended
<1>5. CASE HostDies \/ Terminates
  <2> DEFINE h == [host EXCEPT !.alive = FALSE]
  <2>1. UNCHANGED <<host, up, down>> \/ LinkEnds(host) \/ LinkEnds(h)
    BY <1>5 DEF HostDies, Terminates
  <2>2. said' = said  BY <1>5 DEF HostDies, Terminates
  <2> HIDE DEF h
  <2>3. CASE LinkEnds(h)
    <3>1. h \in HostOf(said) /\ \A f \in {"spawn", "n", "queue", "busy"} : h[f] = host[f]
      BY <1>2, <1>3 DEF h
    <3> QED  BY <1>1, <2>2, <2>3, <3>1, LinkEndsType DEF Ended
  <2> QED  BY <1>1, <2>1, <2>2, <2>3, LinkEndsType DEF Ended
<1>6. CASE HandleHostEvent
  <2>1. (\E job : Rejected(job)) \/ UNCHANGED <<host, up, down>>
    BY <1>6 DEF HandleHostEvent
  <2> QED  BY <1>6, <2>1, RejectedEnds DEF Ended, HandleHostEvent
<1>7. CASE BindingRefused \/ CompletionFails
  <2>1. \E job : Rejected(job)  BY <1>7 DEF BindingRefused, CompletionFails
  <2> QED  BY <1>7, <2>1, RejectedEnds DEF BindingRefused, CompletionFails
<1> QED  BY <1>4, <1>5, <1>6, <1>7

LEMMA HostEnds ==
  ASSUME Typed, Closed, Ended, said' = said
  PROVE  HostTyped /\ SameHost /\ Silent
<1>1. <<>> \in Seq(FrameOf(said))  OBVIOUS
<1>2. CASE UNCHANGED <<host, up, down>>
  BY <1>2 DEF Typed, HostTyped, SameHost, Silent, Closed
<1>3. CASE host' \in HostOf(said) /\ host'.link = "down" /\ up' = <<>> /\ down' = <<>>
           /\ \A f \in {"spawn", "n", "queue", "busy"} : host'[f] = host[f]
  BY <1>1, <1>3 DEF HostTyped, SameHost, Silent, Closed
<1> QED  BY <1>2, <1>3 DEF Ended

LEMMA HostSpawns ==
  ASSUME Typed, Closed, NEW conv \in Conversations, Spawn(conv)
  PROVE  HostTyped /\ host'.spawn = host.spawn + 1 /\ Silent
<1> DEFINE base == IF bound = 0 THEN said ELSE host.base
<1>1. said \in Nat /\ host.spawn + 1 \in Nat /\ base \in Nat  BY DEF Typed, HostOf
<1>2. host' = NewHost(host.spawn + 1, conv, base) /\ UNCHANGED <<said, up, down>>
  BY DEF Spawn
<1> HIDE DEF base
<1>3. host' \in HostOf(said)  BY <1>1, <1>2, NewHostType
<1>4. up = <<>> /\ down = <<>>  BY DEF Spawn, Closed
<1>5. host'.spawn = host.spawn + 1 /\ host'.link = "down"  BY <1>2 DEF NewHost
<1> QED  BY <1>2, <1>3, <1>4, <1>5 DEF HostTyped, Typed, Closed, Silent

LEMMA HostConnects ==
  ASSUME Typed, Closed, Connect
  PROVE  /\ HostTyped /\ host'.spawn = host.spawn /\ host'.n = host.n + 1 /\ Silent
         /\ down' # <<>> => ~(\E i \in 1..Len(down') : down'[i].kind = "command")
         /\ host'.queue = host.queue /\ host'.busy = host.busy
<1>1. said \in Nat /\ host \in HostOf(said) /\ broker.lastSeq \in Nat
  BY DEF Typed, EntryOf
<1>2. host' = [host EXCEPT !.link = "hello", !.n = @ + 1] /\ UNCHANGED <<said, up>>
      /\ host.alive
  BY DEF Connect
<1>3. /\ host' \in HostOf(said) /\ host'.spawn = host.spawn /\ host'.n = host.n + 1
      /\ host'.queue = host.queue /\ host'.busy = host.busy
      /\ host'.link = "hello" /\ host'.alive = host.alive
  <2>1. host.n + 1 \in Nat  BY <1>1 DEF HostOf
  <2>2. ASSUME NEW n \in Nat
        PROVE  LET h == [host EXCEPT !.link = "hello", !.n = n] IN
               /\ h \in HostOf(said) /\ h.spawn = host.spawn /\ h.n = n
               /\ h.queue = host.queue /\ h.busy = host.busy
               /\ h.link = "hello" /\ h.alive = host.alive
    BY <1>1 DEF HostOf
  <2>3. host' = [host EXCEPT !.link = "hello", !.n = host.n + 1]
    BY <1>1, <1>2 DEF HostOf
  <2> QED  BY <2>1, <2>2, <2>3
<1>4. \E q \in Nat : down' = <<Frame("ack", [NoEvent EXCEPT !.seq = q], 0, "")>>
  <2> DEFINE entry == IF broker.spawn # 0 /\ broker.spawn # host.spawn
                      THEN [broker EXCEPT !.ring = <<>>, !.lastSeq = 0, !.kept = 0] ELSE broker
  <2>1. down' = <<Frame("ack", [NoEvent EXCEPT !.seq = entry.lastSeq], 0, "")>>
    BY DEF Connect
  <2>2. entry.lastSeq \in Nat  BY <1>1 DEF Typed, EntryOf
  <2> HIDE DEF entry
  <2> QED  BY <2>1, <2>2
<1>5. PICK q \in Nat : down' = <<Frame("ack", [NoEvent EXCEPT !.seq = q], 0, "")>>
  BY <1>4
<1> DEFINE frame == Frame("ack", [NoEvent EXCEPT !.seq = q], 0, "")
<1>6. frame \in FrameOf(said) /\ frame.kind = "ack"
  <2>1. [NoEvent EXCEPT !.seq = q] \in EventOf(said)  BY <1>1 DEF NoEvent, EventOf
  <2>2. ASSUME NEW e \in EventOf(said)
        PROVE  LET f == [kind |-> "ack", e |-> e, cmd |-> 0, out |-> ""]
               IN f \in FrameOf(said) /\ f.kind = "ack"
    BY DEF FrameOf, Kinds, Outs
  <2> QED  BY <2>1, <2>2 DEF Frame
<1>7. down' = <<frame>>  BY <1>5
<1> HIDE DEF frame
<1>8. down' \in Seq(FrameOf(said)) /\ \A i \in 1..Len(down') : down'[i].kind = "ack"
  BY <1>6, <1>7
<1> QED  BY <1>2, <1>3, <1>8 DEF HostTyped, Closed, Silent, Typed

LEMMA HostSent ==
  ASSUME Typed, Closed, SendCommand
  PROVE  HostTyped /\ SameHost /\ Silent
<1> DEFINE frame == Frame("command", NoEvent, Len(cmds) + 1, "")
<1>1. UNCHANGED <<said, host, up>> /\ (down' = down \/ (down' = Append(down, frame) /\ Linked))
  BY DEF SendCommand
<1>2. frame \in FrameOf(said)
  <2>1. NoEvent \in EventOf(said) /\ Len(cmds) + 1 \in Nat
    BY DEF NoEvent, EventOf, Typed
  <2>2. ASSUME NEW e \in EventOf(said), NEW n \in Nat
        PROVE  [kind |-> "command", e |-> e, cmd |-> n, out |-> ""] \in FrameOf(said)
    BY DEF FrameOf, Kinds, Outs
  <2> QED  BY <2>1, <2>2 DEF Frame
<1> HIDE DEF frame
<1>3. down' \in Seq(FrameOf(said))
  <2>1. down \in Seq(FrameOf(said))  BY DEF Typed
  <2>2. Append(down, frame) \in Seq(FrameOf(said))  BY <1>2, <2>1
  <2> QED  BY <1>1, <2>1, <2>2
<1> QED  BY <1>1, <1>3 DEF HostTyped, SameHost, Silent, Typed, Closed, Linked

(* A frame taken from the socket by the broker. *)
LEMMA HeadFrame ==
  ASSUME Typed, up # <<>>
  PROVE  /\ Head(up) \in FrameOf(said) /\ Head(up).cmd \in Nat /\ Head(up).e \in EventOf(said)
         /\ Tail(up) \in Seq(FrameOf(said)) /\ Len(Tail(up)) = Len(up) - 1
         /\ \A i \in 1..Len(Tail(up)) : i + 1 \in 1..Len(up) /\ Tail(up)[i] = up[i + 1]
         /\ 1 \in 1..Len(up) /\ Head(up) = up[1]
<1>1. up \in Seq(FrameOf(said))  BY DEF Typed
<1>2. Head(up) \in FrameOf(said) /\ 1 \in 1..Len(up) /\ Head(up) = up[1]  BY <1>1
<1>3. Head(up).cmd \in Nat /\ Head(up).e \in EventOf(said)  BY <1>2 DEF FrameOf
<1>4. /\ Tail(up) \in Seq(FrameOf(said)) /\ Len(Tail(up)) = Len(up) - 1
      /\ \A i \in 1..Len(Tail(up)) : i + 1 \in 1..Len(up) /\ Tail(up)[i] = up[i + 1]
  BY <1>1
<1> QED  BY <1>2, <1>3, <1>4

LEMMA HostHeard ==
  ASSUME Typed, Closed, HostEvent \/ CommandResult
  PROVE  HostTyped /\ SameHost /\ Silent
<1>1. UNCHANGED <<said, host, down>> /\ up # <<>> /\ up' = Tail(up)
  BY DEF HostEvent, CommandResult, Receives
<1> QED  BY <1>1, HeadFrame DEF HostTyped, SameHost, Silent, Typed, Closed

LEMMA HostRests ==
  ASSUME Typed, Closed,
         \/ BindingCommits \/ BindingReturns \/ LaunchCompletes \/ HostGone \/ SurfaceStep
         \/ \E c \in Commands : CommandTimesOut(c)
         \/ UNCHANGED vars
  PROVE  HostTyped /\ SameHost /\ Silent
<1>1. UNCHANGED <<said, host, up, down>>
  BY DEF BindingCommits, BindingReturns, LaunchCompletes, HostGone, SurfaceStep,
     Subscribe, SetVisibility, BrowserDrops, CommandTimesOut, vars
<1> QED  BY <1>1 DEF HostTyped, SameHost, Silent, Typed, Closed

LEMMA HostMoves ==
  ASSUME Typed, Closed, [Next]_vars
  PROVE  /\ HostTyped
         /\ \/ SameHost \/ Connect \/ \E conv \in Conversations : Spawn(conv)
         /\ \/ Silent \/ RouteCommand \/ DrainCommandQueue
            \/ \E out \in Verdicts, acted \in BOOLEAN : RunEnds(out, acted)
<1> USE DEF Next, Step
<1>1. CASE HandleHostEvent \/ SocketDrops \/ HostDies \/ Terminates \/ Restart \/
           BindingRefused \/ CompletionFails
  BY <1>1, Ends, HostEnds
<1>2. CASE HostStep  BY <1>2, HostEmits, HostWorks DEF HostStep
<1>3. CASE BrokerStep
  BY <1>1, <1>3, HostConnects, HostHeard, HostRests DEF BrokerStep
<1>4. CASE \E conv \in Conversations : Spawn(conv)
  BY <1>4, HostSpawns
<1>5. CASE Say  BY <1>5, HostEmits
<1>6. CASE SendCommand  BY <1>6, HostSent
<1>7. CASE SurfaceStep \/ (\E c \in Commands : CommandTimesOut(c)) \/ UNCHANGED vars
  BY <1>7, HostRests
<1> QED  BY <1>1, <1>2, <1>3, <1>4, <1>5, <1>6, <1>7

-----------------------------------------------------------------------------
(* What a step does to the broker's entry.  Besides the connections that    *)
(* come and go it is one of four things that happen to the first job: it is *)
(* dropped, its event is kept, it goes on waiting, or the host is given up. *)
Job == Head(broker.tail)

Drops ==
  /\ broker.tail # <<>>
  /\ broker' = Served(broker)
  /\ UNCHANGED <<bound, surface>>

Keeps ==
  /\ broker.tail # <<>>
  /\ StillHost(Job) /\ (IsNew(Job.e) \/ Awaiting("completing"))
  /\ \/ Retain(broker, Job)
     \/ /\ Awaiting("completing")
        /\ Retain([broker EXCEPT !.auth = Job.e.conv, !.kept = Job.e.conv], Job)
  /\ UNCHANGED bound

Waits ==
  /\ broker.tail # <<>>
  /\ \/ /\ broker' = Staged(broker, "binding")
        /\ StillHost(Job) /\ IsNew(Job.e)
        /\ UNCHANGED bound
     \/ /\ broker' = Staged(broker, "bound") /\ Awaiting("binding")
        /\ bound \in {0, Job.e.conv} /\ bound' = Job.e.conv
     \/ /\ broker' = Staged(broker, "completing") /\ Awaiting("bound")
        /\ UNCHANGED bound
  /\ UNCHANGED surface

GivesUp ==
  /\ broker.tail # <<>>
  /\ Rejected(Job)
  /\ UNCHANGED <<bound, surface>>

LEMMA EntryMoves ==
  ASSUME [Next]_vars
  PROVE  \/ UNCHANGED <<broker, bound>> /\ (UNCHANGED surface \/ SurfaceStep)
         \/ said' = said /\ (Connect \/ HostEvent \/ HostGone \/ Restart)
         \/ said' = said /\ (Drops \/ Keeps \/ Waits \/ GivesUp)
<1> DEFINE same == UNCHANGED <<broker, bound>> /\ (UNCHANGED surface \/ SurfaceStep)
           moved == said' = said /\ (Drops \/ Keeps \/ Waits \/ GivesUp)
<1>1. ASSUME HandleHostEvent PROVE moved
  <2>1. /\ broker.tail # <<>> /\ UNCHANGED <<bound, said>>
        /\ \/ broker' = Served(broker) /\ UNCHANGED surface
           \/ broker.host = Job.conn /\ IsNew(Job.e) /\ Retain(broker, Job)
           \/ Rejected(Job) /\ UNCHANGED surface
           \/ broker.host = Job.conn /\ IsNew(Job.e) /\ broker' = Staged(broker, "binding")
              /\ UNCHANGED surface
    BY <1>1 DEF HandleHostEvent, Pending, Job
  <2> QED  BY <2>1 DEF Drops, Keeps, Waits, GivesUp, StillHost
<1>2. ASSUME BindingCommits PROVE moved
  BY <1>2 DEF BindingCommits, Awaiting, Job, Waits
<1>3. ASSUME BindingRefused \/ CompletionFails PROVE moved
  BY <1>3 DEF BindingRefused, CompletionFails, Awaiting, Job, GivesUp
<1>4. ASSUME BindingReturns PROVE moved
  BY <1>4 DEF BindingReturns, Awaiting, Job, Waits, Drops, StillHost
<1>5. ASSUME LaunchCompletes PROVE moved
  BY <1>5 DEF LaunchCompletes, Awaiting, Job, Keeps, Drops
<1>6. ASSUME Terminates PROVE moved
  BY <1>6 DEF Terminates, Awaiting, Drops
<1>7. ASSUME HostStep PROVE same
  BY <1>7 DEF HostStep, HandleHelloAck, DriverStarts, FillEnds, RouteCommand,
     DrainCommandQueue, RunEnds
<1>8. ASSUME CommandResult \/ SurfaceStep PROVE same
  BY <1>8 DEF CommandResult, SurfaceStep, Subscribe, SetVisibility, BrowserDrops
<1>9. ASSUME \/ \E conv \in Conversations : Spawn(conv)
             \/ Say \/ SocketDrops \/ HostDies \/ SendCommand
             \/ \E c \in Commands : CommandTimesOut(c)
             \/ UNCHANGED vars
      PROVE  same
  BY <1>9 DEF Spawn, Say, SocketDrops, HostDies, SendCommand, CommandTimesOut, vars
<1>10. ASSUME Connect \/ HostEvent \/ HostGone \/ Restart PROVE said' = said
  BY <1>10 DEF Connect, HostEvent, HostGone, Restart
<1> QED  BY <1>1, <1>2, <1>3, <1>4, <1>5, <1>6, <1>7, <1>8, <1>9, <1>10
         DEF Next, Step, BrokerStep

LEMMA GivesUpIs ==
  ASSUME Typed, GivesUp
  PROVE  LET mine == StillHost(Job) IN
         /\ broker' \in EntryOf(said)
         /\ \A f \in {"spawn", "lastSeq", "ring"} : broker'[f] = broker[f]
         /\ broker'.host = (IF mine THEN NoConn ELSE broker.host)
         /\ broker'.auth \in {0, broker.auth} /\ broker'.kept \in {0, broker.kept}
         /\ Len(broker'.tail) = Len(broker.tail) /\ broker'.tail # <<>>
         /\ Head(broker'.tail).stage = "terminating"
         /\ \A i \in 1..Len(broker.tail) :
              /\ broker'.tail[i].conn = broker.tail[i].conn
              /\ i > 1 => broker'.tail[i] = broker.tail[i]
<1> DEFINE h == IF StillHost(Job) THEN NoConn ELSE broker.host
           a == IF StillHost(Job) THEN 0 ELSE broker.auth
           k == IF broker.spawn = Job.conn.spawn THEN 0 ELSE broker.kept
           entry == [broker EXCEPT !.kept = k, !.auth = a, !.host = h]
<1>1. said \in Nat /\ broker \in EntryOf(said) /\ broker.tail # <<>>  BY DEF Typed, GivesUp
<1>2. h \in Connection /\ a \in 0..2 /\ k \in 0..2
  BY <1>1 DEF EntryOf, NoConn, Connection
<1>3. broker' = Staged(entry, "terminating")
  <2>1. entry = [broker EXCEPT !.kept = IF broker.spawn = Job.conn.spawn THEN 0 ELSE @,
                               !.auth = IF StillHost(Job) THEN 0 ELSE @,
                               !.host = IF StillHost(Job) THEN NoConn ELSE @]
    BY <1>1 DEF EntryOf
  <2> QED  BY <2>1 DEF GivesUp, Rejected
<1> DEFINE h0 == h
<1>4. a \in {0, broker.auth} /\ k \in {0, broker.kept}  OBVIOUS
<1> HIDE DEF a, k, h
<1>5. /\ entry \in EntryOf(said)
      /\ entry.kept = k /\ entry.auth = a /\ entry.host = h /\ entry.tail = broker.tail
      /\ entry.spawn = broker.spawn /\ entry.lastSeq = broker.lastSeq /\ entry.ring = broker.ring
  BY <1>1, <1>2 DEF EntryOf
<1> HIDE DEF entry
<1>6. "terminating" \in Stages  BY DEF Stages
<1>7. /\ broker' \in EntryOf(said)
      /\ \A f \in {"host", "auth", "spawn", "kept", "lastSeq", "ring"} : broker'[f] = entry[f]
      /\ Len(broker'.tail) = Len(broker.tail)
      /\ broker'.tail # <<>>
      /\ Head(broker'.tail).stage = "terminating"
      /\ \A i \in 1..Len(broker.tail) :
           /\ broker'.tail[i].conn = broker.tail[i].conn
           /\ i > 1 => broker'.tail[i] = broker.tail[i]
  BY <1>1, <1>3, <1>5, <1>6, StagedIs
<1> QED  BY <1>4, <1>5, <1>7 DEF h

LEMMA HostEventIs ==
  ASSUME Typed, HostEvent
  PROVE  \/ broker' = broker
         \/ /\ broker' \in EntryOf(said)
            /\ \A f \in {"host", "auth", "spawn", "kept", "lastSeq", "ring"} :
                 broker'[f] = broker[f]
            /\ broker.host = ThisConn
            /\ Len(broker'.tail) = Len(broker.tail) + 1
            /\ \A i \in 1..Len(broker.tail) : broker'.tail[i] = broker.tail[i]
            /\ broker'.tail[Len(broker.tail) + 1].conn = ThisConn
            /\ broker'.tail[Len(broker.tail) + 1].stage = "queued"
<1> DEFINE job == [conn |-> ThisConn, e |-> Head(up).e, stage |-> "queued"]
           tail == Append(broker.tail, job)
<1>1. said \in Nat /\ broker \in EntryOf(said) /\ host \in HostOf(said)  BY DEF Typed
<1>2. job \in JobOf(said)
  <2>1. Head(up).e \in EventOf(said)  BY HeadFrame DEF HostEvent, Receives
  <2>2. ThisConn \in Connection  BY <1>1 DEF HostOf, Connection, ThisConn
  <2> QED  BY <2>1, <2>2 DEF JobOf, Stages
<1>3. job.conn = ThisConn /\ job.stage = "queued"  OBVIOUS
<1>4. CASE broker' = [broker EXCEPT !.tail = Append(@, job)] /\ broker.host = ThisConn
  <2>1. broker' = [broker EXCEPT !.tail = tail]  BY <1>1, <1>4 DEF EntryOf
  <2> HIDE DEF job
  <2>2. /\ tail \in Seq(JobOf(said)) /\ Len(tail) = Len(broker.tail) + 1
        /\ \A i \in 1..Len(broker.tail) : tail[i] = broker.tail[i]
        /\ tail[Len(broker.tail) + 1] = job
    <3>1. broker.tail \in Seq(JobOf(said))  BY <1>1 DEF EntryOf
    <3> QED  BY <1>2, <3>1
  <2> HIDE DEF tail
  <2>3. /\ broker' \in EntryOf(said) /\ broker'.tail = tail
        /\ \A f \in {"host", "auth", "spawn", "kept", "lastSeq", "ring"} :
             broker'[f] = broker[f]
    BY <1>1, <2>1, <2>2 DEF EntryOf
  <2> QED  BY <1>3, <1>4, <2>2, <2>3
<1> QED  BY <1>4 DEF HostEvent

LEMMA ConnectIs ==
  ASSUME Typed, Connect
  PROVE  /\ broker' \in EntryOf(said)
         /\ broker'.spawn = host.spawn /\ broker'.host = [spawn |-> host.spawn, n |-> host.n + 1]
         /\ broker'.tail = broker.tail
         /\ broker'.auth \in {broker.kept, bound} /\ broker'.kept = broker'.auth
         /\ \/ /\ broker.spawn \in {0, host.spawn}
               /\ broker'.ring = broker.ring /\ broker'.lastSeq = broker.lastSeq
               /\ UNCHANGED surface
            \/ /\ broker'.ring = <<>> /\ broker'.lastSeq = 0
               /\ IF surface.up THEN \E e : surface' = Snapshotted(surface, e)
                                              /\ e.ring = <<>> /\ e.lastSeq = 0
                  ELSE UNCHANGED surface
<1>1. said \in Nat /\ broker \in EntryOf(said) /\ host \in HostOf(said) /\ bound \in 0..2
  BY DEF Typed
<1> DEFINE changed == broker.spawn # 0 /\ broker.spawn # host.spawn
           reset == [broker EXCEPT !.ring = <<>>, !.lastSeq = 0, !.kept = 0]
           entry == IF changed THEN reset ELSE broker
           auth == IF entry.kept # 0 THEN entry.kept ELSE bound
           conn == [ThisConn EXCEPT !.n = @ + 1]
<1>2. /\ broker' = [entry EXCEPT !.spawn = host.spawn, !.host = conn,
                               !.auth = auth, !.kept = auth]
      /\ surface' = IF changed /\ surface.up THEN Snapshotted(surface, entry) ELSE surface
  BY DEF Connect
<1>3. conn = [spawn |-> host.spawn, n |-> host.n + 1] /\ conn \in Connection
  BY <1>1 DEF ThisConn, HostOf, Connection
<1>4. /\ reset \in EntryOf(said) /\ reset.tail = broker.tail
      /\ reset.ring = <<>> /\ reset.lastSeq = 0 /\ reset.kept = 0
  <2> DEFINE none == <<>>
             zero == 0
  <2>1. none \in Seq(KeptOf(said)) /\ zero \in Nat /\ zero \in 0..2  OBVIOUS
  <2>2. reset = [broker EXCEPT !.ring = none, !.lastSeq = zero, !.kept = zero]  OBVIOUS
  <2>3. none = <<>> /\ zero = 0  OBVIOUS
  <2> HIDE DEF none, zero, reset
  <2>4. /\ reset \in EntryOf(said) /\ reset.tail = broker.tail
        /\ reset.ring = none /\ reset.lastSeq = zero /\ reset.kept = zero
    BY <1>1, <2>1, <2>2 DEF EntryOf
  <2> QED  BY <2>3, <2>4
<1> HIDE DEF reset, conn
<1>5. entry \in EntryOf(said) /\ entry.tail = broker.tail /\ entry.kept \in {0, broker.kept}
  BY <1>1, <1>4
<1>6. auth \in 0..2 /\ auth \in {broker.kept, bound}
  BY <1>1, <1>5 DEF EntryOf
<1>7. /\ ~changed => entry.ring = broker.ring /\ entry.lastSeq = broker.lastSeq
      /\ changed => entry.ring = <<>> /\ entry.lastSeq = 0
  BY <1>4
<1> HIDE DEF entry, auth
<1>8. /\ broker' \in EntryOf(said)
      /\ broker'.spawn = host.spawn /\ broker'.host = conn
      /\ broker'.tail = entry.tail /\ broker'.auth = auth /\ broker'.kept = auth
      /\ broker'.ring = entry.ring /\ broker'.lastSeq = entry.lastSeq
  <2>1. host.spawn \in Nat  BY <1>1 DEF HostOf
  <2> QED  BY <1>2, <1>3, <1>5, <1>6, <2>1 DEF EntryOf
<1> QED  BY <1>2, <1>3, <1>5, <1>6, <1>7, <1>8

LEMMA KeepsIs ==
  ASSUME Typed, Keeps
  PROVE  /\ broker' \in EntryOf(said)
         /\ broker'.host = broker.host /\ broker'.spawn = broker.spawn
         /\ \/ broker'.auth = broker.auth /\ broker'.kept = broker.kept
            \/ broker'.auth = Job.e.conv /\ broker'.kept = Job.e.conv /\ Awaiting("completing")
         /\ broker'.lastSeq = Job.e.seq
         /\ broker'.ring = Append(broker.ring, [spawn |-> Job.conn.spawn, seq |-> Job.e.seq,
                                                msg |-> Job.e.msg])
         /\ Len(broker'.tail) = Len(broker.tail) - 1
         /\ \A i \in 1..Len(broker'.tail) : broker'.tail[i] = broker.tail[i + 1]
         /\ surface' = IF surface.up THEN Applied(surface, Job.e) ELSE surface
<1>1. said \in Nat /\ broker \in EntryOf(said) /\ broker.tail # <<>>  BY DEF Typed, Keeps
<1>2. Job.e.conv \in 0..2  BY <1>1, FirstJob DEF Job, EventOf
<1>3. CASE Retain(broker, Job)
  <2>1. surface' = IF surface.up THEN Applied(surface, Job.e) ELSE surface
    BY <1>3 DEF Retain
  <2> QED  BY <1>1, <1>3, <2>1, RetainIs DEF Job
<1>4. CASE Awaiting("completing")
           /\ Retain([broker EXCEPT !.auth = Job.e.conv, !.kept = Job.e.conv], Job)
  <2> DEFINE c == Job.e.conv
             entry == [broker EXCEPT !.auth = c, !.kept = c]
  <2>0. Retain(entry, Job)  BY <1>4
  <2>1. surface' = IF surface.up THEN Applied(surface, Job.e) ELSE surface
    BY <1>4 DEF Retain
  <2>2. c \in 0..2  BY <1>2
  <2> HIDE DEF c
  <2>3. /\ entry \in EntryOf(said) /\ entry.tail = broker.tail /\ entry.auth = c
        /\ entry.kept = c /\ entry.host = broker.host /\ entry.spawn = broker.spawn
        /\ entry.ring = broker.ring
    BY <1>1, <2>2 DEF EntryOf
  <2> HIDE DEF entry
  <2>4. Head(entry.tail) = Job  BY <2>3 DEF Job
  <2>5. /\ broker' \in EntryOf(said)
        /\ \A f \in {"host", "auth", "spawn", "kept"} : broker'[f] = entry[f]
        /\ broker'.lastSeq = Job.e.seq
        /\ broker'.ring = Append(entry.ring, [spawn |-> Job.conn.spawn, seq |-> Job.e.seq,
                                              msg |-> Job.e.msg])
        /\ Len(broker'.tail) = Len(entry.tail) - 1
        /\ \A i \in 1..Len(broker'.tail) : broker'.tail[i] = entry.tail[i + 1]
    BY <1>1, <2>0, <2>3, <2>4, RetainIs
  <2> QED  BY <1>4, <2>1, <2>3, <2>5 DEF c
<1> QED  BY <1>3, <1>4 DEF Keeps

LEMMA WaitsIs ==
  ASSUME Typed, Waits
  PROVE  /\ broker' \in EntryOf(said)
         /\ \A f \in {"host", "auth", "spawn", "kept", "lastSeq", "ring"} :
              broker'[f] = broker[f]
         /\ Len(broker'.tail) = Len(broker.tail) /\ broker'.tail # <<>>
         /\ Head(broker'.tail).conn = Job.conn /\ Head(broker'.tail).e = Job.e
         /\ \A i \in 1..Len(broker.tail) :
              /\ broker'.tail[i].conn = broker.tail[i].conn
              /\ i > 1 => broker'.tail[i] = broker.tail[i]
         /\ \/ /\ Head(broker'.tail).stage = "binding"
               /\ StillHost(Job) /\ IsNew(Job.e) /\ UNCHANGED bound
            \/ /\ Head(broker'.tail).stage = "bound" /\ Awaiting("binding")
               /\ bound \in {0, Job.e.conv} /\ bound' = Job.e.conv
            \/ /\ Head(broker'.tail).stage = "completing" /\ Awaiting("bound")
               /\ UNCHANGED bound
<1>1. said \in Nat /\ broker \in EntryOf(said) /\ broker.tail # <<>>  BY DEF Typed, Waits
<1>2. "binding" \in Stages /\ "bound" \in Stages /\ "completing" \in Stages
  BY DEF Stages
<1> QED  BY <1>1, <1>2, StagedIs DEF Waits, Job

(* The entry keeps its type, and the conversations it knows are two. *)
LEMMA EntryType ==
  ASSUME Typed, [Next]_vars
  PROVE  broker' \in EntryOf(said') /\ bound' \in 0..2
<1>1. said \in Nat /\ broker \in EntryOf(said) /\ bound \in 0..2  BY DEF Typed
<1>2. CASE UNCHANGED <<broker, bound>>
  <2>1. said' = said \/ said' = said + 1
    BY DEF vars, Next, Step, HandleHostEvent, HostStep, BrokerStep, SurfaceStep,
       HandleHelloAck, DriverStarts, FillEnds, RouteCommand, DrainCommandQueue, RunEnds,
       Connect, HostEvent, CommandResult, BindingCommits, BindingRefused, BindingReturns,
       LaunchCompletes, CompletionFails, Terminates, HostGone, Subscribe, SetVisibility,
       BrowserDrops, Spawn, Say, SocketDrops, HostDies, SendCommand, CommandTimesOut, Restart
  <2> QED  BY <1>1, <1>2, <2>1, MoreSaid
<1>3. CASE said' = said /\ HostGone
  <2> DEFINE h == NoConn
             a == 0
  <2>1. h \in Connection /\ a \in 0..2  BY DEF NoConn, Connection
  <2>2. broker' = [broker EXCEPT !.host = h, !.auth = a] /\ bound' = bound
    BY <1>3 DEF HostGone
  <2> HIDE DEF h, a
  <2> QED  BY <1>1, <1>3, <2>1, <2>2 DEF EntryOf
<1>4. CASE said' = said /\ Restart
  <2>1. NewEntry \in EntryOf(said)
    <3>1. NoConn \in Connection  BY DEF NoConn, Connection
    <3>2. <<>> \in Seq(KeptOf(said)) /\ <<>> \in Seq(JobOf(said)) /\ 0 \in 0..2  OBVIOUS
    <3> QED  BY <3>1, <3>2 DEF NewEntry, EntryOf
  <2> QED  BY <1>1, <1>4, <2>1 DEF Restart
<1>5. CASE said' = said /\ Connect
  BY <1>1, <1>5, ConnectIs DEF Connect
<1>6. CASE said' = said /\ HostEvent
  BY <1>1, <1>6, HostEventIs DEF HostEvent
<1>7. CASE said' = said /\ Drops
  BY <1>1, <1>7, ServedIs DEF Drops
<1>8. CASE said' = said /\ Keeps
  BY <1>1, <1>8, KeepsIs DEF Keeps
<1>9. CASE said' = said /\ Waits
  <2>1. Job.e.conv \in 0..2  BY <1>1, <1>9, FirstJob DEF Job, EventOf, Waits
  <2> QED  BY <1>1, <1>9, <2>1, WaitsIs
<1>10. CASE said' = said /\ GivesUp
  BY <1>1, <1>10, GivesUpIs DEF GivesUp
<1> QED  BY <1>2, <1>3, <1>4, <1>5, <1>6, <1>7, <1>8, <1>9, <1>10, EntryMoves

(* Sockets and processes only go on: what was earlier stays so. *)
LEMMA EarlierStays ==
  ASSUME Typed, Closed, [Next]_vars
  PROVE  /\ host'.spawn \in Nat /\ host'.n \in Nat /\ host.spawn \in Nat /\ host.n \in Nat
         /\ host'.spawn >= host.spawn
         /\ \A conn \in Connection : Earlier(conn) => Earlier(conn)'
<1>1. host' \in HostOf(said') /\ host \in HostOf(said)  BY HostMoves DEF HostTyped, Typed
<1>2. host'.spawn \in Nat /\ host'.n \in Nat /\ host.spawn \in Nat /\ host.n \in Nat
  BY <1>1 DEF HostOf
<1>3. \/ host'.spawn = host.spawn /\ host'.n = host.n
      \/ host'.spawn = host.spawn /\ host'.n = host.n + 1
      \/ host'.spawn = host.spawn + 1
  BY HostMoves, HostConnects, HostSpawns DEF SameHost
<1> QED  BY <1>2, <1>3 DEF Earlier, Connection

LEMMA ConnectedStep ==
  ASSUME Typed, Closed, Connected, [Next]_vars
  PROVE  Connected'
<1>1. said \in Nat /\ broker \in EntryOf(said) /\ bound \in 0..2  BY DEF Typed
<1>2. /\ broker.spawn \in Nat /\ broker.host \in Connection
      /\ broker.tail \in Seq(JobOf(said)) /\ Len(broker.tail) \in Nat
      /\ \A i \in 1..Len(broker.tail) :
           broker.tail[i] \in JobOf(said) /\ broker.tail[i].conn \in Connection
  <2>1. /\ broker.spawn \in Nat /\ broker.host \in Connection
        /\ broker.tail \in Seq(JobOf(said))
    BY <1>1 DEF EntryOf
  <2>2. \A i \in 1..Len(broker.tail) : broker.tail[i] \in JobOf(said)  BY <2>1
  <2> QED  BY <2>1, <2>2 DEF JobOf
<1>3. /\ host'.spawn \in Nat /\ host'.n \in Nat /\ host.spawn \in Nat /\ host.n \in Nat
      /\ host'.spawn >= host.spawn
      /\ \A conn \in Connection : Earlier(conn) => Earlier(conn)'
  BY EarlierStays
<1>4. host'.spawn # 0  BY <1>3 DEF Connected
<1>5. broker'.tail \in Seq(JobOf(said'))  BY EntryType DEF EntryOf
<1>6. broker'.tail # <<>> => Head(broker'.tail) = broker'.tail[1]  BY <1>5
<1>7. broker.tail # <<>> => Head(broker.tail) = broker.tail[1]  BY <1>2
<1> DEFINE Known == /\ broker'.spawn <= host'.spawn
                    /\ broker'.host # NoConn =>
                         broker'.host.spawn = broker'.spawn /\ Earlier(broker.host)'
           Queued == \A i \in 1..Len(broker'.tail) :
                       /\ Earlier(broker.tail[i].conn)' /\ broker'.tail[i].conn.spawn # 0
                       /\ i > 1 => broker'.tail[i].stage = "queued"
           Trusted == broker'.auth \in {0, bound'} /\ broker'.kept \in {0, bound'}
           Bound == (broker'.tail # <<>> /\ Head(broker'.tail).stage \in {"bound", "completing"})
                      => Head(broker'.tail).e.conv = bound'
<1>8. SUFFICES Known /\ Queued /\ Trusted /\ Bound
  BY <1>4 DEF Connected, Awaiting
<1>9. ASSUME broker'.spawn = broker.spawn, broker'.host \in {NoConn, broker.host}
      PROVE  Known
  BY <1>2, <1>3, <1>9 DEF Connected, Earlier
<1>10. ASSUME Len(broker'.tail) = Len(broker.tail),
              \A i \in 1..Len(broker.tail) :
                /\ broker'.tail[i].conn = broker.tail[i].conn
                /\ i > 1 => broker'.tail[i] = broker.tail[i]
       PROVE  Queued
  <2>1. ASSUME NEW i \in 1..Len(broker'.tail)
        PROVE  /\ Earlier(broker.tail[i].conn)' /\ broker'.tail[i].conn.spawn # 0
               /\ i > 1 => broker'.tail[i].stage = "queued"
    BY <1>2, <1>3, <1>10, <2>1 DEF Connected, Earlier
  <2> QED  BY <2>1
<1>11. ASSUME Len(broker'.tail) = Len(broker.tail) - 1,
              \A i \in 1..Len(broker'.tail) : broker'.tail[i] = broker.tail[i + 1]
       PROVE  Queued /\ (broker'.tail # <<>> => Head(broker'.tail).stage = "queued")
  <2>1. ASSUME NEW i \in 1..Len(broker'.tail)
        PROVE  /\ Earlier(broker.tail[i].conn)' /\ broker'.tail[i].conn.spawn # 0
               /\ broker'.tail[i].stage = "queued"
    <3>1. i + 1 \in 1..Len(broker.tail) /\ i + 1 > 1 /\ broker'.tail[i] = broker.tail[i + 1]
      BY <1>2, <1>11, <2>1
    <3> QED  BY <1>2, <1>3, <3>1 DEF Connected, Earlier
  <2>2. broker'.tail # <<>> => 1 \in 1..Len(broker'.tail)  BY <1>5
  <2> QED  BY <1>6, <2>1, <2>2
<1>12. CASE UNCHANGED <<broker, bound>>
  <2>1. Known  BY <1>9, <1>12
  <2>2. Queued  BY <1>10, <1>12
  <2> QED  BY <1>12, <2>1, <2>2 DEF Connected, Awaiting
<1>13. CASE HostGone
  <2>1. /\ broker'.spawn = broker.spawn /\ broker'.host = NoConn /\ broker'.tail = broker.tail
        /\ broker'.auth = 0 /\ broker'.kept = broker.kept /\ bound' = bound
    BY <1>1, <1>13 DEF HostGone, EntryOf
  <2> QED  BY <1>9, <1>10, <2>1 DEF Connected, Awaiting
<1>14. CASE Restart
  <2>1. broker'.tail = <<>> /\ broker'.host = NoConn /\ broker'.spawn = 0
        /\ broker'.auth = 0 /\ broker'.kept = 0
    BY <1>14 DEF Restart, NewEntry
  <2> QED  BY <1>3, <2>1
<1>15. CASE Connect
  <2>1. /\ broker'.spawn = host.spawn /\ broker'.host = [spawn |-> host.spawn, n |-> host.n + 1]
        /\ broker'.tail = broker.tail
        /\ broker'.auth \in {broker.kept, bound} /\ broker'.kept = broker'.auth
    BY <1>15, ConnectIs
  <2>2. host'.spawn = host.spawn /\ host'.n = host.n + 1 /\ bound' = bound
    BY <1>15, HostConnects DEF Connect
  <2>3. Known  BY <1>3, <2>1, <2>2 DEF Earlier
  <2>4. Queued  BY <1>10, <2>1
  <2> QED  BY <2>1, <2>2, <2>3, <2>4 DEF Connected, Awaiting
<1>16. CASE HostEvent
  <2>1. bound' = bound /\ UNCHANGED host  BY <1>16 DEF HostEvent
  <2>2. CASE broker' = broker  BY <1>12, <2>1, <2>2
  <2>3. CASE broker' # broker
    <3>1. /\ \A f \in {"host", "auth", "spawn", "kept", "lastSeq", "ring"} :
               broker'[f] = broker[f]
          /\ broker.host = ThisConn
          /\ Len(broker'.tail) = Len(broker.tail) + 1
          /\ \A i \in 1..Len(broker.tail) : broker'.tail[i] = broker.tail[i]
          /\ broker'.tail[Len(broker.tail) + 1].conn = ThisConn
          /\ broker'.tail[Len(broker.tail) + 1].stage = "queued"
      BY <1>16, <2>3, HostEventIs
    <3>2. Known  BY <1>9, <3>1
    <3>3. ThisConn.spawn = host.spawn /\ ThisConn.n = host.n  BY DEF ThisConn
    <3>4. ASSUME NEW i \in 1..Len(broker'.tail)
          PROVE  /\ Earlier(broker.tail[i].conn)' /\ broker'.tail[i].conn.spawn # 0
                 /\ i > 1 => broker'.tail[i].stage = "queued"
      <4>1. CASE i = Len(broker.tail) + 1
        BY <1>3, <2>1, <3>1, <3>3, <4>1 DEF Connected, Earlier
      <4>2. CASE i \in 1..Len(broker.tail)
        BY <1>2, <1>3, <3>1, <4>2 DEF Connected, Earlier
      <4> QED  BY <1>2, <3>1, <4>1, <4>2
    <3>5. Bound
      <4>1. CASE broker.tail = <<>>
        <5>1. broker'.tail[1].stage = "queued"  BY <3>1, <4>1
        <5> QED  BY <1>6, <5>1
      <4>2. CASE broker.tail # <<>>
        <5>1. 1 \in 1..Len(broker.tail)  BY <1>2, <4>2
        <5>2. broker'.tail[1] = broker.tail[1] /\ broker'.tail # <<>>
          BY <1>2, <3>1, <5>1
        <5> QED  BY <1>6, <1>7, <2>1, <4>2, <5>2 DEF Connected, Awaiting
      <4> QED  BY <4>1, <4>2
    <3> QED  BY <2>1, <3>1, <3>2, <3>4, <3>5 DEF Connected
  <2> QED  BY <2>2, <2>3
<1>17. CASE Drops
  <2>1. /\ \A f \in {"host", "auth", "spawn", "kept"} : broker'[f] = broker[f]
        /\ Len(broker'.tail) = Len(broker.tail) - 1
        /\ \A i \in 1..Len(broker'.tail) : broker'.tail[i] = broker.tail[i + 1]
        /\ bound' = bound
    BY <1>1, <1>17, ServedIs DEF Drops
  <2>2. Known  BY <1>9, <2>1
  <2>3. Queued /\ Bound  BY <1>11, <2>1
  <2> QED  BY <2>1, <2>2, <2>3 DEF Connected
<1>18. CASE Keeps
  <2>1. /\ broker'.host = broker.host /\ broker'.spawn = broker.spawn
        /\ Len(broker'.tail) = Len(broker.tail) - 1
        /\ \A i \in 1..Len(broker'.tail) : broker'.tail[i] = broker.tail[i + 1]
        /\ bound' = bound
        /\ \/ broker'.auth = broker.auth /\ broker'.kept = broker.kept
           \/ broker'.auth = Job.e.conv /\ broker'.kept = Job.e.conv /\ Awaiting("completing")
    BY <1>18, KeepsIs DEF Keeps
  <2>2. Known  BY <1>9, <2>1
  <2>3. Queued /\ Bound  BY <1>11, <2>1
  <2> QED  BY <2>1, <2>2, <2>3 DEF Connected, Job
<1>19. CASE Waits
  <2>1. /\ \A f \in {"host", "auth", "spawn", "kept"} : broker'[f] = broker[f]
        /\ Len(broker'.tail) = Len(broker.tail)
        /\ Head(broker'.tail).e = Job.e
        /\ \A i \in 1..Len(broker.tail) :
             /\ broker'.tail[i].conn = broker.tail[i].conn
             /\ i > 1 => broker'.tail[i] = broker.tail[i]
        /\ \/ Head(broker'.tail).stage = "binding" /\ UNCHANGED bound
           \/ bound \in {0, Job.e.conv} /\ bound' = Job.e.conv
           \/ Awaiting("bound") /\ UNCHANGED bound
    BY <1>19, WaitsIs
  <2>2. Known  BY <1>9, <2>1
  <2>3. Queued  BY <1>10, <2>1
  <2>4. Bound  BY <2>1 DEF Connected, Job
  <2>5. Trusted  BY <2>1 DEF Connected
  <2> QED  BY <2>2, <2>3, <2>4, <2>5
<1>20. CASE GivesUp
  <2>1. /\ broker'.spawn = broker.spawn /\ broker'.host \in {NoConn, broker.host}
        /\ broker'.auth \in {0, broker.auth} /\ broker'.kept \in {0, broker.kept}
        /\ Len(broker'.tail) = Len(broker.tail)
        /\ Head(broker'.tail).stage = "terminating"
        /\ \A i \in 1..Len(broker.tail) :
             /\ broker'.tail[i].conn = broker.tail[i].conn
             /\ i > 1 => broker'.tail[i] = broker.tail[i]
    BY <1>20, GivesUpIs
  <2>2. bound' = bound  BY <1>20 DEF GivesUp
  <2>3. Known  BY <1>9, <2>1
  <2>4. Queued  BY <1>10, <2>1
  <2> QED  BY <2>1, <2>2, <2>3, <2>4 DEF Connected
<1> QED  BY <1>12, <1>13, <1>14, <1>15, <1>16, <1>17, <1>18, <1>19, <1>20, EntryMoves

(* Only the events of the process the entry serves are kept, each above the *)
(* last, and the one that waits is still above it when it is kept.          *)
LEMMA StoryStep ==
  ASSUME Typed, Closed, Connected, Story, [Next]_vars
  PROVE  Story'
<1>1. said \in Nat /\ broker \in EntryOf(said)  BY DEF Typed
<1>2. /\ broker.spawn \in Nat /\ broker.host \in Connection /\ broker.lastSeq \in Nat
      /\ broker.ring \in Seq(KeptOf(said)) /\ Len(broker.ring) \in Nat
      /\ \A i \in 1..Len(broker.ring) : broker.ring[i].seq \in Nat
  <2>1. /\ broker.spawn \in Nat /\ broker.host \in Connection /\ broker.lastSeq \in Nat
        /\ broker.ring \in Seq(KeptOf(said))
    BY <1>1 DEF EntryOf
  <2>2. \A i \in 1..Len(broker.ring) : broker.ring[i] \in KeptOf(said)  BY <2>1
  <2> QED  BY <2>1, <2>2 DEF KeptOf
<1>3. broker.tail # <<>> =>
        /\ Job.conn \in Connection /\ Job.conn.spawn # 0 /\ Earlier(Job.conn)
        /\ Job.e.seq \in Nat
  BY <1>1, FirstJob DEF Connected, Job, EventOf
<1>4. NoConn.spawn = 0  BY DEF NoConn
<1> DEFINE Ring == /\ \A i \in 1..Len(broker'.ring) :
                        /\ broker'.ring[i].spawn = broker'.spawn
                        /\ broker'.ring[i].seq <= broker'.lastSeq
                   /\ \A i, j \in 1..Len(broker'.ring) :
                        i < j => broker'.ring[i].seq < broker'.ring[j].seq
                   /\ broker'.spawn = 0 => broker'.ring = <<>>
           New == /\ broker'.tail # <<>>
                  /\ Head(broker'.tail).stage \in {"binding", "bound", "completing"}
                  /\ broker'.host = Head(broker'.tail).conn
                  => Head(broker'.tail).e.seq > broker'.lastSeq
<1>5. SUFFICES Ring /\ New
  BY DEF Story, RingOfOneSpawn, Awaiting, StillHost, IsNew
<1>6. ASSUME broker'.ring = broker.ring, broker'.spawn = broker.spawn,
             broker'.lastSeq = broker.lastSeq
      PROVE  Ring
  BY <1>6 DEF Story, RingOfOneSpawn
<1>7. ASSUME broker'.tail # <<>>, Head(broker'.tail) \in {Head(broker.tail)}, broker.tail # <<>>,
             broker'.host \in {NoConn, broker.host}, broker'.lastSeq = broker.lastSeq
      PROVE  New
  BY <1>3, <1>4, <1>7 DEF Story, Awaiting, StillHost, IsNew, Job
<1>8. broker'.tail \in Seq(JobOf(said'))  BY EntryType DEF EntryOf
<1>9. broker'.tail # <<>> => Head(broker'.tail) = broker'.tail[1] /\ 1 \in 1..Len(broker'.tail)
  BY <1>8
<1>10. ASSUME Len(broker'.tail) = Len(broker.tail) - 1,
              \A i \in 1..Len(broker'.tail) : broker'.tail[i] = broker.tail[i + 1]
       PROVE  New
  <2>0. broker.tail \in Seq(JobOf(said))  BY <1>1 DEF EntryOf
  <2>1. CASE broker'.tail # <<>>
    <3>1. 2 \in 1..Len(broker.tail) /\ Head(broker'.tail) = broker.tail[2]
      BY <1>9, <1>10, <2>0, <2>1
    <3> QED  BY <3>1 DEF Connected
  <2> QED  BY <2>1
<1>12. CASE UNCHANGED <<broker, bound>>
  BY <1>6, <1>12 DEF Story, Awaiting, StillHost, IsNew
<1>13. CASE HostGone
  <2>1. /\ broker'.spawn = broker.spawn /\ broker'.host = NoConn /\ broker'.tail = broker.tail
        /\ broker'.ring = broker.ring /\ broker'.lastSeq = broker.lastSeq
    BY <1>1, <1>13 DEF HostGone, EntryOf
  <2> QED  BY <1>6, <1>7, <2>1
<1>14. CASE Restart
  <2>1. broker'.tail = <<>> /\ broker'.ring = <<>>
    BY <1>14 DEF Restart, NewEntry
  <2> QED  BY <2>1
<1>15. CASE Connect
  <2>1. /\ broker'.spawn = host.spawn /\ broker'.host = [spawn |-> host.spawn, n |-> host.n + 1]
        /\ broker'.tail = broker.tail
        /\ \/ /\ broker.spawn \in {0, host.spawn}
              /\ broker'.ring = broker.ring /\ broker'.lastSeq = broker.lastSeq
           \/ broker'.ring = <<>>
    BY <1>15, ConnectIs
  <2>2. host.spawn \in Nat /\ host.n \in Nat /\ host.spawn # 0
    BY EarlierStays DEF Connected
  <2>3. Ring
    <3>1. CASE broker'.ring = <<>>  BY <3>1
    <3>2. CASE broker.ring # <<>> /\ broker.spawn \in {0, host.spawn}
               /\ broker'.ring = broker.ring /\ broker'.lastSeq = broker.lastSeq
      <4>1. broker.spawn = host.spawn  BY <3>2 DEF Story
      <4> QED  BY <1>6, <2>1, <3>2, <4>1
    <3> QED  BY <2>1, <3>1, <3>2
  <2>4. New
    <3>1. broker.tail # <<>> => Job.conn # broker'.host
      BY <1>3, <2>1, <2>2 DEF Earlier
    <3> QED  BY <2>1, <3>1 DEF Job
  <2> QED  BY <2>3, <2>4
<1>16. CASE HostEvent
  <2>1. CASE broker' = broker
    BY <1>6, <2>1 DEF Story, Awaiting, StillHost, IsNew
  <2>2. CASE broker' # broker
    <3>1. /\ \A f \in {"host", "auth", "spawn", "kept", "lastSeq", "ring"} :
               broker'[f] = broker[f]
          /\ Len(broker'.tail) = Len(broker.tail) + 1
          /\ \A i \in 1..Len(broker.tail) : broker'.tail[i] = broker.tail[i]
          /\ broker'.tail[Len(broker.tail) + 1].stage = "queued"
      BY <1>16, <2>2, HostEventIs
    <3>2. broker.tail \in Seq(JobOf(said))  BY <1>1 DEF EntryOf
    <3>3. CASE broker.tail = <<>>
      <4>1. broker'.tail[1].stage = "queued"  BY <3>1, <3>3
      <4> QED  BY <1>6, <1>9, <3>1, <4>1
    <3>4. CASE broker.tail # <<>>
      <4>1. 1 \in 1..Len(broker.tail) /\ Head(broker.tail) = broker.tail[1]
        BY <3>2, <3>4
      <4>2. broker'.tail # <<>> /\ Head(broker'.tail) = Head(broker.tail)
        BY <1>8, <1>9, <3>1, <3>2, <4>1
      <4>3. New  BY <1>7, <3>1, <3>4, <4>2
      <4> QED  BY <1>6, <3>1, <4>3
    <3> QED  BY <3>3, <3>4
  <2> QED  BY <2>1, <2>2
<1>17. CASE Drops
  <2>1. /\ \A f \in {"spawn", "lastSeq", "ring"} : broker'[f] = broker[f]
        /\ Len(broker'.tail) = Len(broker.tail) - 1
        /\ \A i \in 1..Len(broker'.tail) : broker'.tail[i] = broker.tail[i + 1]
    BY <1>1, <1>17, ServedIs DEF Drops
  <2> QED  BY <1>6, <1>10, <2>1
<1>18. CASE Keeps
  <2> DEFINE kept == [spawn |-> Job.conn.spawn, seq |-> Job.e.seq, msg |-> Job.e.msg]
  <2>1. /\ broker'.spawn = broker.spawn /\ broker'.lastSeq = Job.e.seq
        /\ broker'.ring = Append(broker.ring, kept)
        /\ Len(broker'.tail) = Len(broker.tail) - 1
        /\ \A i \in 1..Len(broker'.tail) : broker'.tail[i] = broker.tail[i + 1]
    BY <1>18, KeepsIs
  <2>2. broker.tail # <<>> /\ broker.host = Job.conn
    BY <1>18 DEF Keeps, StillHost
  <2>3. Job.conn.spawn = broker.spawn /\ broker.spawn # 0
    BY <1>3, <1>4, <2>2 DEF Connected
  <2>4. Job.e.seq > broker.lastSeq
    BY <1>18 DEF Keeps, Story, IsNew, Job
  <2>5. kept.spawn = Job.conn.spawn /\ kept.seq = Job.e.seq  OBVIOUS
  <2> HIDE DEF kept
  <2>6. /\ Len(broker'.ring) = Len(broker.ring) + 1
        /\ \A i \in 1..Len(broker.ring) : broker'.ring[i] = broker.ring[i]
        /\ broker'.ring[Len(broker.ring) + 1] = kept
    BY <1>2, <2>1
  <2>7. \A i \in 1..Len(broker'.ring) : i \in 1..Len(broker.ring) \/ i = Len(broker.ring) + 1
    BY <1>2, <2>6
  <2>8. ASSUME NEW i \in 1..Len(broker'.ring)
        PROVE  /\ broker'.ring[i].spawn = broker'.spawn
               /\ broker'.ring[i].seq <= broker'.lastSeq
    BY <1>2, <1>3, <2>1, <2>2, <2>3, <2>4, <2>5, <2>6, <2>7 DEF Story, RingOfOneSpawn
  <2>9. ASSUME NEW i \in 1..Len(broker'.ring), NEW j \in 1..Len(broker'.ring), i < j
        PROVE  broker'.ring[i].seq < broker'.ring[j].seq
    <3>1. i \in 1..Len(broker.ring)  BY <1>2, <2>6, <2>7, <2>9
    <3>2. CASE j \in 1..Len(broker.ring)
      BY <2>6, <2>9, <3>1, <3>2 DEF Story, RingOfOneSpawn
    <3>3. CASE j = Len(broker.ring) + 1
      <4>1. broker'.ring[j].seq = Job.e.seq  BY <2>5, <2>6, <3>3
      <4>2. broker'.ring[i].seq <= broker.lastSeq /\ broker'.ring[i].seq \in Nat
        BY <1>2, <2>6, <3>1 DEF Story
      <4> QED  BY <1>2, <1>3, <2>2, <2>4, <4>1, <4>2
    <3> QED  BY <2>7, <3>2, <3>3
  <2>10. Ring  BY <2>1, <2>3, <2>8, <2>9
  <2> QED  BY <1>10, <2>1, <2>10
<1>19. CASE Waits
  <2>1. /\ \A f \in {"host", "spawn", "lastSeq", "ring"} : broker'[f] = broker[f]
        /\ Head(broker'.tail).conn = Job.conn /\ Head(broker'.tail).e = Job.e
        /\ \/ StillHost(Job) /\ IsNew(Job.e)
           \/ Awaiting("binding")
           \/ Awaiting("bound")
    BY <1>19, WaitsIs
  <2> QED  BY <1>6, <2>1 DEF Story, StillHost, IsNew, Job
<1>20. CASE GivesUp
  <2>1. /\ broker'.spawn = broker.spawn
        /\ broker'.lastSeq = broker.lastSeq /\ broker'.ring = broker.ring
        /\ Head(broker'.tail).stage = "terminating"
    BY <1>20, GivesUpIs
  <2> QED  BY <1>6, <2>1
<1> QED  BY <1>12, <1>13, <1>14, <1>15, <1>16, <1>17, <1>18, <1>19, <1>20, EntryMoves

(* The ring's messages, and what a kept event adds to them. *)
MessagesOf(ring) == {ring[i].msg : i \in 1..Len(ring)} \ {0}

LEMMA OneMore ==
  ASSUME NEW S, NEW ring \in Seq(S), NEW kept \in S
  PROVE  MessagesOf(Append(ring, kept)) = MessagesOf(ring) \cup ({kept.msg} \ {0})
<1> DEFINE longer == Append(ring, kept)
<1>1. /\ Len(ring) \in Nat /\ Len(longer) = Len(ring) + 1
      /\ \A i \in 1..Len(ring) : longer[i] = ring[i]
      /\ longer[Len(ring) + 1] = kept
  OBVIOUS
<1>2. \A i \in 1..Len(longer) : i \in 1..Len(ring) \/ i = Len(ring) + 1
  BY <1>1
<1>3. 1..Len(ring) \subseteq 1..Len(longer) /\ Len(ring) + 1 \in 1..Len(longer)
  BY <1>1
<1> HIDE DEF longer
<1> QED  BY <1>1, <1>2, <1>3 DEF MessagesOf, longer

(* A surface that is shown a snapshot has the ring and its watermark. *)
LEMMA SnapshotIs ==
  ASSUME said \in Nat, NEW s \in SurfaceOf(said), NEW entry,
         MessagesOf(entry.ring) \subseteq 1..said, entry.lastSeq \in Int
  PROVE  LET t == Snapshotted(s, entry) IN
         /\ t \in SurfaceOf(said)
         /\ t.rows = MessagesOf(entry.ring) /\ t.mark = entry.lastSeq
         /\ t.up = s.up /\ t.visible = s.visible
<1> DEFINE rows == MessagesOf(entry.ring)
           mark == entry.lastSeq
           t == [s EXCEPT !.rows = rows, !.mark = mark]
<1>1. Snapshotted(s, entry) = t  BY DEF Snapshotted, MessagesOf
<1>2. rows \in SUBSET (1..said) /\ mark \in Int  OBVIOUS
<1> HIDE DEF rows, mark
<1>3. t.rows = rows /\ t.mark = mark /\ t.up = s.up /\ t.visible = s.visible
  BY DEF SurfaceOf
<1>4. t \in SurfaceOf(said)  BY <1>2 DEF SurfaceOf
<1> HIDE DEF t
<1> QED  BY <1>1, <1>3, <1>4 DEF rows, mark

(* What the ring holds was said. *)
LEMMA RingWasSaid ==
  ASSUME Typed
  PROVE  /\ RingMessages = MessagesOf(broker.ring)
         /\ RingMessages \subseteq 1..said /\ broker.lastSeq \in Int
<1>1. said \in Nat /\ broker.lastSeq \in Int /\ broker.ring \in Seq(KeptOf(said))
  BY DEF Typed, EntryOf
<1>2. \A i \in 1..Len(broker.ring) : broker.ring[i].msg \in 0..said
  <2>1. \A i \in 1..Len(broker.ring) : broker.ring[i] \in KeptOf(said)  BY <1>1
  <2> QED  BY <2>1 DEF KeptOf
<1> QED  BY <1>1, <1>2 DEF RingMessages, MessagesOf

LEMMA SubscribedShown ==
  ASSUME Typed, Shown, SurfaceStep, UNCHANGED broker
  PROVE  surface' \in SurfaceOf(said) /\ Shown'
<1>1. surface \in SurfaceOf(said)  BY DEF Typed
<1>2. /\ RingMessages = MessagesOf(broker.ring)
      /\ RingMessages \subseteq 1..said /\ broker.lastSeq \in Int
  BY RingWasSaid
<1>3. RingMessages' = RingMessages /\ broker'.lastSeq = broker.lastSeq
  BY DEF RingMessages
<1>4. ASSUME NEW s \in SurfaceOf(said), surface' = Snapshotted(s, broker)
      PROVE  surface' \in SurfaceOf(said) /\ Shown'
  <2>1. said \in Nat  BY DEF Typed
  <2>2. /\ surface' \in SurfaceOf(said)
        /\ surface'.rows = MessagesOf(broker.ring) /\ surface'.mark = broker.lastSeq
    BY <1>2, <1>4, <2>1, SnapshotIs
  <2> QED  BY <1>2, <1>3, <2>2 DEF Shown
<1>5. CASE Subscribe
  <2>2. [surface EXCEPT !.up = TRUE] \in SurfaceOf(said)
        /\ [surface EXCEPT !.up = TRUE].visible = surface.visible
    BY <1>1 DEF SurfaceOf
  <2>3. CASE surface.visible
    BY <1>4, <1>5, <2>2, <2>3 DEF Subscribe
  <2>4. CASE ~surface.visible
    BY <1>5, <2>2, <2>4 DEF Subscribe, Shown
  <2> QED  BY <2>3, <2>4
<1>6. CASE SetVisibility
  <2> DEFINE turned == [surface EXCEPT !.visible = ~@]
  <2>1. /\ turned \in SurfaceOf(said) /\ turned.up = surface.up
    BY <1>1 DEF SurfaceOf
  <2>2. surface' = IF surface.up /\ turned.visible THEN Snapshotted(turned, broker) ELSE turned
    BY <1>6 DEF SetVisibility
  <2> HIDE DEF turned
  <2> QED  BY <1>4, <2>1, <2>2 DEF Shown
<1>7. CASE BrowserDrops
  <2>1. [surface EXCEPT !.up = FALSE] \in SurfaceOf(said)
        /\ ~[surface EXCEPT !.up = FALSE].up
    BY <1>1 DEF SurfaceOf
  <2> QED  BY <1>7, <2>1 DEF BrowserDrops, Shown
<1> QED  BY <1>5, <1>6, <1>7 DEF SurfaceStep

(* The surface is told each event that is kept, once and in order, because  *)
(* its watermark is the entry's last number.                                *)
LEMMA ShownStep ==
  ASSUME Typed, Closed, Connected, Story, Shown, [Next]_vars
  PROVE  surface' \in SurfaceOf(said') /\ Shown'
<1>1. said \in Nat /\ broker \in EntryOf(said) /\ surface \in SurfaceOf(said)
  BY DEF Typed
<1>2. /\ RingMessages = MessagesOf(broker.ring)
      /\ RingMessages \subseteq 1..said /\ broker.lastSeq \in Int
  BY RingWasSaid
<1>3. RingMessages' = MessagesOf(broker'.ring)  BY DEF RingMessages, MessagesOf
<1>4. SUFFICES /\ surface' \in SurfaceOf(said')
               /\ surface'.up /\ surface'.visible =>
                    surface'.rows = MessagesOf(broker'.ring) /\ surface'.mark = broker'.lastSeq
  BY <1>3 DEF Shown
<1>5. ASSUME said' = said, UNCHANGED surface, broker'.ring = broker.ring,
             broker'.lastSeq = broker.lastSeq
      PROVE  /\ surface' \in SurfaceOf(said')
             /\ surface'.up /\ surface'.visible =>
                  surface'.rows = MessagesOf(broker'.ring) /\ surface'.mark = broker'.lastSeq
  BY <1>1, <1>2, <1>5 DEF Shown
<1>6. CASE UNCHANGED <<broker, surface>>
  <2>1. said' = said \/ said' = said + 1
    BY DEF vars, Next, Step, HandleHostEvent, HostStep, BrokerStep, SurfaceStep,
       HandleHelloAck, DriverStarts, FillEnds, RouteCommand, DrainCommandQueue, RunEnds,
       Connect, HostEvent, CommandResult, BindingCommits, BindingRefused, BindingReturns,
       LaunchCompletes, CompletionFails, Terminates, HostGone, Subscribe, SetVisibility,
       BrowserDrops, Spawn, Say, SocketDrops, HostDies, SendCommand, CommandTimesOut, Restart
  <2>2. 1..said \subseteq 1..said'  BY <1>1, <2>1
  <2>3. surface' \in SurfaceOf(said')  BY <1>1, <1>6, <2>2 DEF SurfaceOf
  <2> QED  BY <1>2, <1>6, <2>3 DEF Shown
<1>7. CASE SurfaceStep /\ UNCHANGED broker
  <2>1. said' = said
    BY <1>7 DEF SurfaceStep, Subscribe, SetVisibility, BrowserDrops
  <2> QED  BY <1>3, <1>7, <2>1, SubscribedShown DEF Shown
<1>8. CASE said' = said /\ HostGone
  <2>1. broker'.ring = broker.ring /\ broker'.lastSeq = broker.lastSeq
    BY <1>1, <1>8 DEF HostGone, EntryOf
  <2> QED  BY <1>5, <1>8, <2>1 DEF HostGone
<1>9. CASE said' = said /\ HostEvent
  <2>1. broker'.ring = broker.ring /\ broker'.lastSeq = broker.lastSeq
    BY <1>9, HostEventIs
  <2> QED  BY <1>5, <1>9, <2>1 DEF HostEvent
<1>10. CASE said' = said /\ Restart
  <2>1. surface' = [surface EXCEPT !.up = FALSE]  BY <1>10 DEF Restart
  <2>2. surface' \in SurfaceOf(said) /\ ~surface'.up  BY <1>1, <2>1 DEF SurfaceOf
  <2> QED  BY <1>10, <2>2
<1>11. CASE said' = said /\ Connect
  <2>1. CASE broker'.ring = broker.ring /\ broker'.lastSeq = broker.lastSeq /\ UNCHANGED surface
    BY <1>5, <1>11, <2>1
  <2>2. CASE /\ broker'.ring = <<>> /\ broker'.lastSeq = 0
             /\ IF surface.up THEN \E e : surface' = Snapshotted(surface, e)
                                            /\ e.ring = <<>> /\ e.lastSeq = 0
                ELSE UNCHANGED surface
    <3>1. CASE ~surface.up  BY <1>1, <1>11, <2>2, <3>1
    <3>2. CASE surface.up
      <4>1. PICK e : surface' = Snapshotted(surface, e) /\ e.ring = <<>> /\ e.lastSeq = 0
        BY <2>2, <3>2
      <4>3. MessagesOf(e.ring) = {}  BY <4>1 DEF MessagesOf
      <4>2. /\ surface' \in SurfaceOf(said)
            /\ surface'.rows = MessagesOf(e.ring) /\ surface'.mark = e.lastSeq
        BY <1>1, <4>1, <4>3, SnapshotIs
      <4>4. MessagesOf(broker'.ring) = {}  BY <2>2 DEF MessagesOf
      <4> QED  BY <1>11, <2>2, <4>1, <4>2, <4>3, <4>4
    <3> QED  BY <3>1, <3>2
  <2> QED  BY <1>11, <2>1, <2>2, ConnectIs
<1>12. CASE said' = said /\ (Drops \/ Waits \/ GivesUp)
  <2>1. UNCHANGED surface  BY <1>12 DEF Drops, Waits, GivesUp
  <2>2. broker'.ring = broker.ring /\ broker'.lastSeq = broker.lastSeq
    <3>1. CASE Drops  BY <1>1, <3>1, ServedIs DEF Drops
    <3>2. CASE Waits  BY <3>2, WaitsIs
    <3>3. CASE GivesUp  BY <3>3, GivesUpIs
    <3> QED  BY <1>12, <3>1, <3>2, <3>3
  <2> QED  BY <1>5, <1>12, <2>1, <2>2
<1>13. CASE said' = said /\ Keeps
  <2> DEFINE kept == [spawn |-> Job.conn.spawn, seq |-> Job.e.seq, msg |-> Job.e.msg]
  <2>1. /\ broker'.lastSeq = Job.e.seq /\ broker'.ring = Append(broker.ring, kept)
        /\ surface' = IF surface.up THEN Applied(surface, Job.e) ELSE surface
    BY <1>13, KeepsIs
  <2>2. Job.e \in EventOf(said) /\ Job.conn \in Connection
    BY <1>1, <1>13, FirstJob DEF Keeps, Job
  <2>3. Job.e.seq \in Nat /\ Job.e.msg \in 0..said /\ Job.conn.spawn \in Nat
    BY <2>2 DEF EventOf, Connection
  <2>4. MessagesOf(broker'.ring) = MessagesOf(broker.ring) \cup ({Job.e.msg} \ {0})
    <3>1. kept \in KeptOf(said) /\ kept.msg = Job.e.msg  BY <2>3 DEF KeptOf
    <3>2. broker.ring \in Seq(KeptOf(said))  BY <1>1 DEF EntryOf
    <3> HIDE DEF kept
    <3> QED  BY <2>1, <3>1, <3>2, OneMore
  <2>5. Job.e.seq > broker.lastSeq
    BY <1>13 DEF Keeps, Story, IsNew, Job
  <2>6. CASE ~surface.up  BY <1>1, <1>13, <2>1, <2>6
  <2>7. CASE surface.up /\ Job.e.seq <= surface.mark
    <3>1. surface' = surface  BY <2>1, <2>7 DEF Applied
    <3>2. ~surface.visible
      BY <1>1, <1>2, <2>3, <2>5, <2>7 DEF Shown, SurfaceOf
    <3> QED  BY <1>1, <1>13, <3>1, <3>2
  <2>8. CASE surface.up /\ ~(Job.e.seq <= surface.mark)
    <3> DEFINE rows == surface.rows \cup ({Job.e.msg} \ {0})
    <3>1. surface' = [surface EXCEPT !.rows = rows, !.mark = Job.e.seq]
      BY <1>1, <2>1, <2>8 DEF Applied, SurfaceOf
    <3>2. rows \subseteq 1..said  BY <1>1, <2>3 DEF SurfaceOf
    <3>3. surface.up /\ surface.visible => rows = MessagesOf(broker'.ring)
      BY <1>2, <2>4 DEF Shown
    <3> HIDE DEF rows
    <3>4. /\ surface' \in SurfaceOf(said) /\ surface'.rows = rows /\ surface'.mark = Job.e.seq
          /\ surface'.up = surface.up /\ surface'.visible = surface.visible
      <4> DEFINE mark == Job.e.seq
                 t == [surface EXCEPT !.rows = rows, !.mark = mark]
      <4>1. mark \in Int /\ rows \in SUBSET (1..said)  BY <2>3, <3>2
      <4>2. surface' = t  BY <3>1
      <4> HIDE DEF mark
      <4>3. /\ t.rows = rows /\ t.mark = mark
            /\ t.up = surface.up /\ t.visible = surface.visible
        BY <1>1 DEF SurfaceOf
      <4>4. t \in SurfaceOf(said)  BY <1>1, <4>1 DEF SurfaceOf
      <4> HIDE DEF t
      <4> QED  BY <4>2, <4>3, <4>4 DEF mark
    <3> QED  BY <1>13, <2>1, <3>3, <3>4
  <2> QED  BY <2>6, <2>7, <2>8
<1> QED  BY <1>6, <1>7, <1>8, <1>9, <1>10, <1>11, <1>12, <1>13, EntryMoves

-----------------------------------------------------------------------------
(* Where a command is. *)
Commanding == Once /\ Judged /\ RetryIsSafe

(* A step that neither takes a command up nor answers one. *)
Quiet ==
  /\ ran' = ran
  /\ Len(cmds') = Len(cmds)
  /\ \A c \in Commands : cmds'[c] = "retryable" => cmds[c] = "retryable"
  /\ \/ host'.queue = host.queue /\ host'.busy = host.busy
     \/ host'.queue = <<>> /\ host'.busy = 0
  /\ \/ down' = down
     \/ down # <<>> /\ down' = Tail(down)
     \/ \A i \in 1..Len(down') : down'[i].kind # "command"
  /\ Silent

LEMMA QuietStep ==
  ASSUME Typed, Commanding, Quiet
  PROVE  Commanding'
<1>1. /\ down \in Seq(FrameOf(said)) /\ host.queue \in Seq(Nat) /\ host.busy \in Nat
      /\ Len(down) \in Nat /\ Len(host.queue) \in Nat /\ ran \in Seq(Done) /\ Len(cmds) \in Nat
  <2>1. /\ down \in Seq(FrameOf(said)) /\ host.queue \in Seq(Nat) /\ host.busy \in Nat
        /\ ran \in Seq(Done) /\ cmds \in Seq(Outcomes)
    BY DEF Typed, HostOf
  <2> QED  BY <2>1
<1>2. \A c : Fresh(c) => Fresh(c)'
  BY DEF Fresh, Quiet, Silent, Commands
<1>3. PICK k \in {0, 1} :
        \A i \in 1..Len(down') : down'[i].kind = "command" =>
          i + k \in 1..Len(down) /\ down'[i] = down[i + k]
  <2>1. CASE down' = down  BY <1>1, <2>1
  <2>2. CASE down # <<>> /\ down' = Tail(down)
    <3>1. Len(down') = Len(down) - 1 /\ \A i \in 1..Len(down') : down'[i] = down[i + 1]
      BY <2>2, HeadCommand
    <3>2. \A i \in 1..Len(down') : i + 1 \in 1..Len(down)  BY <1>1, <3>1
    <3> QED  BY <3>1, <3>2
  <2>3. CASE \A i \in 1..Len(down') : down'[i].kind # "command"  BY <2>3
  <2> QED  BY <2>1, <2>2, <2>3 DEF Quiet
<1>4. /\ host'.busy # 0 => host'.busy = host.busy
      /\ Len(host'.queue) \in Nat
      /\ \A i \in 1..Len(host'.queue) : i \in 1..Len(host.queue) /\ host'.queue[i] = host.queue[i]
  <2>1. CASE host'.queue = host.queue /\ host'.busy = host.busy  BY <1>1, <2>1
  <2>2. CASE host'.queue = <<>> /\ host'.busy = 0  BY <2>2
  <2> QED  BY <2>1, <2>2 DEF Quiet
<1>5. Once'
  <2>1. ASSUME NEW i \in 1..Len(down'), down'[i].kind = "command"
        PROVE  /\ Fresh(down[i].cmd)' /\ down'[i].cmd # host'.busy
               /\ \A j \in 1..Len(host'.queue) : host'.queue[j] # down'[i].cmd
               /\ \A j \in 1..Len(down') :
                    down'[j].kind = "command" /\ down'[j].cmd = down'[i].cmd => i = j
    <3>1. i + k \in 1..Len(down) /\ down'[i] = down[i + k] /\ Sent(i + k)
      BY <1>3, <2>1 DEF Sent
    <3>2. Fresh(down[i + k].cmd) /\ Fresh(down[i].cmd)'  BY <1>2, <3>1 DEF Commanding, Once
    <3>3. down[i + k].cmd \in Commands /\ down[i + k].cmd # 0
      BY <1>1, <3>2 DEF Fresh, Commands
    <3>4. ASSUME NEW j \in 1..Len(down'), down'[j].kind = "command",
                 down'[j].cmd = down'[i].cmd
          PROVE  i = j
      <4>1. j + k \in 1..Len(down) /\ down'[j] = down[j + k] /\ Sent(j + k)
        BY <1>3, <3>4 DEF Sent
      <4>2. i + k = j + k  BY <3>1, <3>4, <4>1 DEF Commanding, Once
      <4>3. i \in Int /\ j \in Int  OBVIOUS
      <4> QED  BY <4>2, <4>3
    <3> QED  BY <1>4, <3>1, <3>2, <3>3, <3>4 DEF Commanding, Once
  <2>2. ASSUME NEW i \in 1..Len(host'.queue)
        PROVE  /\ Fresh(host.queue[i])' /\ host'.queue[i] # host'.busy
               /\ \A j \in 1..Len(host'.queue) : host'.queue[j] = host'.queue[i] => i = j
    <3>1. Fresh(host.queue[i]) /\ host'.queue[i] = host.queue[i] /\ Fresh(host.queue[i])'
      BY <1>2, <1>4 DEF Commanding, Once
    <3>2. host.queue[i] # 0  BY <1>1, <3>1 DEF Fresh, Commands
    <3> QED  BY <1>4, <3>1, <3>2 DEF Commanding, Once
  <2>3. host'.busy # 0 => Fresh(host.busy)'
    BY <1>2, <1>4 DEF Commanding, Once
  <2> QED  BY <2>1, <2>2, <2>3 DEF Once, Sent
<1>6. Judged'
  BY DEF Commanding, Judged, Quiet, Silent, Commands
<1>7. RetryIsSafe'
  BY DEF Commanding, Judged, RetryIsSafe, Quiet
<1> QED  BY <1>5, <1>6, <1>7 DEF Commanding

(* What is left of the commands on their way and in the queue when one of   *)
(* them, c, was taken away: the positions move by k and l.                  *)
Left(k, l, c) ==
  /\ \A i \in 1..Len(down') : down'[i].kind = "command" =>
       /\ i + k \in 1..Len(down) /\ down'[i] = down[i + k]
       /\ down'[i].cmd # c
  /\ \A i \in 1..Len(host'.queue) :
       /\ i + l \in 1..Len(host.queue) /\ host'.queue[i] = host.queue[i + l]
       /\ host'.queue[i] # c

LEMMA Counted ==
  ASSUME Typed
  PROVE  Len(down) \in Nat /\ Len(host.queue) \in Nat
<1>1. down \in Seq(FrameOf(said)) /\ host.queue \in Seq(Nat)  BY DEF Typed, HostOf
<1> QED  BY <1>1

LEMMA Places ==
  ASSUME Typed
  PROVE  /\ down \in Seq(FrameOf(said)) /\ host.queue \in Seq(Nat) /\ host.busy \in Nat
         /\ Len(down) \in Nat /\ Len(host.queue) \in Nat /\ Len(up) \in Nat
         /\ ran \in Seq(Done) /\ Len(ran) \in Nat /\ Len(cmds) \in Nat /\ cmds \in Seq(Outcomes)
<1>1. /\ down \in Seq(FrameOf(said)) /\ host.queue \in Seq(Nat) /\ host.busy \in Nat
      /\ ran \in Seq(Done) /\ cmds \in Seq(Outcomes) /\ up \in Seq(FrameOf(said))
  BY DEF Typed, HostOf
<1> QED  BY <1>1

LEMMA LeftAlone ==
  ASSUME Typed, Once, NEW k \in Nat, NEW l \in Nat, NEW c, Left(k, l, c),
         \A d : Fresh(d) /\ d # c => Fresh(d)',
         host'.busy \in {0, host.busy, c},
         host'.busy = c => Fresh(c)',
         host'.busy = host.busy => host.busy # c
  PROVE  Once'
<1>1. ASSUME NEW i \in 1..Len(down'), down'[i].kind = "command"
      PROVE  /\ Fresh(down[i].cmd)' /\ down'[i].cmd # host'.busy
             /\ \A j \in 1..Len(host'.queue) : host'.queue[j] # down'[i].cmd
             /\ \A j \in 1..Len(down') :
                  down'[j].kind = "command" /\ down'[j].cmd = down'[i].cmd => i = j
  <2>1. i + k \in 1..Len(down) /\ down'[i] = down[i + k] /\ Sent(i + k) /\ down'[i].cmd # c
    BY <1>1 DEF Left, Sent
  <2>2. Fresh(down[i + k].cmd)  BY <2>1 DEF Once
  <2>3. Fresh(down[i].cmd)'  BY <2>1, <2>2
  <2>4. down[i + k].cmd # 0  BY <2>2 DEF Fresh, Commands
  <2>5. down[i + k].cmd # host.busy  BY <2>1 DEF Once
  <2>6. ASSUME NEW j \in 1..Len(down'), down'[j].kind = "command", down'[j].cmd = down'[i].cmd
        PROVE  i = j
    <3>1. j + k \in 1..Len(down) /\ down'[j] = down[j + k] /\ Sent(j + k)
      BY <2>6 DEF Left, Sent
    <3>2. i + k = j + k  BY <2>1, <2>6, <3>1 DEF Once
    <3>3. i \in Int /\ j \in Int  OBVIOUS
    <3> QED  BY <3>2, <3>3
  <2>7. ASSUME NEW j \in 1..Len(host'.queue) PROVE host'.queue[j] # down'[i].cmd
    BY <2>1 DEF Left, Once
  <2> QED  BY <2>1, <2>3, <2>4, <2>5, <2>6, <2>7
<1>2. ASSUME NEW i \in 1..Len(host'.queue)
      PROVE  /\ Fresh(host.queue[i])' /\ host'.queue[i] # host'.busy
             /\ \A j \in 1..Len(host'.queue) : host'.queue[j] = host'.queue[i] => i = j
  <2>1. i + l \in 1..Len(host.queue) /\ host'.queue[i] = host.queue[i + l]
        /\ host'.queue[i] # c
    BY DEF Left
  <2>2. Fresh(host.queue[i + l]) /\ host.queue[i + l] # host.busy  BY <2>1 DEF Once
  <2>3. Fresh(host.queue[i])'  BY <2>1, <2>2
  <2>4. host.queue[i + l] # 0  BY <2>2 DEF Fresh, Commands
  <2>5. ASSUME NEW j \in 1..Len(host'.queue), host'.queue[j] = host'.queue[i] PROVE i = j
    <3>1. j + l \in 1..Len(host.queue) /\ host'.queue[j] = host.queue[j + l]
      BY DEF Left
    <3>2. i + l = j + l  BY <2>1, <2>5, <3>1 DEF Once
    <3>3. i \in Int /\ j \in Int  OBVIOUS
    <3> QED  BY <3>2, <3>3
  <2> QED  BY <2>1, <2>2, <2>3, <2>4, <2>5
<1>3. host'.busy # 0 => Fresh(host.busy)'
  <2>1. CASE host'.busy = c  BY <2>1
  <2>2. CASE host'.busy # c /\ host'.busy = host.busy /\ host.busy # 0
    BY <2>2 DEF Once
  <2> QED  BY <2>1, <2>2
<1> QED  BY <1>1, <1>2, <1>3 DEF Once, Sent

(* One command is answered: it is nowhere any more, and a result that says  *)
(* it may be tried again says so of one whose driver threw.                 *)
Answered(c, out) ==
  /\ cmds' = cmds
  /\ ran' = ran \/ ran' = Append(ran, [cmd |-> c, sure |-> out = "ok"])
  /\ \/ up' = up
     \/ /\ Len(up') = Len(up) + 1
        /\ \A i \in 1..Len(up) : up'[i] = up[i]
        /\ up'[Len(up')] = Result(c, out)

LEMMA LongerBy ==
  ASSUME NEW S, NEW s \in Seq(S), NEW x
  PROVE  /\ Len(s) \in Nat /\ Len(Append(s, x)) = Len(s) + 1
         /\ \A i \in 1..Len(s) : Append(s, x)[i] = s[i]
         /\ Append(s, x)[Len(Append(s, x))] = x
<1>1. s \in Seq(S \cup {x})  BY SeqMonotonic
<1> QED  BY <1>1, AppendProperties

LEMMA AnsweredStep ==
  ASSUME Typed, Commanding, NEW c, Fresh(c), NEW out \in {"ok", "refused", "retryable"},
         Answered(c, out), NEW k \in Nat, NEW l \in Nat, Left(k, l, c),
         host'.busy \in {0, host.busy}, host'.busy = host.busy => host.busy # c,
         host'.busy # c
  PROVE  Commanding'
<1>1. c \in Commands /\ c \in Nat /\ Len(ran) \in Nat /\ ran \in Seq(Done) /\ Len(up) \in Nat
  BY Places DEF Fresh, Commands
<1>2. /\ Len(ran') \in Nat
      /\ \A i \in 1..Len(ran') :
           \/ i \in 1..Len(ran) /\ ran'[i] = ran[i]
           \/ i = Len(ran) + 1 /\ ran'[i].cmd = c /\ (ran'[i].sure <=> out = "ok")
  <2>1. CASE ran' = ran  BY <1>1, <2>1
  <2>2. CASE ran' = Append(ran, [cmd |-> c, sure |-> out = "ok"])
    <3>1. PICK x : x = [cmd |-> c, sure |-> out = "ok"]  OBVIOUS
    <3>2. x.cmd = c /\ (x.sure <=> out = "ok")  BY <3>1
    <3>3. /\ Len(ran') = Len(ran) + 1 /\ ran'[Len(ran) + 1] = x
          /\ \A i \in 1..Len(ran) : ran'[i] = ran[i]
      BY <1>1, <2>2, <3>1, LongerBy
    <3> QED  BY <1>1, <3>2, <3>3
  <2> QED  BY <2>1, <2>2 DEF Answered
<1>3. \A i \in 1..Len(up') :
        \/ i \in 1..Len(up) /\ up'[i] = up[i]
        \/ up'[i].cmd = c /\ up'[i].out = out
  <2>1. Result(c, out).cmd = c /\ Result(c, out).out = out  BY DEF Result, Frame
  <2> HIDE DEF Result
  <2>2. CASE up' = up  BY <1>1, <2>2
  <2>3. CASE /\ Len(up') = Len(up) + 1
             /\ \A i \in 1..Len(up) : up'[i] = up[i]
             /\ up'[Len(up')] = Result(c, out)
    BY <1>1, <2>1, <2>3
  <2> QED  BY <2>2, <2>3 DEF Answered
<1>4. \A d : Fresh(d) /\ d # c => Fresh(d)'
  BY <1>2, <1>3 DEF Fresh, Answered, Commands
<1>5. Once'  BY <1>4, LeftAlone DEF Commanding
<1>6. Judged'
  <2>1. \A i \in 1..Len(ran') : ran'[i].cmd \in Commands'
    BY <1>1, <1>2 DEF Commanding, Judged, Answered, Commands
  <2>2. ASSUME NEW i \in 1..Len(up'), up'[i].kind = "result"
        PROVE  /\ up'[i].cmd \in Commands' /\ up'[i].out \in {"ok", "refused", "retryable"}
               /\ up'[i].out = "retryable" =>
                    \A j \in 1..Len(ran') : ran'[j].cmd = up'[i].cmd => ~ran'[j].sure
    <3>1. CASE i \in 1..Len(up) /\ up'[i] = up[i]
      <4>1. /\ up[i].cmd \in Commands /\ up[i].out \in {"ok", "refused", "retryable"}
            /\ up[i].out = "retryable" =>
                 \A j \in 1..Len(ran) : ran[j].cmd = up[i].cmd => ~ran[j].sure
        BY <2>2, <3>1 DEF Commanding, Judged
      <4>2. up[i].cmd # c  BY <2>2, <3>1 DEF Fresh
      <4> QED  BY <1>2, <3>1, <4>1, <4>2 DEF Answered, Commands
    <3>2. CASE up'[i].cmd = c /\ up'[i].out = out
      BY <1>1, <1>2, <3>2 DEF Fresh, Answered, Commands
    <3> QED  BY <1>3, <3>1, <3>2
  <2> QED  BY <2>1, <2>2 DEF Judged
<1>7. RetryIsSafe'
  <2>1. \A i \in 1..Len(ran') : cmds'[ran'[i].cmd] = "retryable" => ~ran'[i].sure
    BY <1>2 DEF Commanding, RetryIsSafe, Fresh, Answered
  <2>2. \A i, j \in 1..Len(ran') : ran'[i].cmd = ran'[j].cmd => i = j
    BY <1>1, <1>2 DEF Commanding, RetryIsSafe, Fresh
  <2> QED  BY <2>1, <2>2 DEF RetryIsSafe
<1> QED  BY <1>5, <1>6, <1>7 DEF Commanding

(* A result sent is the answer of its command. *)
LEMMA ResultAnswers ==
  ASSUME Typed, Commanding, NEW c, Fresh(c), NEW out \in {"ok", "refused", "retryable"},
         Sending(<<Result(c, out)>>), cmds' = cmds,
         ran' = ran \/ ran' = Append(ran, [cmd |-> c, sure |-> out = "ok"])
  PROVE  Answered(c, out)
<1>1. c \in Nat /\ said \in Nat /\ up \in Seq(FrameOf(said))
  BY Places DEF Fresh, Commands, Typed
<1>2. \/ up' = up
      \/ /\ Len(up') = Len(up) + 1
         /\ \A i \in 1..Len(up) : up'[i] = up[i]
         /\ up'[Len(up')] = Result(c, out)
  BY <1>1, SendingResult
<1> QED  BY <1>2 DEF Answered

LEMMA RouteStep ==
  ASSUME Typed, Commanding, RouteCommand
  PROVE  Commanding'
<1>0. PICK c : c = Head(down).cmd  OBVIOUS
<1>1. /\ host \in HostOf(said) /\ down # <<>> /\ Head(down).kind = "command"
      /\ down' = Tail(down) /\ cmds' = cmds /\ ran' = ran
  BY DEF RouteCommand, Typed
<1>2. /\ Len(down') = Len(down) - 1
      /\ \A i \in 1..Len(down') : down'[i] = down[i + 1]
      /\ Sent(1) /\ down[1].cmd = c
  BY <1>0, <1>1, HeadCommand DEF Sent
<1>3. /\ Fresh(c) /\ c # host.busy /\ c # 0 /\ c \in Nat
      /\ \A j \in 1..Len(host.queue) : host.queue[j] # c
      /\ \A j \in 1..Len(down) : Sent(j) /\ down[j].cmd = c => j = 1
  <2>1. /\ Fresh(down[1].cmd) /\ down[1].cmd # host.busy
        /\ \A j \in 1..Len(host.queue) : host.queue[j] # down[1].cmd
        /\ 1 \in 1..Len(down)
    BY <1>2 DEF Commanding, Once, Sent
  <2>2. \A j \in 1..Len(down) : Sent(j) /\ down[j].cmd = down[1].cmd => j = 1
    BY <1>2, <2>1 DEF Commanding, Once
  <2>3. down[1].cmd \in Nat /\ down[1].cmd # 0  BY <2>1, Places DEF Fresh, Commands
  <2>4. Fresh(c)  BY <1>2, <2>1
  <2> QED  BY <1>2, <2>1, <2>2, <2>3, <2>4
<1>4. ASSUME NEW i \in 1..Len(down')
      PROVE  /\ i + 1 \in 1..Len(down) /\ down'[i] = down[i + 1]
             /\ down'[i].kind = "command" => down'[i].cmd # c
  <2>1. i + 1 \in 1..Len(down) /\ down'[i] = down[i + 1] /\ i + 1 # 1  BY <1>2, Places
  <2> QED  BY <1>3, <2>1 DEF Sent
<1>5. CASE host' = host /\ Sending(<<Result(c, "refused")>>)
  <2>1. Answered(c, "refused")  BY <1>1, <1>3, <1>5, ResultAnswers
  <2>2. Left(1, 0, c)  BY <1>3, <1>4, <1>5, Places DEF Left
  <2>3. host'.busy = host.busy  BY <1>5
  <2> QED  BY <1>3, <2>1, <2>2, <2>3, AnsweredStep
<1>6. CASE up' = up /\ Idle /\ host' = Running(host, c)
  <2>1. host'.busy = c /\ host'.queue = host.queue /\ host.busy = 0
    BY <1>1, <1>6 DEF Running, Idle, HostOf
  <2>2. Left(1, 0, c)  BY <1>3, <1>4, <2>1, Places DEF Left
  <2>3. \A d : Fresh(d) => Fresh(d)'  BY <1>1, <1>6 DEF Fresh, Commands
  <2>4. Fresh(c)'  BY <1>1, <1>3, <1>6 DEF Fresh, Commands
  <2>5. Once'  BY <1>3, <2>1, <2>2, <2>3, <2>4, LeftAlone DEF Commanding
  <2> QED  BY <1>1, <1>6, <2>5 DEF Commanding, Judged, RetryIsSafe, Commands
<1>7. CASE up' = up /\ host' = [host EXCEPT !.queue = Append(@, c)]
  <2> DEFINE q == Append(host.queue, c)
  <2>1. /\ Len(q) = Len(host.queue) + 1
        /\ \A i \in 1..Len(host.queue) : q[i] = host.queue[i]
        /\ q[Len(host.queue) + 1] = c
        /\ \A i \in 1..Len(q) : i \in 1..Len(host.queue) \/ i = Len(host.queue) + 1
    <3>1. host.queue \in Seq(Nat) /\ Len(host.queue) \in Nat  BY Places
    <3> QED  BY <1>3, <3>1
  <2>2. host'.busy = host.busy /\ host'.queue = q  BY <1>1, <1>7 DEF HostOf
  <2> HIDE DEF q
  <2>3. \A d : Fresh(d) => Fresh(d)'  BY <1>1, <1>7 DEF Fresh, Commands
  <2>4. ASSUME NEW i \in 1..Len(down'), down'[i].kind = "command"
        PROVE  /\ Fresh(down[i].cmd)' /\ down'[i].cmd # host'.busy
               /\ \A j \in 1..Len(host'.queue) : host'.queue[j] # down'[i].cmd
               /\ \A j \in 1..Len(down') :
                    down'[j].kind = "command" /\ down'[j].cmd = down'[i].cmd => i = j
    <3>1. i + 1 \in 1..Len(down) /\ down'[i] = down[i + 1] /\ down'[i].cmd # c /\ Sent(i + 1)
      BY <1>4, <2>4 DEF Sent
    <3>2. /\ Fresh(down[i + 1].cmd) /\ down[i + 1].cmd # host.busy
          /\ \A j \in 1..Len(host.queue) : host.queue[j] # down[i + 1].cmd
      BY <3>1 DEF Commanding, Once
    <3>3. Fresh(down[i].cmd)'  BY <2>3, <3>1, <3>2
    <3>4. \A j \in 1..Len(q) : q[j] # down'[i].cmd  BY <2>1, <3>1, <3>2
    <3>5. ASSUME NEW j \in 1..Len(down'), down'[j].kind = "command",
                 down'[j].cmd = down'[i].cmd
          PROVE  i = j
      <4>1. j + 1 \in 1..Len(down) /\ down'[j] = down[j + 1] /\ Sent(j + 1)
        BY <1>4, <3>5 DEF Sent
      <4>2. i + 1 = j + 1  BY <3>1, <3>5, <4>1 DEF Commanding, Once
      <4>3. i \in Int /\ j \in Int  OBVIOUS
      <4> QED  BY <4>2, <4>3
    <3> QED  BY <2>2, <3>1, <3>2, <3>3, <3>4, <3>5
  <2>5. ASSUME NEW i \in 1..Len(host'.queue)
        PROVE  /\ Fresh(host.queue[i])' /\ host'.queue[i] # host'.busy
               /\ \A j \in 1..Len(host'.queue) : host'.queue[j] = host'.queue[i] => i = j
    <3>1. CASE i \in 1..Len(host.queue)
      <4>1. Fresh(host.queue[i]) /\ host.queue[i] # host.busy /\ host.queue[i] # c
        BY <1>3, <3>1 DEF Commanding, Once
      <4>2. q[i] = host.queue[i]  BY <2>1, <3>1
      <4>3. ASSUME NEW j \in 1..Len(q), q[j] = q[i] PROVE i = j
        BY <2>1, <3>1, <4>1, <4>2, <4>3 DEF Commanding, Once
      <4> QED  BY <2>2, <2>3, <4>1, <4>2, <4>3
    <3>2. CASE i = Len(host.queue) + 1
      <4>1. q[i] = c  BY <2>1, <3>2
      <4>2. ASSUME NEW j \in 1..Len(q), q[j] = q[i] PROVE i = j
        BY <1>3, <2>1, <3>2, <4>1, <4>2
      <4> QED  BY <1>3, <2>2, <2>3, <4>1, <4>2
    <3> QED  BY <2>1, <2>2, <3>1, <3>2
  <2>6. host'.busy # 0 => Fresh(host.busy)'
    BY <2>2, <2>3 DEF Commanding, Once
  <2>7. Once'  BY <2>4, <2>5, <2>6 DEF Once, Sent
  <2> QED  BY <1>1, <1>7, <2>7 DEF Commanding, Judged, RetryIsSafe, Commands
<1> QED  BY <1>0, <1>5, <1>6, <1>7 DEF RouteCommand

LEMMA DrainStep ==
  ASSUME Typed, Commanding, DrainCommandQueue
  PROVE  Commanding'
<1>0. PICK c : c = Head(host.queue)  OBVIOUS
<1> DEFINE q == Tail(host.queue)
<1>1. host \in HostOf(said) /\ down' = down /\ cmds' = cmds /\ ran' = ran
  BY DEF DrainCommandQueue, Typed
<1>2. CASE host' = [host EXCEPT !.driver = "started"] /\ up' = up
  <2>1. host'.queue = host.queue /\ host'.busy = host.busy  BY <1>1, <1>2 DEF HostOf
  <2>2. Quiet  BY <1>1, <1>2, <2>1 DEF Quiet, Silent
  <2> QED  BY <2>2, QuietStep
<1>3. ASSUME host.queue # <<>>
      PROVE  /\ 1 \in 1..Len(host.queue) /\ host.queue[1] = c /\ q \in Seq(Nat)
             /\ Len(q) = Len(host.queue) - 1
             /\ \A i \in 1..Len(q) : i + 1 \in 1..Len(host.queue) /\ q[i] = host.queue[i + 1]
                                     /\ i + 1 # 1
  <2>1. host.queue \in Seq(Nat) /\ Len(host.queue) \in Nat  BY Places
  <2> QED  BY <1>0, <1>3, <2>1
<1> HIDE DEF q
<1>4. ASSUME host.queue # <<>>
      PROVE  /\ Fresh(c) /\ c # host.busy /\ c # 0 /\ c \in Nat
             /\ \A i \in 1..Len(q) : q[i] # c
             /\ \A i \in 1..Len(down) : down[i].kind = "command" => down[i].cmd # c
  <2>1. Fresh(host.queue[1]) /\ host.queue[1] # host.busy
    BY <1>3, <1>4 DEF Commanding, Once
  <2>2. \A i \in 1..Len(q) : q[i] # c  BY <1>3, <1>4 DEF Commanding, Once
  <2>3. \A i \in 1..Len(down) : down[i].kind = "command" => down[i].cmd # c
    BY <1>3, <1>4 DEF Commanding, Once, Sent
  <2>4. Fresh(c) /\ c # host.busy  BY <1>3, <1>4, <2>1
  <2>5. c # 0 /\ c \in Nat  BY <2>4, Places DEF Fresh, Commands
  <2> QED  BY <2>2, <2>3, <2>4, <2>5
<1>5. ASSUME host.queue # <<>>, host'.queue = q PROVE Left(0, 1, c)
  BY <1>1, <1>3, <1>4, <1>5, Counted DEF Left
<1>6. CASE /\ host.queue # <<>> /\ Idle /\ up' = up
           /\ host' = [Running(host, c) EXCEPT !.queue = Tail(@), !.replaying = TRUE]
  <2>1. host'.queue = q /\ host'.busy = c /\ host.busy = 0
    BY <1>1, <1>6 DEF Running, Idle, HostOf, q
  <2>2. Left(0, 1, c)  BY <1>5, <1>6, <2>1
  <2>3. \A d : Fresh(d) => Fresh(d)'  BY <1>1, <1>6 DEF Fresh, Commands
  <2>4. Fresh(c)'  BY <1>1, <1>4, <1>6 DEF Fresh, Commands
  <2>5. host'.busy \in {0, host.busy, c} /\ (host'.busy = host.busy => host.busy # c)
    BY <1>4, <1>6, <2>1
  <2>6. Once
    BY DEF Commanding
  <2>7. Once'  BY <2>2, <2>3, <2>4, <2>5, <2>6, LeftAlone
  <2> QED  BY <1>1, <1>6, <2>7 DEF Commanding, Judged, RetryIsSafe, Commands
<1>7. CASE /\ host.queue # <<>> /\ host' = [host EXCEPT !.queue = Tail(@)]
           /\ Sending(<<Result(c, "refused")>>)
  <2>1. host'.queue = q /\ host'.busy = host.busy  BY <1>1, <1>7 DEF HostOf, q
  <2>2. Left(0, 1, c)  BY <1>5, <1>7, <2>1
  <2>3. Answered(c, "refused")  BY <1>1, <1>4, <1>7, ResultAnswers
  <2> QED  BY <1>4, <1>7, <2>1, <2>2, <2>3, AnsweredStep
<1> QED  BY <1>0, <1>2, <1>6, <1>7 DEF DrainCommandQueue

LEMMA RunStep ==
  ASSUME Typed, Commanding, NEW out \in Verdicts, NEW acted \in BOOLEAN,
         RunEnds(out, acted)
  PROVE  Commanding'
<1>0. PICK c : c = host.busy  OBVIOUS
<1>1. /\ host \in HostOf(said) /\ down' = down /\ cmds' = cmds /\ c # 0
      /\ ran' = ran \/ ran' = Append(ran, [cmd |-> c, sure |-> out = "ok"])
      /\ Sending(<<Result(c, out)>>)
  BY <1>0 DEF RunEnds, Typed
<1>2. host'.queue = host.queue /\ host'.busy = 0
  BY <1>1 DEF RunEnds, HostOf
<1>3. Fresh(c)  BY <1>0, <1>1 DEF Commanding, Once
<1>4. Left(0, 0, c)
  BY <1>0, <1>1, <1>2, Counted DEF Left, Commanding, Once, Sent
<1>5. Answered(c, out)  BY <1>1, <1>3, ResultAnswers DEF Verdicts
<1>6. /\ host'.busy \in {0, host.busy} /\ host'.busy # c
      /\ host'.busy = host.busy => host.busy # c
      /\ out \in {"ok", "refused", "retryable"}
  BY <1>0, <1>1, <1>2 DEF Verdicts
<1> QED  BY <1>3, <1>4, <1>5, <1>6, AnsweredStep


(* A step that leaves every command where it is. *)
LEMMA StillOnce ==
  ASSUME Once, host'.queue = host.queue, host'.busy = host.busy, down' = down,
         \A d : Fresh(d) => Fresh(d)'
  PROVE  Once'
<1>1. \A i \in 1..Len(down) : Sent(i) => Fresh(down[i].cmd)'  BY DEF Once
<1>2. \A i \in 1..Len(host.queue) : Fresh(host.queue[i])'  BY DEF Once
<1>3. host.busy # 0 => Fresh(host.busy)'  BY DEF Once
<1> QED  BY <1>1, <1>2, <1>3 DEF Once, Sent

(* The answer the broker hears is of a command that has ended. *)
LEMMA HeardStep ==
  ASSUME Typed, Commanding, CommandResult
  PROVE  Commanding' /\ cmds' \in Seq(Outcomes) /\ ran' = ran
<1> DEFINE f == up[1]
<1>1. /\ up # <<>> /\ f.kind = "result" /\ up' = Tail(up)
      /\ UNCHANGED <<host, down, ran>>
      /\ cmds' = cmds \/ cmds' = [cmds EXCEPT ![f.cmd] = f.out]
  <2>1. up # <<>>  BY DEF CommandResult, Receives
  <2>2. Head(up) = f  BY <2>1, HeadFrame
  <2> QED  BY <2>1, <2>2 DEF CommandResult, Receives
<1>2. /\ 1 \in 1..Len(up)
      /\ \A i \in 1..Len(up') : i + 1 \in 1..Len(up) /\ up'[i] = up[i + 1]
  BY <1>1, HeadFrame
<1>3. /\ f.cmd \in Commands /\ f.out \in {"ok", "refused", "retryable"}
      /\ f.out = "retryable" => \A j \in 1..Len(ran) : ran[j].cmd = f.cmd => ~ran[j].sure
      /\ ~Fresh(f.cmd)
  BY <1>1, <1>2 DEF Commanding, Judged, Fresh
<1>4. cmds \in Seq(Outcomes) /\ Len(cmds) \in Nat  BY Places
<1> HIDE DEF f
<1>5. /\ cmds' \in Seq(Outcomes) /\ Len(cmds') = Len(cmds)
      /\ \A d \in Commands : cmds'[d] = cmds[d] \/ (d = f.cmd /\ cmds'[d] = f.out)
  <2>1. CASE cmds' = cmds  BY <1>4, <2>1
  <2>2. CASE cmds' = [cmds EXCEPT ![f.cmd] = f.out]
    <3>1. f.out \in Outcomes  BY <1>3 DEF Outcomes
    <3> QED  BY <1>3, <1>4, <2>2, <3>1 DEF Commands
  <2> QED  BY <1>1, <2>1, <2>2
<1>6. ASSUME NEW d, Fresh(d) PROVE Fresh(d)'
  <2>1. d # f.cmd /\ d \in Commands /\ cmds[d] # "retryable"  BY <1>3, <1>6 DEF Fresh
  <2>2. cmds'[d] # "retryable"  BY <1>5, <2>1
  <2> QED  BY <1>1, <1>2, <1>5, <1>6, <2>1, <2>2 DEF Fresh, Commands
<1>7. Once'
  <2>1. Once  BY DEF Commanding
  <2>2. host'.queue = host.queue /\ host'.busy = host.busy /\ down' = down  BY <1>1
  <2> QED  BY <1>6, <2>1, <2>2, StillOnce
<1>8. Judged'
  BY <1>1, <1>2, <1>5 DEF Commanding, Judged, Commands
<1>9. RetryIsSafe'
  <2>1. ASSUME NEW i \in 1..Len(ran), cmds'[ran[i].cmd] = "retryable"
        PROVE  ~ran[i].sure
    <3>1. ran[i].cmd \in Commands /\ (cmds[ran[i].cmd] = "retryable" => ~ran[i].sure)
      BY DEF Commanding, Judged, RetryIsSafe
    <3> QED  BY <1>3, <1>5, <2>1, <3>1
  <2> QED  BY <1>1, <2>1 DEF Commanding, RetryIsSafe
<1> QED  BY <1>1, <1>5, <1>7, <1>8, <1>9 DEF Commanding

(* A command given is a new one. *)
LEMMA GivenStep ==
  ASSUME Typed, Commanding, SendCommand
  PROVE  Commanding' /\ cmds' \in Seq(Outcomes) /\ ran' = ran
<1>1. PICK n : n = Len(cmds) + 1  OBVIOUS
<1>2. cmds \in Seq(Outcomes) /\ Len(cmds) \in Nat /\ n \in Nat /\ n # 0  BY <1>1, Places
<1>3. /\ host' = host /\ up' = up /\ ran' = ran
      /\ \E out \in Outcomes : /\ cmds' = Append(cmds, out)
                               /\ down' = down \/ out = "inflight"
      /\ down' = down \/ down' = Append(down, Frame("command", NoEvent, n, ""))
  BY <1>1 DEF SendCommand, Outcomes
<1>4. PICK out \in Outcomes : /\ cmds' = Append(cmds, out)
                              /\ down' = down \/ out = "inflight"
  BY <1>3
<1>5. /\ cmds' \in Seq(Outcomes) /\ Len(cmds') = n /\ cmds'[n] = out
      /\ \A d \in Commands : cmds'[d] = cmds[d]
  BY <1>1, <1>2, <1>4 DEF Commands
<1>6. /\ \A d \in Commands : d \in Commands' /\ d # n /\ d # 0
      /\ n \in Commands'
  BY <1>1, <1>2, <1>5 DEF Commands
<1>7. ASSUME NEW d, Fresh(d) PROVE Fresh(d)' /\ d # n
  BY <1>3, <1>5, <1>6, <1>7 DEF Fresh
<1>8. Once'
  <2>0. Once  BY DEF Commanding
  <2>1. CASE down' = down
    <3>1. host'.queue = host.queue /\ host'.busy = host.busy  BY <1>3
    <3> QED  BY <1>7, <2>0, <2>1, <3>1, StillOnce
  <2>2. CASE down' # down
    <3>1. Fresh(n)'
      <4>1. cmds'[n] # "retryable"  BY <1>4, <1>5, <2>2
      <4>2. \A i \in 1..Len(ran) : ran[i].cmd # n
        BY <1>6 DEF Commanding, Judged
      <4>3. \A i \in 1..Len(up) : up[i].kind = "result" => up[i].cmd # n
        BY <1>6 DEF Commanding, Judged
      <4> QED  BY <1>3, <1>6, <4>1, <4>2, <4>3 DEF Fresh
    <3>2. /\ Len(down) \in Nat /\ Len(down') = Len(down) + 1
          /\ \A i \in 1..Len(down) : down'[i] = down[i]
          /\ down'[Len(down')].cmd = n
      <4>1. PICK x : x = Frame("command", NoEvent, n, "")  OBVIOUS
      <4>2. down' = Append(down, x)  BY <1>3, <2>2, <4>1
      <4>3. x.cmd = n  BY <4>1 DEF Frame
      <4>4. down \in Seq(FrameOf(said))  BY Places
      <4>5. /\ Len(down) \in Nat /\ Len(Append(down, x)) = Len(down) + 1
            /\ \A i \in 1..Len(down) : Append(down, x)[i] = down[i]
            /\ Append(down, x)[Len(Append(down, x))] = x
        BY <4>4, LongerBy
      <4> QED  BY <4>2, <4>3, <4>5
    <3>3. \A i \in 1..Len(down') : i \in 1..Len(down) \/ i = Len(down')  BY <3>2
    <3>4. ASSUME NEW i \in 1..Len(down'), down'[i].kind = "command"
          PROVE  /\ Fresh(down[i].cmd)' /\ down'[i].cmd # host'.busy
                 /\ \A j \in 1..Len(host'.queue) : host'.queue[j] # down'[i].cmd
                 /\ \A j \in 1..Len(down') :
                      down'[j].kind = "command" /\ down'[j].cmd = down'[i].cmd => i = j
      <4>1. ASSUME NEW j \in 1..Len(down), down[j].kind = "command"
            PROVE  /\ Fresh(down[j].cmd) /\ down[j].cmd # n /\ down[j].cmd # host.busy
                   /\ \A k \in 1..Len(host.queue) : host.queue[k] # down[j].cmd
        <5>1. Sent(j)  BY <4>1 DEF Sent
        <5> QED  BY <1>7, <2>0, <5>1 DEF Once
      <4>2. CASE i \in 1..Len(down)
        <5>1. down'[i] = down[i] /\ down[i].kind = "command"  BY <3>2, <3>4, <4>2
        <5>2. Fresh(down[i].cmd)'  BY <1>7, <4>1, <4>2, <5>1
        <5>3. ASSUME NEW j \in 1..Len(down'), down'[j].kind = "command",
                     down'[j].cmd = down'[i].cmd
              PROVE  i = j
          <6>1. j \in 1..Len(down)  BY <3>2, <3>3, <4>1, <4>2, <5>1, <5>3
          <6> QED  BY <2>0, <3>2, <4>2, <5>1, <5>3, <6>1 DEF Once, Sent
        <5> QED  BY <1>3, <4>1, <4>2, <5>1, <5>2, <5>3
      <4>3. CASE i = Len(down')
        <5>1. down'[i].cmd = n  BY <3>2, <4>3
        <5>2. Fresh(down[i].cmd)'  BY <3>1, <5>1
        <5>3. n # host.busy
          <6>1. host.busy # 0 => Fresh(host.busy)  BY <2>0 DEF Once
          <6> QED  BY <1>2, <1>7, <6>1
        <5>4. \A j \in 1..Len(host.queue) : host.queue[j] # n
          BY <1>7, <2>0 DEF Once
        <5>5. \A j \in 1..Len(down') :
                down'[j].kind = "command" /\ down'[j].cmd = n => i = j
          BY <3>2, <3>3, <4>1, <4>3
        <5> QED  BY <1>3, <5>1, <5>2, <5>3, <5>4, <5>5
      <4> QED  BY <3>3, <4>2, <4>3
    <3>5. ASSUME NEW i \in 1..Len(host'.queue)
          PROVE  /\ Fresh(host.queue[i])' /\ host'.queue[i] # host'.busy
                 /\ \A j \in 1..Len(host'.queue) : host'.queue[j] = host'.queue[i] => i = j
      BY <1>3, <1>7, <2>0 DEF Once
    <3>6. host'.busy # 0 => Fresh(host.busy)'  BY <1>3, <1>7, <2>0 DEF Once
    <3> QED  BY <3>4, <3>5, <3>6 DEF Once, Sent
  <2> QED  BY <2>1, <2>2
<1>9. Judged'
  BY <1>3, <1>6 DEF Commanding, Judged
<1>10. RetryIsSafe'
  BY <1>3, <1>5 DEF Commanding, Judged, RetryIsSafe
<1> QED  BY <1>3, <1>5, <1>8, <1>9, <1>10 DEF Commanding


(* Every other step leaves the commands where they are, or loses them. *)
LEMMA CommandsRest ==
  ASSUME Typed, Closed, [Next]_vars
  PROVE  \/ Quiet /\ cmds' \in Seq(Outcomes)
         \/ RouteCommand \/ DrainCommandQueue \/ CommandResult \/ SendCommand
         \/ \E out \in Verdicts, acted \in BOOLEAN : RunEnds(out, acted)
<1>1. /\ cmds \in Seq(Outcomes) /\ Len(cmds) \in Nat /\ host.queue \in Seq(Nat)
  BY Places
<1>2. ASSUME cmds' = cmds, ran' = ran, Silent,
             \/ host'.queue = host.queue /\ host'.busy = host.busy
             \/ host'.queue = <<>> /\ host'.busy = 0,
             \/ down' = down
             \/ down # <<>> /\ down' = Tail(down)
             \/ \A i \in 1..Len(down') : down'[i].kind # "command"
      PROVE  Quiet /\ cmds' \in Seq(Outcomes)
  BY <1>1, <1>2 DEF Quiet
<1>3. CASE HandleHelloAck \/ DriverStarts \/ Say
           \/ \E i \in 1..Len(host.fills), k \in 0..said : FillEnds(i, k)
  <2>1. Emits  BY <1>3, AckEmits, StartEmits, SayEmits, FillEmits
  <2>2. Silent /\ host'.queue = host.queue /\ host'.busy = host.busy
    BY <2>1 DEF Emits, Same
  <2>3. cmds' = cmds /\ ran' = ran /\ (down' = down \/ (down # <<>> /\ down' = Tail(down)))
    BY <1>3 DEF HandleHelloAck, DriverStarts, Say, FillEnds
  <2> QED  BY <1>2, <2>2, <2>3
<1>4. CASE \/ SocketDrops \/ HostDies \/ Terminates \/ HandleHostEvent
           \/ BindingRefused \/ CompletionFails
  <2>1. Ended /\ said' = said  BY <1>4, Ends
  <2>2. Silent /\ host'.queue = host.queue /\ host'.busy = host.busy
        /\ (down' = down \/ down' = <<>>)
    BY <2>1, HostEnds DEF Ended
  <2>3. cmds' = cmds /\ ran' = ran
    BY <1>4 DEF SocketDrops, HostDies, Terminates, HandleHostEvent, BindingRefused,
                CompletionFails
  <2> QED  BY <1>2, <2>2, <2>3
<1>5. CASE Restart
  <2>1. Ended /\ said' = said  BY <1>5, Ends
  <2>2. Silent /\ host'.queue = host.queue /\ host'.busy = host.busy
        /\ (down' = down \/ down' = <<>>)
    BY <2>1, HostEnds DEF Ended
  <2>3. ran' = ran /\ cmds' = [c \in Commands |-> IF cmds[c] = "inflight" THEN "lost" ELSE cmds[c]]
    BY <1>5 DEF Restart
  <2>4. \A c \in 1..Len(cmds) : (IF cmds[c] = "inflight" THEN "lost" ELSE cmds[c]) \in Outcomes
    BY <1>1 DEF Outcomes
  <2>5. cmds' \in Seq(Outcomes) /\ Len(cmds') = Len(cmds)
    BY <1>1, <2>3, <2>4 DEF Commands
  <2>6. \A c \in Commands : cmds'[c] = "retryable" => cmds[c] = "retryable"
    BY <2>3
  <2>7. down' = <<>> => \A i \in 1..Len(down') : down'[i].kind # "command"  OBVIOUS
  <2>8. ran' = ran /\ Len(cmds') = Len(cmds)  BY <2>3, <2>5
  <2> QED  BY <2>2, <2>5, <2>6, <2>7, <2>8 DEF Quiet
<1>6. CASE \E c \in Commands : CommandTimesOut(c)
  <2>1. PICK c \in Commands : CommandTimesOut(c)  BY <1>6
  <2>2. UNCHANGED <<host, up, down, ran>> /\ cmds' = [cmds EXCEPT ![c] = "timeout"]
    BY <2>1 DEF CommandTimesOut, TimedOut
  <2>3. cmds' \in Seq(Outcomes) /\ Len(cmds') = Len(cmds)
    BY <1>1, <2>2 DEF Outcomes, Commands
  <2>4. \A d \in Commands : cmds'[d] = "retryable" => cmds[d] = "retryable"
    BY <1>1, <2>2 DEF Commands
  <2> QED  BY <2>2, <2>3, <2>4 DEF Quiet, Silent
<1>7. CASE \E conv \in Conversations : Spawn(conv)
  <2>1. PICK conv \in Conversations : Spawn(conv)  BY <1>7
  <2>2. Silent  BY <2>1, HostSpawns
  <2>3. cmds' = cmds /\ ran' = ran /\ down' = down /\ host'.queue = <<>> /\ host'.busy = 0
    BY <2>1 DEF Spawn, NewHost
  <2> QED  BY <1>2, <2>2, <2>3
<1>8. CASE Connect
  <2>1. /\ Silent /\ host'.queue = host.queue /\ host'.busy = host.busy
        /\ \A i \in 1..Len(down') : down'[i].kind # "command"
    <3>1. CASE down' # <<>>  BY <1>8, <3>1, HostConnects
    <3>2. CASE down' = <<>>  BY <1>8, <3>2, HostConnects
    <3> QED  BY <3>1, <3>2
  <2>2. cmds' = cmds /\ ran' = ran  BY <1>8 DEF Connect
  <2> QED  BY <1>2, <2>1, <2>2
<1>9. CASE HostEvent
  <2>1. Silent  BY <1>9, HostHeard
  <2>2. UNCHANGED <<cmds, ran, down, host>>  BY <1>9 DEF HostEvent
  <2> QED  BY <1>2, <2>1, <2>2
<1>10. CASE \/ BindingCommits \/ BindingReturns \/ LaunchCompletes \/ HostGone \/ SurfaceStep
            \/ UNCHANGED vars
  <2>1. Silent  BY <1>10, HostRests
  <2>2. UNCHANGED <<cmds, ran, down, host>>
    BY <1>10 DEF BindingCommits, BindingReturns, LaunchCompletes, HostGone, SurfaceStep,
                 Subscribe, SetVisibility, BrowserDrops, vars
  <2> QED  BY <1>2, <2>1, <2>2
<1> QED
  BY <1>3, <1>4, <1>5, <1>6, <1>7, <1>8, <1>9, <1>10
     DEF Next, Step, HostStep, BrokerStep

LEMMA CommandingStep ==
  ASSUME Typed, Closed, Commanding, [Next]_vars
  PROVE  Commanding' /\ cmds' \in Seq(Outcomes) /\ ran' \in Seq(Done)
<1>1. cmds \in Seq(Outcomes) /\ ran \in Seq(Done) /\ host.busy \in Nat  BY Places
<1>2. CASE Quiet /\ cmds' \in Seq(Outcomes)
  BY <1>1, <1>2, QuietStep DEF Quiet
<1>3. CASE RouteCommand
  <2>1. cmds' = cmds /\ ran' = ran  BY <1>3 DEF RouteCommand
  <2> QED  BY <1>1, <1>3, <2>1, RouteStep
<1>4. CASE DrainCommandQueue
  <2>1. cmds' = cmds /\ ran' = ran  BY <1>4 DEF DrainCommandQueue
  <2> QED  BY <1>1, <1>4, <2>1, DrainStep
<1>5. CASE CommandResult  BY <1>1, <1>5, HeardStep
<1>6. CASE SendCommand  BY <1>1, <1>6, GivenStep
<1>7. CASE \E out \in Verdicts, acted \in BOOLEAN : RunEnds(out, acted)
  <2>1. PICK out \in Verdicts, acted \in BOOLEAN : RunEnds(out, acted)  BY <1>7
  <2>2. cmds' = cmds /\ (ran' = ran \/ ran' = Append(ran, [cmd |-> host.busy, sure |-> out = "ok"]))
    BY <2>1 DEF RunEnds
  <2>3. ran' \in Seq(Done)
    <3>1. [cmd |-> host.busy, sure |-> out = "ok"] \in Done  BY <1>1 DEF Done
    <3> QED  BY <1>1, <2>2, <3>1
  <2> QED  BY <1>1, <2>1, <2>2, <2>3, RunStep
<1> QED  BY <1>2, <1>3, <1>4, <1>5, <1>6, <1>7, CommandsRest

-----------------------------------------------------------------------------
(* The inductive invariant. *)
LEMMA InitIInv == Init => IInv
<1> SUFFICES ASSUME Init PROVE IInv  OBVIOUS
<1>1. bound \in {0, 1} /\ said \in Nat /\ said \in 0..bound  BY DEF Init
<1>2. host \in HostOf(said)
  BY <1>1, NewHostType DEF Init, Conversations
<1>3. broker \in EntryOf(said)
  BY <1>1 DEF Init, NewEntry, EntryOf, Connection, NoConn
<1>4. surface \in SurfaceOf(said)  BY <1>1 DEF Init, SurfaceOf
<1>5. up = <<>> /\ down = <<>> /\ cmds = <<>> /\ ran = <<>>  BY DEF Init
<1>6. Typed  BY <1>1, <1>2, <1>3, <1>4, <1>5 DEF Typed
<1>7. /\ host.spawn = 1 /\ host.alive = TRUE /\ host.link = "down"
      /\ host.queue = <<>> /\ host.busy = 0
  BY DEF Init, NewHost
<1>8. /\ broker.spawn = 0 /\ broker.host = NoConn /\ broker.tail = <<>> /\ broker.ring = <<>>
      /\ broker.auth = 0 /\ broker.kept = 0
  BY DEF Init, NewEntry
<1>9. Closed  BY <1>5, <1>7 DEF Closed
<1>10. Connected  BY <1>1, <1>7, <1>8 DEF Connected, Awaiting
<1>11. Story  BY <1>8 DEF Story, RingOfOneSpawn, Awaiting
<1>12. Shown  BY DEF Init, Shown
<1>13. Once  BY <1>5, <1>7 DEF Once, Sent
<1>14. Judged /\ RetryIsSafe  BY <1>5 DEF Judged, RetryIsSafe
<1> QED  BY <1>6, <1>9, <1>10, <1>11, <1>12, <1>13, <1>14 DEF IInv

LEMMA StepIInv == IInv /\ [Next]_vars => IInv'
<1> SUFFICES ASSUME IInv, [Next]_vars PROVE IInv'  OBVIOUS
<1>1. Typed /\ Closed /\ Connected /\ Story /\ Shown /\ Commanding
  BY DEF IInv, Commanding
<1>2. HostTyped  BY <1>1, HostMoves
<1>3. said' \in Nat
  <2>1. said' = said \/ said' = said + 1
    BY DEF vars, Next, Step, HandleHostEvent, HostStep, BrokerStep, SurfaceStep,
       HandleHelloAck, DriverStarts, FillEnds, RouteCommand, DrainCommandQueue, RunEnds,
       Connect, HostEvent, CommandResult, BindingCommits, BindingRefused, BindingReturns,
       LaunchCompletes, CompletionFails, Terminates, HostGone, Subscribe, SetVisibility,
       BrowserDrops, Spawn, Say, SocketDrops, HostDies, SendCommand, CommandTimesOut, Restart
  <2> QED  BY <1>1, <2>1 DEF Typed
<1>4. broker' \in EntryOf(said') /\ bound' \in 0..2  BY <1>1, EntryType
<1>5. surface' \in SurfaceOf(said') /\ Shown'  BY <1>1, ShownStep
<1>6. Commanding' /\ cmds' \in Seq(Outcomes) /\ ran' \in Seq(Done)
  BY <1>1, CommandingStep
<1>7. Typed'  BY <1>2, <1>3, <1>4, <1>5, <1>6 DEF Typed, HostTyped
<1>8. Connected'  BY <1>1, ConnectedStep
<1>9. Story'  BY <1>1, StoryStep
<1> QED  BY <1>2, <1>5, <1>6, <1>7, <1>8, <1>9 DEF IInv, Commanding, HostTyped

(* The strengthening holds in every reachable state. *)
THEOREM Invariance == Spec => []IInv
BY InitIInv, StepIInv, PTL DEF Spec

-----------------------------------------------------------------------------
(* Results. *)

(* The broker's ring holds the events of one host process in order, whatever *)
(* the broker waited for while a newer process said hello.                   *)
THEOREM RingIsOneStory == Spec => []RingOfOneSpawn
<1>1. IInv => RingOfOneSpawn  BY DEF IInv, Story
<1> QED  BY <1>1, Invariance, PTL

(* A surface that is shown has exactly the ring's messages on it, whatever it *)
(* missed while it was hidden, cut off or showing another process.            *)
THEOREM SurfaceShowsRing == Spec => []VisibleShowsRing
<1>1. IInv => VisibleShowsRing  BY DEF IInv, Shown, VisibleShowsRing
<1> QED  BY <1>1, Invariance, PTL

(* A command the caller may try again was not carried out, unless its driver *)
(* itself threw after it had acted, and none is carried out twice, across    *)
(* every loss, restart and queue.                                            *)
THEOREM RetriesAreSafe == Spec => []RetryIsSafe
<1>1. IInv => RetryIsSafe  BY DEF IInv
<1> QED  BY <1>1, Invariance, PTL

(* Every variable keeps its type, nothing is on a closed socket, and a       *)
(* connection is trusted for no conversation but the bound one.              *)
THEOREM TypeCorrect == Spec => []TypeOK
<1>1. IInv => TypeOK
  <2> SUFFICES ASSUME IInv PROVE TypeOK  OBVIOUS
  <2>1. /\ said \in Nat /\ host \in HostOf(said) /\ surface \in SurfaceOf(said)
        /\ bound \in 0..2 /\ cmds \in Seq(Outcomes)
    BY DEF IInv, Typed
  <2>2. /\ host.link \in {"down", "hello", "acked"} /\ host.driver \in Drivers
        /\ surface.rows \subseteq 1..said
    BY <2>1 DEF HostOf, SurfaceOf
  <2>3. \A c \in Commands : cmds[c] \in Outcomes  BY <2>1 DEF Commands
  <2>4. bound \in {0} \cup Conversations  BY <2>1 DEF Conversations
  <2>5. /\ host.link = "down" => up = <<>> /\ down = <<>>
        /\ broker.host # NoConn => broker.host.spawn = broker.spawn
        /\ broker.auth \in {0, bound} /\ broker.kept \in {0, bound}
    BY DEF IInv, Closed, Connected
  <2> QED  BY <2>1, <2>2, <2>3, <2>4, <2>5 DEF TypeOK, Drivers
<1> QED  BY <1>1, Invariance, PTL
=============================================================================
