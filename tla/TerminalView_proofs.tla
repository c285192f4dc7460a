------------------------- MODULE TerminalView_proofs --------------------------
(* The screens of TerminalView: what every surface shows is the session's    *)
(* screen up to the point it has read.  A step appends frames to what is on  *)
(* its way to the browser (Grows), takes the first away (Turns), or cuts or  *)
(* forgets them (Shortens), and each part of the invariant is carried over   *)
(* each of the three.  Then the pairing of requests with answers, and of     *)
(* channels with surfaces.                                                   *)
EXTENDS TerminalViewBase_proofs

-----------------------------------------------------------------------------
(* The holder's link.                                                        *)
LEMMA ToldAre ==
  ASSUME Sound(runtime)
  PROVE  \A k : k \in ToldChunks <=>
            k # None /\ (k \in runtime.screen \/ \E i \in 1..Len(runtime.inbox) : runtime.inbox[i] = k)
<1>1. DOMAIN runtime.inbox = 1..Len(runtime.inbox)
  BY DEF Sound, Runtime
<1> QED
  BY <1>1 DEF ToldChunks, ToSet

LEMMA ToldSame ==
  ASSUME runtime'.screen = runtime.screen, runtime'.inbox = runtime.inbox
  PROVE  ToldChunks' = ToldChunks
BY DEF ToldChunks

LEMMA ToldAreNext ==
  ASSUME Typed'
  PROVE  \A k : k \in ToldChunks' <=>
            k # None /\ (k \in runtime'.screen \/ \E i \in 1..Len(runtime'.inbox) : runtime'.inbox[i] = k)
<1>1. DOMAIN runtime'.inbox = 1..Len(runtime'.inbox)
  BY DEF Typed, Sound, Runtime
<1> QED
  BY <1>1 DEF ToldChunks, ToSet

LEMMA ToldParse ==
  ASSUME Typed, Typed', runtime.inbox # <<>>, runtime'.inbox = Tail(runtime.inbox),
         runtime'.screen = runtime.screen \cup ({Head(runtime.inbox)} \ {None})
  PROVE  ToldChunks' = ToldChunks
<1> DEFINE q == runtime.inbox
<1>1. q \in Seq(Nat)
  BY DEF Typed, Sound, Runtime
<1>2. /\ Head(q) = q[1] /\ 1 \in 1..Len(q)
      /\ \A i \in 1..Len(Tail(q)) : i + 1 \in 1..Len(q) /\ Tail(q)[i] = q[i + 1]
      /\ \A i \in 1..Len(q) : i = 1 \/ \E k \in 1..Len(Tail(q)) : i = k + 1 /\ q[i] = Tail(q)[k]
  BY <1>1, TailAt
<1> HIDE DEF q
<1>3. runtime'.inbox = Tail(q) /\ runtime'.screen = runtime.screen \cup ({Head(q)} \ {None})
  BY DEF q
<1> DEFINE t == Tail(q)
<1> HIDE DEF t
<1>4. ASSUME NEW k
      PROVE  (\E i \in 1..Len(q) : q[i] = k) <=> (k = q[1] \/ \E i \in 1..Len(t) : t[i] = k)
  BY <1>2 DEF t
<1>5. ASSUME NEW k PROVE k \in ToldChunks' <=> k \in ToldChunks
  <2>1. k \in ToldChunks <=> k # None /\ (k \in runtime.screen \/ \E i \in 1..Len(q) : q[i] = k)
    BY ToldAre DEF Typed, q
  <2>2. k \in ToldChunks' <=> k # None /\ (k \in runtime'.screen \/ \E i \in 1..Len(t) : t[i] = k)
    BY <1>3, ToldAreNext DEF t
  <2> QED
    BY <1>2, <1>3, <1>4, <2>1, <2>2
<1> QED
  BY <1>5

LEMMA ToldReceive ==
  ASSUME Typed, Typed', NEW k \in Nat, k # None, runtime'.inbox = Append(runtime.inbox, k),
         runtime'.screen = runtime.screen
  PROVE  ToldChunks' = ToldChunks \cup {k}
<1> DEFINE q == runtime.inbox
           t == Append(q, k)
<1>1. q \in Seq(Nat)
  BY DEF Typed, Sound, Runtime
<1> HIDE DEF q
<1>2. Len(t) = Len(q) + 1 /\ Len(q) \in Nat /\ t[Len(q) + 1] = k /\ \A i \in 1..Len(q) : t[i] = q[i]
  BY <1>1
<1>3. runtime'.inbox = t
  BY DEF q
<1> HIDE DEF t
<1>4. ASSUME NEW x
      PROVE  (\E i \in 1..Len(t) : t[i] = x) <=> (x = k \/ \E i \in 1..Len(q) : q[i] = x)
  <2>1. \A i \in 1..Len(t) : i = Len(q) + 1 \/ i \in 1..Len(q)
    BY <1>2
  <2>2. Len(q) + 1 \in 1..Len(t) /\ \A i \in 1..Len(q) : i \in 1..Len(t)
    BY <1>2
  <2> QED
    BY <1>2, <2>1, <2>2
<1>5. ASSUME NEW x PROVE x \in ToldChunks' <=> x \in ToldChunks \/ x = k
  <2>1. x \in ToldChunks <=> x # None /\ (x \in runtime.screen \/ \E i \in 1..Len(q) : q[i] = x)
    BY ToldAre DEF Typed, q
  <2>2. x \in ToldChunks' <=> x # None /\ (x \in runtime'.screen \/ \E i \in 1..Len(t) : t[i] = x)
    BY <1>3, ToldAreNext
  <2> QED
    BY <1>4, <2>1, <2>2
<1> QED
  BY <1>5

LEMMA ToldAttach ==
  ASSUME Typed, Typed', runtime.inbox = <<>>, runtime'.inbox = <<None>>, runtime'.screen = runtime.screen
  PROVE  ToldChunks' = ToldChunks
<1>1. ASSUME NEW k PROVE k \in ToldChunks' <=> k \in ToldChunks
  <2>1. k \in ToldChunks <=> k # None /\ k \in runtime.screen
    <3>1. Len(runtime.inbox) = 0
      OBVIOUS
    <3> QED
      BY <3>1, ToldAre DEF Typed
  <2>2. k \in ToldChunks' <=> k # None /\ k \in runtime'.screen
    <3>1. Len(<<None>>) = 1 /\ <<None>>[1] = None
      OBVIOUS
    <3> QED
      BY <3>1, ToldAreNext
  <2> QED
    BY <2>1, <2>2
<1> QED
  BY <1>1

(* What of the link a step of the others leaves alone. *)
LEMMA LinkedSame ==
  ASSUME Linked, ToldChunks' = ToldChunks, holder' = holder,
         runtime'.screen = runtime.screen, runtime'.offset = runtime.offset, runtime'.inbox = runtime.inbox,
         runtime'.life = runtime.life, link'.state = link.state, link'.out = link.out, link'.slot = link.slot,
         runtime.life = "retired" => DOMAIN runtime'.subs \subseteq Channels
  PROVE  Linked'
<1>1. Drained(runtime)' = Drained(runtime) /\ Over' = Over
  BY DEF Drained, Over
<1> QED
  BY <1>1 DEF Linked, Channels

LEMMA LinkedQuiet ==
  ASSUME Typed, Typed', Linked, Quiet
  PROVE  Linked'
<1>1. /\ link \in Link /\ holder \in Holder /\ runtime \in Runtime /\ holder.emitted \in Nat /\ runtime.offset \in Nat
      /\ link.out \in Seq(Nat) /\ Len(link.out) \in Nat
  <2>1. link \in Link /\ holder \in Holder /\ runtime \in Runtime
    BY DEF Typed, Sound
  <2>2. link.out \in Seq(Nat) /\ holder.emitted \in Nat /\ runtime.offset \in Nat
    BY <2>1 DEF Link, Holder, Runtime
  <2> QED
    BY <2>1, <2>2
<1>2. /\ runtime'.subs = runtime.subs /\ runtime'.life = runtime.life /\ runtime'.screen = runtime.screen
      /\ Channels' = Channels /\ Over' = Over
  BY QuietIs DEF Channels, Over
<1>3. CASE Emit
  <2>1. /\ ~holder.exited /\ runtime' = runtime /\ holder'.emitted = holder.emitted + 1
        /\ holder'.exited = holder.exited /\ holder'.gone = holder.gone
        /\ link' = IF link.state \in {"attaching", "up"} THEN [link EXCEPT !.out = Append(@, holder.emitted + 1)] ELSE link
    BY <1>1, <1>3 DEF Emit, Holder
  <2>2. ~holder.gone /\ runtime.life = "running" /\ ~Over
    BY <2>1 DEF Linked, Over
  <2>3. ToldChunks' = ToldChunks
    BY <2>1, ToldSame
  <2>4. CASE link.state \in {"attaching", "up"}
    <3> DEFINE x == link.out
               k == holder.emitted + 1
    <3>1. x \in Seq(Nat) /\ k \in Nat /\ Len(x) \in Nat /\ Len(x) = holder.emitted - runtime.offset
          /\ \A i \in 1..Len(x) : x[i] = runtime.offset + i
      BY <1>1, <2>4 DEF Linked
    <3>2. link'.out = Append(x, k) /\ link'.state = link.state
      BY <1>1, <2>1, <2>4 DEF Link
    <3> HIDE DEF x, k
    <3>3. Len(Append(x, k)) = Len(x) + 1 /\ Append(x, k)[Len(x) + 1] = k /\ \A i \in 1..Len(x) : Append(x, k)[i] = x[i]
      BY <3>1
    <3> DEFINE y == Append(x, k)
    <3> HIDE DEF y
    <3>4. Len(y) = holder'.emitted - runtime'.offset
      BY <1>1, <2>1, <3>1, <3>3 DEF y, k
    <3>5. \A i \in 1..Len(y) : y[i] = runtime'.offset + i
      <4>1. \A i \in 1..Len(y) : i = Len(x) + 1 \/ i \in 1..Len(x)
        BY <3>1, <3>3 DEF y
      <4>2. k = runtime.offset + Len(x) + 1
        BY <1>1, <3>1 DEF k
      <4> QED
        BY <1>1, <2>1, <3>1, <3>3, <4>1, <4>2 DEF y
    <3>6. runtime'.offset <= holder'.emitted
      BY <1>1, <2>1 DEF Linked
    <3> QED
      BY <1>2, <2>1, <2>2, <2>3, <2>4, <3>2, <3>4, <3>5, <3>6 DEF Linked, y
  <2>5. CASE link.state \notin {"attaching", "up"}
    <3>1. runtime'.offset <= holder'.emitted /\ link' = link
      BY <1>1, <2>1, <2>5 DEF Linked
    <3> QED
      BY <1>2, <2>1, <2>2, <2>3, <2>5, <3>1 DEF Linked
  <2> QED
    BY <2>4, <2>5
<1>4. CASE ChildExits \/ HolderEnds
  <2>1. /\ runtime' = runtime /\ link' = link /\ holder'.emitted = holder.emitted
        /\ holder'.exited /\ (runtime'.life # "running" => runtime.life # "running")
    BY <1>1, <1>4 DEF ChildExits, HolderEnds, Holder
  <2>2. ToldChunks' = ToldChunks
    BY <2>1, ToldSame
  <2> QED
    BY <1>2, <2>1, <2>2 DEF Linked, Drained
<1>5. CASE HolderResizes
  <2>1. /\ runtime' = runtime /\ link'.state = link.state /\ link'.out = link.out /\ link'.slot = link.slot
        /\ holder'.emitted = holder.emitted /\ holder'.exited = holder.exited /\ holder'.gone = holder.gone
    BY <1>1, <1>5 DEF HolderResizes, Holder, Link
  <2>2. ToldChunks' = ToldChunks
    BY <2>1, ToldSame
  <2> QED
    BY <1>2, <2>1, <2>2 DEF Linked, Drained
<1>6. CASE LinkDrops \/ LinkEnds
  <2>1. runtime' = runtime /\ holder' = holder /\ link' = Recovering /\ link.state \in {"attaching", "up"}
    BY <1>6 DEF LinkDrops, LinkEnds
  <2>2. link'.state = "down" /\ link'.out = <<>>
    BY <1>1, <2>1, RecoveringIn
  <2>3. ToldChunks' = ToldChunks /\ ~Over
    BY <2>1, ToldSame DEF Linked
  <2> QED
    BY <1>2, <2>1, <2>2, <2>3 DEF Linked
<1>7. CASE Attach
  <2>1. /\ link.slot /\ link.state = "down" /\ holder' = holder /\ runtime.inbox = <<>>
        /\ link'.state = "attaching" /\ link'.out = link.out
        /\ runtime'.offset = holder.emitted /\ runtime'.inbox = <<None>>
    BY <1>1, <1>7 DEF Attach, Drained, Link, Runtime
  <2>2. ToldChunks' = ToldChunks /\ ~Over /\ link.out = <<>>
    BY <1>2, <2>1, ToldAttach DEF Linked
  <2>3. Len(link'.out) = 0 /\ holder'.emitted - runtime'.offset = 0 /\ runtime'.offset <= holder'.emitted
    BY <1>1, <2>1, <2>2
  <2>4. ToldChunks' \subseteq 1..runtime'.offset
    BY <1>1, <2>1, <2>2 DEF Linked
  <2> QED
    BY <1>2, <2>1, <2>2, <2>3, <2>4 DEF Linked
<1>8. CASE Adopted
  <2>1. runtime' = runtime /\ holder' = holder /\ link'.state = "up" /\ link.state = "attaching" /\ link'.out = link.out
    BY <1>1, <1>8 DEF Adopted, Link
  <2>2. ToldChunks' = ToldChunks /\ ~Over
    BY <2>1, ToldSame DEF Linked
  <2> QED
    BY <1>2, <2>1, <2>2 DEF Linked
<1>9. CASE FinishRecovery
  <2>1. runtime' = runtime /\ holder' = holder /\ link'.state = "up" /\ link.state = "up" /\ link'.out = link.out
    BY <1>1, <1>9 DEF FinishRecovery, Link
  <2>2. ToldChunks' = ToldChunks /\ ~Over
    BY <2>1, ToldSame DEF Linked
  <2> QED
    BY <1>2, <2>1, <2>2 DEF Linked
<1> QED
  BY <1>3, <1>4, <1>5, <1>6, <1>7, <1>8, <1>9 DEF Quiet

LEMMA ReceivedNext ==
  ASSUME Typed, Linked, ReceiveOutput
  PROVE  LET k == Head(link.out) IN
         /\ k = runtime.offset + 1 /\ runtime'.offset = k /\ k \in Nat /\ runtime.offset \in Nat
         /\ Typed' /\ ToldChunks' = ToldChunks \cup {k} /\ k \notin ToldChunks
         /\ runtime'.screen = runtime.screen /\ runtime'.subs = runtime.subs /\ runtime'.life = runtime.life
         /\ runtime'.rev = runtime.rev /\ runtime'.next = runtime.next /\ ~Over
<1> DEFINE k == Head(link.out)
<1>1. /\ link.state = "up" /\ link.out # <<>> /\ k \in Nat /\ Typed'
      /\ runtime' = [runtime EXCEPT !.offset = k, !.inbox = Append(@, k)] /\ runtime'.inbox = Append(runtime.inbox, k)
  BY ReceiveOutputIs
<1>2. runtime \in Runtime /\ runtime.offset \in Nat /\ link.out \in Seq(Nat)
  BY DEF Typed, Sound, Runtime, Link
<1>3. /\ runtime'.offset = k /\ runtime'.screen = runtime.screen /\ runtime'.subs = runtime.subs
      /\ runtime'.life = runtime.life /\ runtime'.rev = runtime.rev /\ runtime'.next = runtime.next
  BY <1>1, <1>2 DEF Runtime
<1>4. k = link.out[1] /\ 1 \in 1..Len(link.out)
  BY <1>1, <1>2, TailAt
<1>5. k = runtime.offset + 1 /\ ~Over
  BY <1>1, <1>4 DEF Linked
<1>6. k # None
  BY <1>2, <1>5 DEF None
<1>7. ToldChunks' = ToldChunks \cup {k}
  BY <1>1, <1>3, <1>6, ToldReceive
<1>8. k \notin ToldChunks
  BY <1>2, <1>5 DEF Linked
<1> QED
  BY <1>1, <1>2, <1>3, <1>5, <1>7, <1>8

LEMMA LinkedReceive ==
  ASSUME Typed, Linked, ReceiveOutput
  PROVE  Linked'
<1> DEFINE x == link.out
           k == Head(x)
           t == Tail(x)
<1>1. /\ k = runtime.offset + 1 /\ runtime'.offset = k /\ k \in Nat /\ runtime.offset \in Nat
      /\ ToldChunks' = ToldChunks \cup {k}
      /\ runtime'.screen = runtime.screen /\ runtime'.subs = runtime.subs /\ runtime'.life = runtime.life /\ ~Over
  BY ReceivedNext
<1>2. /\ link.state = "up" /\ x # <<>> /\ link' = [link EXCEPT !.out = Tail(@)] /\ holder' = holder
  BY ReceiveOutputIs
<1>3. x \in Seq(Nat) /\ link \in Link /\ holder.emitted \in Nat
  BY DEF Typed, Link, Holder
<1>4. link'.state = "up" /\ link'.out = t
  BY <1>2, <1>3 DEF Link
<1>5. /\ Len(x) = holder.emitted - runtime.offset /\ \A i \in 1..Len(x) : x[i] = runtime.offset + i
      /\ ToldChunks \subseteq 1..runtime.offset /\ None \notin runtime.screen
      /\ holder.gone \/ runtime.life # "running" => holder.exited
      /\ runtime.life = "retired" => Channels = {}
  BY <1>2 DEF Linked
<1>6. /\ Len(t) \in Nat /\ Len(x) = Len(t) + 1 /\ \A i \in 1..Len(t) : i + 1 \in 1..Len(x) /\ t[i] = x[i + 1]
  BY <1>2, <1>3, TailAt
<1> HIDE DEF x, t, k
<1>7. Len(t) = holder'.emitted - runtime'.offset
  BY <1>1, <1>2, <1>3, <1>5, <1>6
<1>8. \A i \in 1..Len(t) : t[i] = runtime'.offset + i
  <2>1. SUFFICES ASSUME NEW i \in 1..Len(t) PROVE t[i] = runtime'.offset + i
    OBVIOUS
  <2>2. t[i] = x[i + 1] /\ x[i + 1] = runtime.offset + (i + 1)
    BY <1>5, <1>6, <2>1
  <2> QED
    BY <1>1, <2>1, <2>2
<1>9. ToldChunks' \subseteq 1..runtime'.offset /\ runtime'.offset <= holder'.emitted
  BY <1>1, <1>2, <1>3, <1>5, <1>6, <1>7
<1>10. ~(Over') /\ Channels' = Channels
  BY <1>1 DEF Over, Channels
<1> QED
  BY <1>1, <1>2, <1>4, <1>5, <1>7, <1>8, <1>9, <1>10 DEF Linked

(* A step that ends the session, wakes the waiting or only remembers. *)
LEMMA LinkedParse ==
  ASSUME Typed, Owning, Linked, Parse
  PROVE  Linked' /\ ToldChunks' = ToldChunks /\ ~Over
<1>1. /\ runtime.inbox # <<>> /\ holder' = holder /\ Typed'
      /\ \/ ExitIsReady(Parsed) /\ Ends(Parsed)
         \/ ~ExitIsReady(Parsed) /\ Wakes(Parsed) /\ link' = link
         \/ ~ExitIsReady(Parsed) /\ ~Drained(Parsed) /\ runtime' = Parsed /\ Untold /\ link' = link
  BY ParseIs
<1> DEFINE r == Parsed
<1>2. /\ Sound(r) /\ r.inbox = Tail(runtime.inbox)
      /\ r.screen = runtime.screen \cup ({Head(runtime.inbox)} \ {None})
      /\ r.offset = runtime.offset /\ r.subs = runtime.subs /\ r.life = runtime.life
  BY <1>1, ParsedIs
<1>3. ~Over
  BY <1>1 DEF Linked, Drained
<1> HIDE DEF r
<1>4. /\ runtime'.inbox = r.inbox /\ runtime'.screen = r.screen /\ runtime'.offset = r.offset
      /\ \/ ExitIsReady(r) /\ runtime'.life = "exited" /\ link' = LinkGone
         \/ runtime'.life = r.life /\ link' = link
  BY <1>1, <1>2, EndsIs DEF Wakes, r
<1>5. ToldChunks' = ToldChunks
  BY <1>1, <1>2, <1>4, ToldParse
<1>6. None \notin runtime'.screen
  BY <1>2, <1>4 DEF Linked
<1>7. CASE ExitIsReady(r) /\ runtime'.life = "exited" /\ link' = LinkGone
  <2>1. r.inbox = <<>> /\ runtime.life = "draining" /\ holder.exited
    BY <1>2, <1>7 DEF ExitIsReady, Drained, Linked
  <2> QED
    BY <1>1, <1>2, <1>3, <1>4, <1>5, <1>6, <1>7, <2>1, LinkGoneIn DEF Linked, Over, Drained
<1>8. CASE runtime'.life = r.life /\ link' = link
  <2>1. ~(Over') /\ runtime'.life = runtime.life /\ runtime'.life # "retired" /\ runtime'.offset = runtime.offset
    BY <1>2, <1>3, <1>4, <1>8 DEF Over
  <2> QED
    BY <1>1, <1>3, <1>5, <1>6, <1>8, <2>1 DEF Linked
<1> QED
  BY <1>3, <1>4, <1>5, <1>7, <1>8

LEMMA LinkedExit ==
  ASSUME Typed, Owning, Linked, ExitObserved
  PROVE  Linked' /\ ToldChunks' = ToldChunks /\ ~Over
<1> DEFINE r == Living("draining")
<1>1. /\ holder.exited /\ runtime.life = "running" /\ holder' = holder
      /\ \/ ExitIsReady(r) /\ Ends(r)
         \/ runtime' = r /\ Untold /\ link' = [link EXCEPT !.pend = None]
  BY ExitObservedIs
<1>2. /\ Sound(r) /\ r.inbox = runtime.inbox /\ r.screen = runtime.screen /\ r.offset = runtime.offset
      /\ r.subs = runtime.subs /\ r.life = "draining"
  BY LivingIs DEF Typed, Living, Lives
<1> HIDE DEF r
<1>3. /\ runtime'.inbox = runtime.inbox /\ runtime'.screen = runtime.screen /\ runtime'.offset = runtime.offset
  BY <1>1, <1>2, EndsIs
<1>4. ToldChunks' = ToldChunks /\ ~Over
  BY <1>1, <1>3, ToldSame DEF Over
<1>5. CASE ExitIsReady(r) /\ Ends(r)
  <2>1. runtime'.life = "exited" /\ link' = LinkGone /\ runtime'.inbox = <<>>
    BY <1>2, <1>3, <1>5, EndsIs DEF ExitIsReady, Drained
  <2> QED
    BY <1>1, <1>3, <1>4, <2>1, LinkGoneIn DEF Linked, Over, Drained
<1>6. CASE runtime' = r /\ link' = [link EXCEPT !.pend = None]
  <2>1. runtime'.life = "draining" /\ link'.state = link.state /\ link'.out = link.out /\ ~(Over')
    BY <1>2, <1>6 DEF Typed, Link, Over
  <2> QED
    BY <1>1, <1>3, <1>4, <2>1 DEF Linked
<1> QED
  BY <1>1, <1>4, <1>5, <1>6

LEMMA LinkedAbsence ==
  ASSUME Typed, Owning, Linked, ConfirmedAbsence
  PROVE  Linked' /\ ToldChunks' = ToldChunks /\ ~Over
<1>1. /\ link.slot /\ link.state = "down" /\ holder.gone /\ Drained(runtime) /\ holder' = holder
      /\ link' = LinkGone /\ runtime'.life = "retired" /\ DOMAIN runtime'.subs = {}
      /\ runtime'.screen = runtime.screen /\ runtime'.inbox = runtime.inbox
      /\ runtime'.offset = runtime.offset
  BY ConfirmedAbsenceIs
<1>2. ToldChunks' = ToldChunks /\ ~Over
  BY <1>1, ToldSame DEF Linked
<1> QED
  BY <1>1, <1>2, LinkGoneIn DEF Linked, Over, Drained, Channels

LEMMA LinkedRouter ==
  ASSUME Typed, Owning, Linked, NEW w \in Sockets, RouterReads(w)
  PROVE  Linked' /\ ToldChunks' = ToldChunks
<1> DEFINE f == Head(up[w])
<1>1. /\ Takes(w, f) /\ Sound(runtime') /\ Steers(runtime, runtime') /\ link' = Told(runtime')
      /\ \/ Joining(w, f) \/ Refusing(w)
         \/ \E chans : Leaving(chans)
         \/ Resizing(f) \/ runtime' = runtime
  BY RouterIs
<1>2. holder' = holder /\ runtime'.screen = runtime.screen /\ runtime'.offset = runtime.offset
      /\ runtime'.inbox = runtime.inbox /\ runtime'.life = runtime.life
  BY <1>1 DEF Takes, Steers
<1>3. link'.state = link.state /\ link'.out = link.out /\ link'.slot = link.slot
  <2>1. runtime'.rev \in Nat
    BY <1>1 DEF Sound, Runtime
  <2> QED
    BY <1>1, <2>1, ToldIs
<1>4. runtime.life = "retired" => DOMAIN runtime'.subs \subseteq Channels
  BY <1>1 DEF Joining, Refusing, Leaving, Resizing, Channels
<1>5. ToldChunks' = ToldChunks
  BY <1>2, ToldSame
<1> QED
  BY <1>2, <1>3, <1>4, <1>5, LinkedSame
-----------------------------------------------------------------------------
(* What the browser shows, over the steps that shorten what is under way.     *)
LEMMA LinkedBrowser ==
  ASSUME Linked, UNCHANGED <<holder, link, runtime>>
  PROVE  Linked' /\ ToldChunks' = ToldChunks
<1>1. ToldChunks' = ToldChunks
  BY ToldSame
<1> QED
  BY <1>1, LinkedSame DEF Channels

Shortens ==
  /\ runtime' = runtime /\ down' \in Seq(DownFrame)
  /\ \A i \in 1..Len(down') :
        \/ i \in 1..Len(down) /\ down'[i] = down[i]
        \/ down'[i].kind = "closed" /\ i = Len(down')
  /\ \A s \in Surfaces : Loose(client.view[s], client'.view[s])
  /\ \A c \in Channels : Reaches(runtime.subs[c].ws)' => Reaches(runtime.subs[c].ws) /\ down' = down

(* The frames of the browser's present queue. *)
LEMMA FramesAre ==
  ASSUME Typed
  PROVE  /\ down \in Seq(DownFrame) /\ Len(down) \in Nat
         /\ \A i \in 1..Len(down) : down[i] \in DownFrame
BY DEF Typed

LEMMA KindIs ==
  ASSUME NEW f \in DownFrame
  PROVE  /\ f.kind \in {"ack", "error", "output", "snapshot", "exit", "closed"}
         /\ f.kind = "ack" => f \in AckFrame /\ f = Ack(f.chan)
         /\ f.kind = "output" => f \in OutputFrame
         /\ f.kind = "snapshot" => f \in SnapshotFrame
         /\ f.kind = "exit" => f \in ExitFrame
         /\ Shows(f) => Pos(f) \in Nat /\ f.rev \in Nat /\ f.kind # "closed" /\ Addressed(f)
         /\ Addressed(f) => f.chan \in Nat /\ f.kind # "closed"
<1>1. f \in AckFrame \/ f \in ErrorFrame \/ f \in OutputFrame \/ f \in SnapshotFrame \/ f \in ExitFrame \/ f \in ClosedFrame
  BY DEF DownFrame
<1>2. CASE f \in AckFrame
  BY <1>2 DEF AckFrame, Ack, Shows, Addressed
<1>3. CASE f \in ErrorFrame
  BY <1>3 DEF ErrorFrame, Shows, Addressed
<1>4. CASE f \in OutputFrame
  BY <1>4 DEF OutputFrame, Shows, Addressed, Pos
<1>5. CASE f \in SnapshotFrame
  BY <1>5 DEF SnapshotFrame, Shows, Addressed, Pos
<1>6. CASE f \in ExitFrame
  BY <1>6 DEF ExitFrame, Shows, Addressed
<1>7. CASE f \in ClosedFrame
  BY <1>7 DEF ClosedFrame, Shows, Addressed
<1> QED
  BY <1>1, <1>2, <1>3, <1>4, <1>5, <1>6, <1>7

LEMMA ViewsAre ==
  ASSUME Typed, NEW s \in Surfaces
  PROVE  /\ client.view[s] \in View /\ client.view[s].expected \in Nat /\ client.view[s].rev \in Nat
         /\ client.view[s].chan \in Nat
BY ViewFields DEF Typed, View

LEMMA ViewsNext ==
  ASSUME Typed', NEW s \in Surfaces
  PROVE  /\ client'.view[s] \in View /\ client'.view[s].expected \in Nat /\ client'.view[s].rev \in Nat
         /\ client'.view[s].chan \in Nat
BY DEF Typed, Client, View

LEMMA RuntimeIs ==
  ASSUME Typed
  PROVE  /\ runtime.offset \in Nat /\ runtime.rev \in Nat /\ runtime.next \in Nat /\ runtime.next >= 1
         /\ runtime.screen \subseteq Nat /\ runtime.inbox \in Seq(Nat)
         /\ \A c \in Channels : c \in 1..(runtime.next - 1) /\ c # None /\ c \in Nat /\ runtime.subs[c] \in Sub
         /\ runtime.life \in Lives
<1>1. Sound(runtime)
  BY DEF Typed
<1>2. runtime \in Runtime /\ DOMAIN runtime.subs \subseteq 1..(runtime.next - 1) /\ runtime.next >= 1 /\ runtime.subs \in SubsOf
  BY <1>1 DEF Sound, Runtime
<1>3. \A c \in DOMAIN runtime.subs : runtime.subs[c] \in Sub
  BY <1>2, SubsAre
<1>4. /\ runtime.offset \in Nat /\ runtime.rev \in Nat /\ runtime.next \in Nat
      /\ runtime.screen \subseteq Nat /\ runtime.inbox \in Seq(Nat) /\ runtime.life \in Lives
  BY <1>2 DEF Runtime
<1> QED
  BY <1>2, <1>3, <1>4 DEF Channels, None

(* A frame that is still there was there. *)
LEMMA ShortFrames ==
  ASSUME Typed, Shortens, NEW i \in 1..Len(down'), down'[i].kind # "closed"
  PROVE  /\ i \in 1..Len(down) /\ down'[i] = down[i] /\ down[i] \in DownFrame
         /\ \A j \in 1..Len(down') : j < i => j \in 1..Len(down) /\ down'[j] = down[j]
         /\ \A j \in 1..Len(down) : j < i => j \in 1..Len(down') /\ down'[j] = down[j]
<1>1. Len(down') \in Nat /\ Len(down) \in Nat /\ \A k \in 1..Len(down) : down[k] \in DownFrame
  BY FramesAre DEF Shortens
<1>2. i \in 1..Len(down) /\ down'[i] = down[i]
  BY DEF Shortens
<1>3. \A j \in 1..Len(down') : j < i => j \in 1..Len(down) /\ down'[j] = down[j]
  BY <1>1 DEF Shortens
<1> QED
  BY <1>1, <1>2, <1>3

LEMMA ShortShown ==
  ASSUME Typed, Linked, Shown, Shortens, ToldChunks' = ToldChunks, Typed'
  PROVE  Shown'
<1>1. runtime' = runtime /\ \A k : UpTo(k)' = UpTo(k)
  BY DEF Shortens, UpTo
<1>2. ASSUME NEW s \in Surfaces
      PROVE  LET v == client'.view[s] IN
             /\ v.expected <= runtime'.offset /\ v.rev <= runtime'.rev
             /\ v.phase = "live" => v.shown = UpTo(v.expected)
             /\ v.ended => v.shown = runtime'.screen
  <2> DEFINE o == client.view[s]
             v == client'.view[s]
  <2>1. /\ Loose(o, v) /\ o.expected <= runtime.offset /\ o.rev <= runtime.rev
        /\ o.phase = "live" => o.shown = UpTo(o.expected)
        /\ o.ended => o.shown = runtime.screen
    BY DEF Shortens, Shown
  <2>2. o.expected \in Nat /\ o.rev \in Nat /\ v.expected \in Nat /\ v.rev \in Nat /\ runtime.offset \in Nat /\ runtime.rev \in Nat
    BY ViewsAre, RuntimeIs, ViewsNext, <1>2
  <2> HIDE DEF o, v
  <2>3. v.expected <= runtime.offset /\ v.rev <= runtime.rev
    BY <2>1, <2>2 DEF Loose
  <2>4. v.phase = "live" => v.shown = UpTo(v.expected)
    BY <2>1, <2>2 DEF Loose
  <2>5. v.ended => v.shown = runtime.screen
    BY <2>1 DEF Loose
  <2> QED
    BY <1>1, <2>3, <2>4, <2>5 DEF v
<1>3. ASSUME NEW i \in 1..Len(down')
      PROVE  LET f == down'[i] IN
             /\ Shows(f) => Pos(f) <= runtime'.offset /\ f.rev <= runtime'.rev
             /\ f.kind = "snapshot" => f.screen = UpTo(f.offset)
             /\ f.kind = "output" => f.chunk \in ToldChunks
  <2>1. CASE down'[i].kind = "closed"
    BY <2>1 DEF Shows
  <2>2. CASE down'[i].kind # "closed"
    BY <1>1, <2>2, ShortFrames DEF Shown
  <2> QED
    BY <2>1, <2>2
<1>4. Shown' <=> /\ \A s \in Surfaces : LET v == client'.view[s] IN
                        /\ v.expected <= runtime'.offset /\ v.rev <= runtime'.rev
                        /\ v.phase = "live" => v.shown = UpTo(v.expected)
                        /\ v.ended => v.shown = runtime'.screen
                 /\ \A i \in 1..Len(down') : LET f == down'[i] IN
                        /\ Shows(f) => Pos(f) <= runtime'.offset /\ f.rev <= runtime'.rev
                        /\ f.kind = "snapshot" => f.screen = UpTo(f.offset)
                        /\ f.kind = "output" => f.chunk \in ToldChunks
  BY DEF Shown, UpTo, Shows, Pos
<1> QED
  BY <1>2, <1>3, <1>4

LEMMA ShortAscending ==
  ASSUME Typed, Typed', Ascending, Shortens
  PROVE  Ascending'
<1>1. ASSUME NEW i \in 1..Len(down'), NEW j \in 1..Len(down'), i < j, Shows(down'[i]), Shows(down'[j])
      PROVE  Pos(down'[i]) <= Pos(down'[j]) /\ down'[i].rev <= down'[j].rev
  <2>1. down'[i].kind # "closed" /\ down'[j].kind # "closed"
    BY <1>1 DEF Shows
  <2> QED
    BY <1>1, <2>1, ShortFrames DEF Ascending
<1>2. ASSUME NEW s \in Surfaces, NEW i \in 1..Len(down'), Shows(down'[i])
      PROVE  client'.view[s].expected <= Pos(down'[i]) /\ client'.view[s].rev <= down'[i].rev
  <2>1. down'[i].kind # "closed"
    BY <1>2 DEF Shows
  <2>2. i \in 1..Len(down) /\ down'[i] = down[i] /\ down[i] \in DownFrame
    BY <2>1, ShortFrames
  <2>3. client.view[s].expected <= Pos(down[i]) /\ client.view[s].rev <= down[i].rev
    BY <1>2, <2>2 DEF Ascending
  <2>4. Loose(client.view[s], client'.view[s])
    BY DEF Shortens
  <2>5. Pos(down[i]) \in Nat /\ down[i].rev \in Nat
    BY <1>2, <2>2, KindIs
  <2>6. client.view[s].expected \in Nat /\ client.view[s].rev \in Nat /\ client'.view[s].expected \in Nat /\ client'.view[s].rev \in Nat
    BY ViewsAre, ViewsNext, <1>2
  <2> QED
    BY <2>2, <2>3, <2>4, <2>5, <2>6 DEF Loose
<1> QED
  BY <1>1, <1>2 DEF Ascending, Shows, Pos

LEMMA ShortFresh ==
  ASSUME Typed, Typed', Fresh, Shortens,
         \A w \in 1..Len(up') : \A i \in 1..Len(up'[w]) :
             up'[w][i].kind \in {"unsubscribe", "resize"} => up'[w][i].chan \in 1..(runtime.next - 1)
  PROVE  Fresh'
<1>1. runtime' = runtime /\ runtime.next \in Nat /\ runtime.next >= 1
  BY RuntimeIs DEF Shortens
<1>2. ASSUME NEW i \in 1..Len(down'), Addressed(down'[i])
      PROVE  down'[i].chan \in 1..(runtime.next - 1)
  <2>1. down'[i].kind # "closed"
    BY <1>2 DEF Addressed
  <2> QED
    BY <1>2, <2>1, ShortFrames DEF Fresh
<1>3. ASSUME NEW s \in Surfaces PROVE client'.view[s].chan \in 0..(runtime.next - 1)
  <2>1. client.view[s].chan \in 0..(runtime.next - 1) /\ Loose(client.view[s], client'.view[s])
    BY DEF Fresh, Shortens
  <2> QED
    BY <1>1, <2>1 DEF Loose, None
<1> QED
  BY <1>1, <1>2, <1>3 DEF Fresh, Addressed

LEMMA ShortAckFirst ==
  ASSUME Typed, Typed', Fresh, AckFirst, Shortens
  PROVE  AckFirst'
<1>1. ASSUME NEW i \in 1..Len(down'), down'[i].kind = "ack"
      PROVE  /\ \A j \in 1..Len(down') :
                j # i /\ Addressed(down'[j]) /\ down'[j].chan = down'[i].chan => i < j /\ down'[j].kind # "ack"
             /\ \A s \in Surfaces : client'.view[s].chan # down'[i].chan
  <2>1. i \in 1..Len(down) /\ down'[i] = down[i]
    BY <1>1, ShortFrames
  <2>2. \A j \in 1..Len(down') : Addressed(down'[j]) => j \in 1..Len(down) /\ down'[j] = down[j]
    <3>1. SUFFICES ASSUME NEW j \in 1..Len(down'), Addressed(down'[j]) PROVE j \in 1..Len(down) /\ down'[j] = down[j]
      OBVIOUS
    <3>2. down'[j].kind # "closed"
      BY <3>1 DEF Addressed
    <3> QED
      BY <3>2, ShortFrames
  <2>3. down[i].chan # None
    <3>1. Addressed(down[i])
      BY <1>1, <2>1 DEF Addressed
    <3> QED
      BY <2>1, <3>1, RuntimeIs DEF Fresh, None
  <2>4. \A s \in Surfaces : client'.view[s].chan # down'[i].chan
    <3>1. \A s \in Surfaces : client.view[s].chan # down[i].chan /\ Loose(client.view[s], client'.view[s])
      BY <1>1, <2>1 DEF AckFirst, Shortens
    <3> QED
      BY <2>1, <2>3, <3>1 DEF Loose
  <2> QED
    BY <1>1, <2>1, <2>2, <2>4 DEF AckFirst
<1>2. ASSUME NEW s \in Surfaces, NEW t \in Surfaces, client'.view[s].chan = client'.view[t].chan, client'.view[s].chan # None
      PROVE  s = t
  <2>1. client.view[s].chan = client'.view[s].chan /\ client.view[t].chan = client'.view[t].chan
    BY <1>2 DEF Shortens, Loose
  <2> QED
    BY <1>2, <2>1 DEF AckFirst
<1> QED
  BY <1>1, <1>2 DEF AckFirst, Addressed

LEMMA ShortOpened ==
  ASSUME Typed, Shortens, NEW c, c # None, Opened(c)
  PROVE  Opened(c)' /\ \A s \in Surfaces : client'.view[s].chan = c =>
                         /\ client.view[s].chan = c /\ client'.view[s].phase = client.view[s].phase
                         /\ client'.view[s].expected = client.view[s].expected
<1>1. \A i \in 1..Len(down') : down'[i] # Ack(c)
  BY KindsAre DEF Shortens, Opened
<1>2. \A s \in Surfaces : client'.view[s].chan = c =>
                         /\ client.view[s].chan = c /\ client'.view[s].phase = client.view[s].phase
                         /\ client'.view[s].expected = client.view[s].expected
  BY DEF Shortens, Loose
<1> QED
  BY <1>1, <1>2 DEF Opened, Ack

(* What was told of a channel up to position i, which is kept. *)
LEMMA ShortTold ==
  ASSUME Typed, Shortens, NEW c, c # None, NEW i \in Nat, \A j \in 1..Len(down) : j < i => j \in 1..Len(down') /\ down'[j] = down[j]
  PROVE  /\ Based(c, i) => Based(c, i)'
         /\ \A k : Heard(c, k, i) => Heard(c, k, i)'
<1>1. ASSUME Based(c, i) PROVE Based(c, i)'
  <2>1. CASE \E j \in 1..Len(down) : j < i /\ down[j].kind = "snapshot" /\ down[j].chan = c
    <3>1. \E j \in 1..Len(down') : j < i /\ down'[j].kind = "snapshot" /\ down'[j].chan = c
      BY <2>1
    <3> QED
      BY <3>1 DEF Based
  <2>2. CASE Opened(c) /\ \A s \in Surfaces : client.view[s].chan = c => client.view[s].phase = "live"
    <3>1. Opened(c)' /\ \A s \in Surfaces : client'.view[s].chan = c => client'.view[s].phase = "live"
      BY <2>2, ShortOpened
    <3> QED
      BY <3>1 DEF Based
  <2> QED
    BY <1>1, <2>1, <2>2 DEF Based
<1>2. ASSUME NEW k, Heard(c, k, i) PROVE Heard(c, k, i)'
  <2>1. CASE \E j \in 1..Len(down) :
              /\ j < i /\ Shows(down[j]) /\ down[j].chan = c
              /\ IF down[j].kind = "snapshot" THEN k <= down[j].offset ELSE k = down[j].chunk
    <3>1. \E j \in 1..Len(down') :
              /\ j < i /\ Shows(down'[j]) /\ down'[j].chan = c
              /\ IF down'[j].kind = "snapshot" THEN k <= down'[j].offset ELSE k = down'[j].chunk
      BY <2>1
    <3> QED
      BY <3>1 DEF Heard, Shows
  <2>2. CASE Opened(c) /\ \A s \in Surfaces : client.view[s].chan = c => k <= client.view[s].expected
    <3>1. Opened(c)' /\ \A s \in Surfaces : client'.view[s].chan = c => k <= client'.view[s].expected
      BY <2>2, ShortOpened
    <3> QED
      BY <3>1 DEF Heard
  <2> QED
    BY <1>2, <2>1, <2>2 DEF Heard
<1> QED
  BY <1>1, <1>2

LEMMA ShortStory ==
  ASSUME Typed, Typed', Fresh, Story, Shortens, ToldChunks' = ToldChunks
  PROVE  Story'
<1>1. ASSUME NEW i \in 1..Len(down'), Addressed(down'[i])
      PROVE  /\ down'[i] = down[i] /\ i \in 1..Len(down) /\ i \in Nat /\ down[i].chan # None
             /\ \A j \in 1..Len(down) : j < i => j \in 1..Len(down') /\ down'[j] = down[j]
  <2>1. down'[i].kind # "closed"
    BY <1>1 DEF Addressed
  <2>2. down'[i] = down[i] /\ i \in 1..Len(down)
        /\ \A j \in 1..Len(down) : j < i => j \in 1..Len(down') /\ down'[j] = down[j]
    BY <2>1, ShortFrames
  <2> QED
    BY <1>1, <2>2, RuntimeIs DEF Fresh, None
<1>2. ASSUME NEW i \in 1..Len(down'), down'[i].kind = "output" PROVE Based(down[i].chan, i)'
  <2>1. Addressed(down'[i])
    BY <1>2 DEF Addressed
  <2> DEFINE g == down[i]
  <2>2. down'[i] = g /\ i \in 1..Len(down) /\ i \in Nat /\ g.chan # None
             /\ \A j \in 1..Len(down) : j < i => j \in 1..Len(down') /\ down'[j] = down[j]
    BY <1>1, <2>1
  <2>3. PICK c : c = g.chan
    OBVIOUS
  <2>4. Based(c, i)
    BY <1>2, <2>2, <2>3 DEF Story
  <2>5. Based(c, i)'
    BY <2>2, <2>3, <2>4, ShortTold
  <2>6. down'[i].chan = c
    BY <2>2, <2>3
  <2> QED
    BY <2>5, <2>6 DEF Based
<1>3. ASSUME NEW i \in 1..Len(down'), down'[i].kind = "exit"
      PROVE  Based(down[i].chan, i)' /\ \A k \in ToldChunks : Heard(down[i].chan, k, i)'
  <2>1. Addressed(down'[i])
    BY <1>3 DEF Addressed
  <2> DEFINE g == down[i]
  <2>2. down'[i] = g /\ i \in 1..Len(down) /\ i \in Nat /\ g.chan # None
             /\ \A j \in 1..Len(down) : j < i => j \in 1..Len(down') /\ down'[j] = down[j]
    BY <1>1, <2>1
  <2>3. PICK c : c = g.chan
    OBVIOUS
  <2>4. Based(c, i) /\ \A k \in ToldChunks : Heard(c, k, i)
    BY <1>3, <2>2, <2>3 DEF Story
  <2>5. Based(c, i)' /\ \A k \in ToldChunks : Heard(c, k, i)'
    BY <2>2, <2>3, <2>4, ShortTold
  <2>6. down'[i].chan = c
    BY <2>2, <2>3
  <2> QED
    BY <2>5, <2>6 DEF Based, Heard
<1>4. ASSUME NEW c \in Channels, runtime.subs[c].ready, Reaches(runtime.subs[c].ws)'
      PROVE  Based(c, Len(down) + 1)' /\ \A k \in ToldChunks : Heard(c, k, Len(down) + 1)'
  <2>1. Reaches(runtime.subs[c].ws) /\ down' = down /\ c # None
    BY <1>4, RuntimeIs DEF Shortens
  <2>2. PICK n : n = Len(down) + 1
    OBVIOUS
  <2>3. Based(c, n) /\ \A k \in ToldChunks : Heard(c, k, n)
    BY <1>4, <2>1, <2>2 DEF Story
  <2>4. n \in Nat
    BY <2>2, FramesAre
  <2>5. Based(c, n)' /\ \A k \in ToldChunks : Heard(c, k, n)'
    BY <2>1, <2>3, <2>4, ShortTold
  <2>6. Len(down') + 1 = n
    BY <2>1, <2>2
  <2> QED
    BY <2>5, <2>6 DEF Based, Heard
<1>5. Channels' = Channels /\ runtime' = runtime
  BY DEF Channels, Shortens
<1> QED
  BY <1>2, <1>3, <1>4, <1>5 DEF Story, Based, Heard, Opened, Shows, Reaches

LEMMA ShortEnded ==
  ASSUME Typed, Ended, Shortens
  PROVE  Ended'
<1>1. Over' = Over /\ runtime' = runtime
  BY DEF Over, Shortens
<1>2. ASSUME NEW i \in 1..Len(down'), down'[i].kind = "exit"
      PROVE  Over /\ \A j \in 1..Len(down') : i < j => down'[j].kind \in Final
  <2>1. i \in 1..Len(down) /\ down'[i] = down[i]
    BY <1>2, ShortFrames
  <2> QED
    BY <1>2, <2>1 DEF Ended, Shortens, Final
<1>3. ASSUME NEW s \in Surfaces, client'.view[s].ended
      PROVE  Over /\ \A j \in 1..Len(down') : down'[j].kind \in Final
  <2>1. client.view[s].ended
    BY <1>3 DEF Shortens, Loose
  <2> QED
    BY <2>1 DEF Ended, Shortens, Final
<1> QED
  BY <1>1, <1>2, <1>3 DEF Ended
Screens == Shown /\ Ascending /\ Fresh /\ AckFirst /\ Story /\ Ended
FreshUp ==
  \A w \in 1..Len(up') : \A i \in 1..Len(up'[w]) :
      up'[w][i].kind \in {"unsubscribe", "resize"} => up'[w][i].chan \in 1..(runtime.next - 1)

LEMMA ScreensShort ==
  ASSUME Typed, Typed', Linked, Screens, Shortens, FreshUp, holder' = holder, link' = link
  PROVE  Linked' /\ Screens'
<1>1. runtime' = runtime
  BY DEF Shortens
<1>2. Linked' /\ ToldChunks' = ToldChunks
  BY <1>1, LinkedBrowser
<1> QED
  BY <1>2, ShortShown, ShortAscending, ShortFresh, ShortAckFirst, ShortStory, ShortEnded DEF Screens, FreshUp

LEMMA FreshAppends ==
  ASSUME Typed, Fresh, NEW o \in Seq(UpFrame), Appends(o), NEW c \in 0..(runtime.next - 1), Names(o, c)
  PROVE  FreshUp
<1>1. ASSUME NEW w \in 1..Len(up'), NEW i \in 1..Len(up'[w]), up'[w][i].kind \in {"unsubscribe", "resize"}
      PROVE  up'[w][i].chan \in 1..(runtime.next - 1)
  <2> DEFINE x == up[w]
  <2>1. w \in 1..Len(up) /\ x \in Seq(UpFrame) /\ up'[w] = IF Reaches(w) THEN x \o o ELSE x
    BY <1>1 DEF Appends, Typed
  <2>2. \A j \in 1..Len(x) : x[j].kind \in {"unsubscribe", "resize"} => x[j].chan \in 1..(runtime.next - 1)
    BY <2>1 DEF Fresh
  <2>3. \A j \in 1..Len(o) : o[j].kind \in {"unsubscribe", "resize"} => o[j].chan \in 1..(runtime.next - 1)
    BY RuntimeIs DEF Names, None
  <2> HIDE DEF x
  <2>4. CASE ~Reaches(w)
    BY <1>1, <2>1, <2>2, <2>4
  <2>5. CASE Reaches(w)
    <3>1. up'[w] = x \o o
      BY <2>1, <2>5
    <3>2. \/ i \in 1..Len(x) /\ (x \o o)[i] = x[i]
          \/ \E k \in 1..Len(o) : i = Len(x) + k /\ (x \o o)[i] = o[k]
      BY <1>1, <2>1, <3>1, JoinedAt
    <3> QED
      BY <1>1, <2>2, <2>3, <3>1, <3>2
  <2> QED
    BY <2>4, <2>5
<1> QED
  BY <1>1 DEF FreshUp

LEMMA ScreensLook ==
  ASSUME Base, Base', Linked, Screens, NEW s \in Surfaces, Looks(s)
  PROVE  Linked' /\ Screens'
<1>1. UNCHANGED <<holder, link, runtime>> /\ Typed /\ Typed' /\ Socketed /\ Awaited /\ Fresh
  BY LookIs DEF Base, Screens
<1>2. down' \in Seq(DownFrame) /\ client.view[s].chan \in 0..(runtime.next - 1) /\ client.view[s] \in View
      /\ \A t \in Surfaces : Loose(client.view[t], client.view[t])
  <2>1. \A t \in Surfaces : Loose(client.view[t], client.view[t])
    <3>1. SUFFICES ASSUME NEW t \in Surfaces PROVE Loose(client.view[t], client.view[t])
      OBVIOUS
    <3>2. client.view[t] \in View /\ client.view[t].size \in Sizes /\ 0 \in Nat
      BY <1>1, ViewsAre DEF View
    <3> QED
      BY <3>2, LooseAre
  <2> QED
    BY <1>1, <2>1, ViewsAre DEF Typed, Fresh
<1>3. CASE Leaves(s, UnsubscribeOf(client.view[s]) \o <<CloseFrameOf>>)
  <2> DEFINE v == client.view[s]
             p == UnsubscribeOf(v)
             o == p \o <<CloseFrameOf>>
  <2>1. /\ client'.ws = None
        /\ \A t \in Surfaces : client'.view[t] = IF t = s THEN NoSurface(s) ELSE client.view[t]
        /\ Appends(o) /\ down' = <<>>
    BY <1>3 DEF Leaves
  <2>2. Loose(v, NoSurface(s)) /\ Names(p, v.chan) /\ Plain(p)
    <3>1. v.size \in Sizes /\ 0 \in Nat
      BY <1>2 DEF View
    <3> QED
      BY <1>2, <3>1, LooseAre, NamesAre, PlainAre
  <2>3. \A c \in Channels : ~Reaches(runtime.subs[c].ws)'
    BY <1>1, <2>1, RuntimeIs DEF Socketed, Reaches, None
  <2>4. Shortens
    BY <1>1, <1>2, <2>1, <2>2, <2>3 DEF Shortens
  <2>5. <<CloseFrameOf>> \in Seq(UpFrame) /\ Len(<<CloseFrameOf>>) = 1 /\ <<CloseFrameOf>>[1].kind = "close"
    <3> DEFINE c == CloseFrameOf
    <3>1. c \in UpFrame /\ c.kind = "close"
      BY DEF CloseFrameOf, UpFrame, CloseFrame
    <3> HIDE DEF c
    <3>2. <<c>> \in Seq(UpFrame) /\ Len(<<c>>) = 1 /\ <<c>>[1].kind = "close"
      BY <3>1
    <3> QED
      BY <3>2 DEF c
  <2> HIDE DEF p
  <2>6. o \in Seq(UpFrame) /\ Names(o, v.chan)
    <3> DEFINE e == <<CloseFrameOf>>
    <3> HIDE DEF e
    <3>1. e \in Seq(UpFrame) /\ Len(e) = 1 /\ e[1].kind = "close" /\ p \in Seq(UpFrame)
      BY <2>2, <2>5 DEF e, Plain
    <3>2. \A i \in 1..Len(p \o e) :
               \/ i \in 1..Len(p) /\ (p \o e)[i] = p[i]
               \/ \E k \in 1..Len(e) : i = Len(p) + k /\ (p \o e)[i] = e[k]
      <4>1. e \in Seq(UpFrame) /\ p \in Seq(UpFrame)
        BY <3>1
      <4> QED
        BY <4>1, JoinedAt
    <3>3. Names(p \o e, v.chan)
      BY <2>2, <3>1, <3>2 DEF Names
    <3> QED
      BY <3>1, <3>3 DEF e
  <2>7. FreshUp
    <3> HIDE DEF o
    <3> QED
      BY <1>1, <1>2, <2>1, <2>6, FreshAppends
  <2> QED
    BY <1>1, <2>4, <2>7, ScreensShort
<1>4. ASSUME NEW n, NEW a, NEW o, LookLike(s, n, a, o)
      PROVE  Linked' /\ Screens'
  <2>1. /\ down' = down /\ client'.ws = client.ws /\ client'.broken = client.broken
        /\ \A t \in Surfaces : client'.view[t] = IF t = s THEN n ELSE client.view[t]
        /\ Appends(o) /\ o \in Seq(UpFrame) /\ Loose(client.view[s], n) /\ Names(o, client.view[s].chan)
    BY <1>4 DEF LookLike, Keeps, Moves, Plain
  <2>2. Shortens
    <3>1. \A c \in Channels : Reaches(runtime.subs[c].ws)' => Reaches(runtime.subs[c].ws) /\ down' = down
      BY <1>1, <2>1 DEF Reaches
    <3> QED
      BY <1>1, <1>2, <2>1, <3>1 DEF Shortens
  <2>3. FreshUp
    BY <1>1, <1>2, <2>1, FreshAppends
  <2> QED
    BY <1>1, <2>2, <2>3, ScreensShort
<1> QED
  BY <1>1, <1>3, <1>4, LookIs

LEMMA ScreensOpens ==
  ASSUME Base, Base', Linked, Screens, Connect
  PROVE  Linked' /\ Screens'
<1>1. UNCHANGED <<holder, link, runtime, down, left>> /\ Typed /\ Typed' /\ Socketed /\ Awaited /\ Fresh
  BY DEF Base, Connect, Screens
<1>2. PICK q : Lists(q) /\ Opens(q)
  BY <1>1, ConnectIs
<1> DEFINE frames == [i \in 1..Len(q) |-> SubscribeOf(q[i], client.view[q[i]])]
<1>3. /\ client.ws = None
      /\ client'.ws = client.made + 1
      /\ \A s \in Surfaces :
            client'.view[s] = IF s \in Visible THEN Asking(client.view[s]) ELSE client.view[s]
      /\ frames \in Seq(UpFrame)
      /\ Len(up') = Len(up)
      /\ \A x \in 1..Len(up) : up'[x] = IF x = client.made + 1 THEN up[x] \o frames ELSE up[x]
  BY <1>2 DEF Opens
<1>4. \A i \in 1..Len(frames) : frames[i].kind = "subscribe"
  BY <1>2 DEF Lists, SubscribeOf
<1>5. up[client.made + 1] = <<>>
  <2>1. client.made \in Nat /\ client.made + 1 \in 1..Len(up)
    BY <1>1, <1>2 DEF Opens, Typed, Client
  <2> QED
    BY <1>1, <2>1 DEF Socketed
<1> HIDE DEF frames
<1>6. FreshUp
  <2>1. ASSUME NEW x \in 1..Len(up'), NEW i \in 1..Len(up'[x]), up'[x][i].kind \in {"unsubscribe", "resize"}
        PROVE  up'[x][i].chan \in 1..(runtime.next - 1)
    <3>1. CASE x = client.made + 1
      <4>1. <<>> \o frames = frames
        BY <1>3
      <4>2. up'[x] = frames
        BY <1>3, <1>5, <2>1, <3>1, <4>1
      <4> QED
        BY <1>4, <2>1, <4>2
    <3>2. CASE x # client.made + 1
      BY <1>1, <1>3, <2>1, <3>2 DEF Fresh
    <3> QED
      BY <3>1, <3>2
  <2> QED
    BY <2>1 DEF FreshUp
<1>7. \A s \in Surfaces : Loose(client.view[s], client'.view[s])
  <2>1. SUFFICES ASSUME NEW s \in Surfaces PROVE Loose(client.view[s], client'.view[s])
    OBVIOUS
  <2>2. client.view[s] \in View /\ client.view[s].size \in Sizes /\ 0 \in Nat
    BY <1>1, ViewsAre DEF View
  <2>3. Loose(client.view[s], client.view[s]) /\ Loose(client.view[s], Asking(client.view[s]))
    BY <2>2, LooseAre
  <2> QED
    BY <1>3, <2>3
<1>8. \A c \in Channels : ~(Reaches(runtime.subs[c].ws)')
  <2>1. client.made \in Nat
    BY <1>1 DEF Typed, Client
  <2>2. \A c \in Channels : runtime.subs[c].ws \in 1..client.made
    BY <1>1 DEF Socketed
  <2> QED
    BY <1>1, <1>3, <2>1, <2>2 DEF Reaches
<1>9. Shortens
  BY <1>1, <1>7, <1>8 DEF Shortens, Typed
<1> QED
  BY <1>1, <1>6, <1>9, ScreensShort

LEMMA ScreensBreaks ==
  ASSUME Base, Base', Linked, Screens, NEW w, NEW m, NEW n, Breaks(w, m, n)
  PROVE  Linked' /\ Screens'
<1>1. UNCHANGED <<holder, link, runtime>> /\ Typed /\ Typed' /\ Fresh
  BY DEF Base, Breaks, Screens
<1>2. /\ w \in 1..Len(up) /\ m \in 0..Len(up[w]) /\ n \in 0..Len(down)
      /\ Len(up') = Len(up) /\ \A x \in 1..Len(up) : x # w => up'[x] = up[x]
      /\ Len(up'[w]) = m + 1 /\ up'[w][m + 1].kind = "close"
      /\ \A i \in 1..m : i \in 1..Len(up[w]) /\ up'[w][i] = up[w][i]
      /\ down' \in Seq(DownFrame) /\ Len(down') = n + 1 /\ down'[n + 1] = Closed
      /\ \A i \in 1..n : i \in 1..Len(down) /\ down'[i] = down[i]
      /\ client'.broken /\ client'.view = client.view
  BY DEF Breaks
<1>3. m \in Nat /\ n \in Nat
  <2>1. up \in Seq(Seq(UpFrame))
    BY <1>1 DEF Typed
  <2>2. up[w] \in Seq(UpFrame)
    BY <1>2, <2>1
  <2>3. Len(up[w]) \in Nat /\ Len(down) \in Nat
    BY <1>1, <2>2, FramesAre
  <2> QED
    BY <1>2, <2>3
<1>4. FreshUp
  <2>1. ASSUME NEW x \in 1..Len(up'), NEW i \in 1..Len(up'[x]), up'[x][i].kind \in {"unsubscribe", "resize"}
        PROVE  up'[x][i].chan \in 1..(runtime.next - 1)
    <3>1. CASE x = w
      <4>1. i \in 1..m \/ i = m + 1
        BY <1>2, <1>3, <2>1, <3>1
      <4>2. i \in 1..m
        BY <1>2, <2>1, <3>1, <4>1
      <4>3. i \in 1..Len(up[w]) /\ up'[w][i] = up[w][i]
        BY <1>2, <4>2
      <4> QED
        BY <1>1, <1>2, <2>1, <3>1, <4>3 DEF Fresh
    <3>2. CASE x # w
      BY <1>1, <1>2, <2>1, <3>2 DEF Fresh
    <3> QED
      BY <3>1, <3>2
  <2> QED
    BY <2>1 DEF FreshUp
<1>5. \A s \in Surfaces : Loose(client.view[s], client'.view[s])
  <2>1. SUFFICES ASSUME NEW s \in Surfaces PROVE Loose(client.view[s], client'.view[s])
    OBVIOUS
  <2>2. client.view[s] \in View /\ client.view[s].size \in Sizes /\ 0 \in Nat
    BY <1>1, ViewsAre DEF View
  <2> QED
    BY <1>2, <2>2, LooseAre
<1>6. \A c \in Channels : ~(Reaches(runtime.subs[c].ws)')
  BY <1>2 DEF Reaches
<1>7. \A i \in 1..Len(down') : (i \in 1..Len(down) /\ down'[i] = down[i]) \/ (down'[i].kind = "closed" /\ i = Len(down'))
  <2>1. \A i \in 1..Len(down') : i \in 1..n \/ i = n + 1
    BY <1>2, <1>3
  <2> QED
    BY <1>2, <2>1, KindsAre
<1>8. Shortens
  BY <1>1, <1>2, <1>5, <1>6, <1>7 DEF Shortens
<1> QED
  BY <1>1, <1>4, <1>8, ScreensShort

LEMMA ScreensForgets ==
  ASSUME Base, Base', Linked, Screens, ClientReads, Head(down).kind = "closed"
  PROVE  Linked' /\ Screens'
<1>1. /\ Typed /\ Typed' /\ Fresh /\ Socketed
      /\ Forgets /\ down' = <<>> /\ UNCHANGED <<holder, link, runtime, left>>
  BY ForgetsBase DEF Base, Screens
<1>2. /\ client'.ws = None /\ up' = up
      /\ \A t \in Surfaces :
            client'.view[t] = IF client.view[t].mount # 0 THEN ForgottenView(client.view[t]) ELSE client.view[t]
  BY <1>1 DEF Forgets
<1>3. \A s \in Surfaces : Loose(client.view[s], client'.view[s])
  <2>1. SUFFICES ASSUME NEW s \in Surfaces PROVE Loose(client.view[s], client'.view[s])
    OBVIOUS
  <2>2. client.view[s] \in View /\ client.view[s].size \in Sizes /\ 0 \in Nat
    BY <1>1, ViewsAre DEF View
  <2>3. Loose(client.view[s], client.view[s]) /\ Loose(client.view[s], ForgottenView(client.view[s]))
    BY <2>2, LooseAre
  <2> QED
    BY <1>2, <2>3
<1>4. \A c \in Channels : ~(Reaches(runtime.subs[c].ws)')
  BY <1>1, <1>2, RuntimeIs DEF Socketed, Reaches, None
<1>5. Shortens
  BY <1>1, <1>3, <1>4 DEF Shortens
<1>6. FreshUp
  BY <1>1, <1>2 DEF FreshUp, Fresh
<1> QED
  BY <1>1, <1>5, <1>6, ScreensShort
-----------------------------------------------------------------------------
(* What the browser shows, over the steps that tell it something.            *)
(* A frame that is told is of the runtime as it then is, *)
Now(f) ==
  /\ Addressed(f) => f.chan \in 1..(runtime'.next - 1)
  /\ Shows(f) => Pos(f) = runtime'.offset /\ f.rev = runtime'.rev
  /\ f.kind = "snapshot" => f.screen = {k \in ToldChunks' : k <= f.offset}
  /\ f.kind = "output" => f.chunk \in ToldChunks'
(* an ACK is for a new channel, output for one with a baseline, and the exit   *)
(* the last that is told of one. *)
Lawful(t) ==
  \A i \in 1..Len(t) :
    /\ Now(t[i])
    /\ t[i].kind = "ack" => i = 1 /\ t[i].chan = runtime.next
    /\ t[i].kind = "output" => /\ t[i].chan \in Channels /\ runtime.subs[t[i].chan].ready
                               /\ Reaches(runtime.subs[t[i].chan].ws)
    /\ t[i].kind = "exit" =>
          /\ Over' /\ ToldChunks' = ToldChunks
          /\ t[i].chan \in Channels /\ Reaches(runtime.subs[t[i].chan].ws)
          /\ \/ runtime.subs[t[i].chan].ready
             \/ \E j \in 1..Len(t) : j < i /\ t[j].kind = "snapshot" /\ t[j].chan = t[i].chan
          /\ \A j \in 1..Len(t) : i < j => t[j].kind \in Final
    /\ Over => t[i].kind \in Final
(* A channel that is ready has been told. *)
Served(t, c) ==
  runtime'.subs[c].ready /\ Reaches(runtime'.subs[c].ws) =>
    \/ \E i \in 1..Len(t) : t[i].kind = "snapshot" /\ t[i].chan = c
    \/ /\ c \in Channels /\ runtime.subs[c].ready /\ Reaches(runtime.subs[c].ws)
       /\ \A k \in ToldChunks' \ ToldChunks :
             \E i \in 1..Len(t) : t[i].kind = "output" /\ t[i].chan = c /\ t[i].chunk = k
Later ==
  /\ runtime'.offset >= runtime.offset /\ runtime'.rev >= runtime.rev /\ runtime'.next >= runtime.next
  /\ ToldChunks \subseteq ToldChunks' /\ \A k \in ToldChunks' \ ToldChunks : k > runtime.offset
  /\ Over => runtime'.screen = runtime.screen /\ ToldChunks' = ToldChunks /\ Over'
Grows(t) ==
  /\ Tells(t) /\ client' = client /\ Typed' /\ Linked' /\ Later
  /\ Lawful(t)
  /\ \A c \in DOMAIN runtime'.subs : Served(t, c)

LEMMA RuntimeNext ==
  ASSUME Typed'
  PROVE  /\ runtime'.offset \in Nat /\ runtime'.rev \in Nat /\ runtime'.next \in Nat
         /\ \A c \in DOMAIN runtime'.subs : c \in 1..(runtime'.next - 1) /\ c # None
BY DEF Typed, Sound, Runtime, None

(* The frames are those that were there and those of t. *)
LEMMA GrowFrames ==
  ASSUME Typed, NEW t, Grows(t)
  PROVE  /\ t \in Seq(DownFrame) /\ Len(t) \in Nat /\ Len(down') = Len(down) + Len(t) /\ Len(down) \in Nat
         /\ \A i \in 1..Len(down) : i \in 1..Len(down') /\ down'[i] = down[i]
         /\ \A i \in 1..Len(t) : Len(down) + i \in 1..Len(down') /\ down'[Len(down) + i] = t[i] /\ t[i] \in DownFrame
         /\ \A i \in 1..Len(down') :
               \/ i \in 1..Len(down) /\ down'[i] = down[i]
               \/ \E k \in 1..Len(t) : i = Len(down) + k /\ down'[i] = t[k]
<1>1. down \in Seq(DownFrame) /\ t \in Seq(DownFrame) /\ Len(t) \in Nat /\ down' = down \o t
  BY DEF Grows, Tells, Typed
<1>2. /\ Len(down \o t) = Len(down) + Len(t) /\ Len(down) \in Nat
      /\ \A i \in 1..Len(down) : i \in 1..Len(down \o t) /\ (down \o t)[i] = down[i]
      /\ \A i \in 1..Len(t) : Len(down) + i \in 1..Len(down \o t) /\ (down \o t)[Len(down) + i] = t[i]
      /\ \A i \in 1..Len(down \o t) :
               \/ i \in 1..Len(down) /\ (down \o t)[i] = down[i]
               \/ \E k \in 1..Len(t) : i = Len(down) + k /\ (down \o t)[i] = t[k]
  <2>1. down \in Seq(DownFrame) /\ t \in Seq(DownFrame)
    BY <1>1
  <2> QED
    BY <2>1, JoinedAt
<1>3. \A i \in 1..Len(t) : t[i] \in DownFrame
  BY <1>1
<1> QED
  BY <1>1, <1>2, <1>3

LEMMA GrowUpTo ==
  ASSUME Typed, Typed', Later, NEW e \in Nat, e <= runtime.offset
  PROVE  {k \in ToldChunks' : k <= e} = UpTo(e)
<1>1. \A k \in ToldChunks' : k <= e => k \in ToldChunks
  <2>1. \A k \in ToldChunks' : k \in Nat
    <3>1. runtime'.screen \subseteq Nat /\ runtime'.inbox \in Seq(Nat)
      BY DEF Typed, Sound, Runtime
    <3>2. \A i \in 1..Len(runtime'.inbox) : runtime'.inbox[i] \in Nat
      BY <3>1
    <3> QED
      BY <3>1, <3>2, ToldAreNext
  <2> QED
    BY <2>1, RuntimeIs DEF Later
<1> QED
  BY <1>1 DEF Later, UpTo

LEMMA GrowShown ==
  ASSUME Typed, Shown, Ended, NEW t, Grows(t)
  PROVE  Shown'
<1>1. Typed' /\ client' = client /\ Later /\ Lawful(t)
  BY DEF Grows
<1>2. /\ runtime.offset \in Nat /\ runtime.rev \in Nat /\ runtime'.offset \in Nat /\ runtime'.rev \in Nat
      /\ runtime'.offset >= runtime.offset /\ runtime'.rev >= runtime.rev
      /\ ToldChunks \subseteq ToldChunks'
  BY <1>1, RuntimeIs, RuntimeNext DEF Later
<1>3. \A e \in Nat : e <= runtime.offset => {k \in ToldChunks' : k <= e} = UpTo(e)
  BY <1>1, GrowUpTo
<1>4. ASSUME NEW s \in Surfaces
      PROVE  LET v == client.view[s] IN
             /\ v.expected <= runtime'.offset /\ v.rev <= runtime'.rev
             /\ v.phase = "live" => v.shown = {k \in ToldChunks' : k <= v.expected}
             /\ v.ended => v.shown = runtime'.screen
  <2> DEFINE v == client.view[s]
  <2>1. /\ v.expected <= runtime.offset /\ v.rev <= runtime.rev /\ v.expected \in Nat /\ v.rev \in Nat
        /\ v.phase = "live" => v.shown = UpTo(v.expected)
        /\ v.ended => v.shown = runtime.screen /\ Over
    BY ViewsAre DEF Shown, Ended
  <2>2. Over => runtime'.screen = runtime.screen
    BY <1>1 DEF Later
  <2> HIDE DEF v
  <2> QED
    BY <1>2, <1>3, <2>1, <2>2 DEF v
<1>5. ASSUME NEW i \in 1..Len(down')
      PROVE  LET f == down'[i] IN
             /\ Shows(f) => Pos(f) <= runtime'.offset /\ f.rev <= runtime'.rev
             /\ f.kind = "snapshot" => f.screen = {k \in ToldChunks' : k <= f.offset}
             /\ f.kind = "output" => f.chunk \in ToldChunks'
  <2>1. CASE i \in 1..Len(down) /\ down'[i] = down[i]
    <3> DEFINE f == down[i]
    <3>1. /\ Shows(f) => Pos(f) <= runtime.offset /\ f.rev <= runtime.rev /\ Pos(f) \in Nat /\ f.rev \in Nat
          /\ f.kind = "snapshot" => f.screen = UpTo(f.offset) /\ Shows(f) /\ Pos(f) = f.offset
          /\ f.kind = "output" => f.chunk \in ToldChunks
      <4>1. f \in DownFrame
        BY <2>1, FramesAre
      <4>2. /\ Shows(f) => Pos(f) <= runtime.offset /\ f.rev <= runtime.rev
            /\ f.kind = "snapshot" => f.screen = UpTo(f.offset)
            /\ f.kind = "output" => f.chunk \in ToldChunks
        BY <2>1 DEF Shown
      <4>3. Shows(f) => Pos(f) \in Nat /\ f.rev \in Nat
        BY <4>1, KindIs
      <4>4. f.kind = "snapshot" => Shows(f) /\ Pos(f) = f.offset
        BY DEF Shows, Pos
      <4> QED
        BY <4>2, <4>3, <4>4
    <3>2. down'[i] = f
      BY <2>1
    <3> HIDE DEF f
    <3>3. Shows(f) => Pos(f) <= runtime'.offset /\ f.rev <= runtime'.rev
      BY <1>2, <3>1
    <3>4. f.kind = "snapshot" => f.screen = {k \in ToldChunks' : k <= f.offset}
      BY <1>3, <3>1
    <3>5. f.kind = "output" => f.chunk \in ToldChunks'
      BY <1>2, <3>1
    <3> QED
      BY <3>2, <3>3, <3>4, <3>5
  <2>2. ASSUME NEW j \in 1..Len(t), down'[i] = t[j]
        PROVE  LET f == down'[i] IN
             /\ Shows(f) => Pos(f) <= runtime'.offset /\ f.rev <= runtime'.rev
             /\ f.kind = "snapshot" => f.screen = {k \in ToldChunks' : k <= f.offset}
             /\ f.kind = "output" => f.chunk \in ToldChunks'
    <3>1. Now(t[j])
      BY <1>1 DEF Lawful
    <3> QED
      BY <1>2, <2>2, <3>1 DEF Now
  <2> QED
    BY <2>1, <2>2, GrowFrames
<1>6. client'.view = client.view
  BY <1>1
<1> QED
  BY <1>4, <1>5, <1>6 DEF Shown, UpTo, Shows, Pos

LEMMA GrowAscending ==
  ASSUME Typed, Shown, Ascending, NEW t, Grows(t)
  PROVE  Ascending'
<1>1. Typed' /\ client' = client /\ Later /\ Lawful(t)
  BY DEF Grows
<1>2. /\ runtime.offset \in Nat /\ runtime.rev \in Nat /\ runtime'.offset \in Nat /\ runtime'.rev \in Nat
      /\ runtime'.offset >= runtime.offset /\ runtime'.rev >= runtime.rev
  BY <1>1, RuntimeIs, RuntimeNext DEF Later
<1>3. \A i \in 1..Len(down') :
        \/ i \in 1..Len(down) /\ down'[i] = down[i]
        \/ i \notin 1..Len(down) /\ i > Len(down) /\ (Shows(down'[i]) => Pos(down'[i]) = runtime'.offset /\ down'[i].rev = runtime'.rev)
  <2>1. SUFFICES ASSUME NEW i \in 1..Len(down'), NEW k \in 1..Len(t), i = Len(down) + k, down'[i] = t[k]
                 PROVE  i \notin 1..Len(down) /\ i > Len(down) /\ (Shows(down'[i]) => Pos(down'[i]) = runtime'.offset /\ down'[i].rev = runtime'.rev)
    BY GrowFrames
  <2>2. Now(t[k]) /\ Len(down) \in Nat
    BY <1>1, FramesAre DEF Lawful
  <2> QED
    BY <2>1, <2>2 DEF Now
<1>4. \A i \in 1..Len(down') : Shows(down'[i]) => Pos(down'[i]) <= runtime'.offset /\ down'[i].rev <= runtime'.rev
  <2>1. SUFFICES ASSUME NEW i \in 1..Len(down'), Shows(down'[i]), i \in 1..Len(down), down'[i] = down[i]
                 PROVE  Pos(down'[i]) <= runtime'.offset /\ down'[i].rev <= runtime'.rev
    BY <1>2, <1>3
  <2>2. Pos(down[i]) <= runtime.offset /\ down[i].rev <= runtime.rev
    BY <2>1 DEF Shown
  <2>3. Pos(down[i]) \in Nat /\ down[i].rev \in Nat
    BY <2>1, FramesAre, KindIs
  <2> QED
    BY <1>2, <2>1, <2>2, <2>3
<1>5. ASSUME NEW i \in 1..Len(down'), NEW j \in 1..Len(down'), i < j, Shows(down'[i]), Shows(down'[j])
      PROVE  Pos(down'[i]) <= Pos(down'[j]) /\ down'[i].rev <= down'[j].rev
  <2>1. CASE j \in 1..Len(down)
    <3>1. i \in 1..Len(down)
      BY <1>5, <2>1, FramesAre
    <3> QED
      BY <1>3, <1>5, <2>1, <3>1 DEF Ascending
  <2>2. CASE j \notin 1..Len(down)
    BY <1>3, <1>4, <1>5, <2>2
  <2> QED
    BY <2>1, <2>2
<1>6. ASSUME NEW s \in Surfaces, NEW i \in 1..Len(down'), Shows(down'[i])
      PROVE  client.view[s].expected <= Pos(down'[i]) /\ client.view[s].rev <= down'[i].rev
  <2>1. CASE i \in 1..Len(down)
    BY <1>3, <1>6, <2>1 DEF Ascending
  <2>2. CASE i \notin 1..Len(down)
    <3>1. client.view[s].expected <= runtime.offset /\ client.view[s].rev <= runtime.rev
          /\ client.view[s].expected \in Nat /\ client.view[s].rev \in Nat
      BY ViewsAre DEF Shown
    <3> QED
      BY <1>2, <1>3, <1>6, <2>2, <3>1
  <2> QED
    BY <2>1, <2>2
<1>7. client'.view = client.view
  BY <1>1
<1> QED
  BY <1>5, <1>6, <1>7 DEF Ascending, Shows, Pos

LEMMA GrowFresh ==
  ASSUME Typed, Fresh, NEW t, Grows(t),
         Len(up') = Len(up),
         \A w \in 1..Len(up) : \A i \in 1..Len(up'[w]) : \E j \in 1..Len(up[w]) : up'[w][i] = up[w][j]
  PROVE  Fresh'
<1>1. Typed' /\ client' = client /\ Later /\ Lawful(t)
  BY DEF Grows
<1>2. runtime.next \in Nat /\ runtime'.next \in Nat /\ runtime'.next >= runtime.next
  BY <1>1, RuntimeIs, RuntimeNext DEF Later
<1>3. \A i \in 1..Len(down') : Addressed(down'[i]) => down'[i].chan \in 1..(runtime'.next - 1)
  <2>1. SUFFICES ASSUME NEW i \in 1..Len(down'), Addressed(down'[i]) PROVE down'[i].chan \in 1..(runtime'.next - 1)
    OBVIOUS
  <2>2. CASE i \in 1..Len(down) /\ down'[i] = down[i]
    BY <1>2, <2>1, <2>2 DEF Fresh
  <2>3. ASSUME NEW k \in 1..Len(t), down'[i] = t[k] PROVE down'[i].chan \in 1..(runtime'.next - 1)
    BY <1>1, <2>1, <2>3 DEF Lawful, Now
  <2> QED
    BY <2>2, <2>3, GrowFrames
<1>4. \A w \in 1..Len(up') : \A i \in 1..Len(up'[w]) :
          up'[w][i].kind \in {"unsubscribe", "resize"} => up'[w][i].chan \in 1..(runtime'.next - 1)
  <2>1. SUFFICES ASSUME NEW w \in 1..Len(up), NEW i \in 1..Len(up'[w]), up'[w][i].kind \in {"unsubscribe", "resize"}
                 PROVE  up'[w][i].chan \in 1..(runtime'.next - 1)
    OBVIOUS
  <2>2. PICK j \in 1..Len(up[w]) : up'[w][i] = up[w][j]
    BY <2>1
  <2> QED
    <3>1. up[w][j].chan \in 1..(runtime.next - 1)
      BY <2>1, <2>2 DEF Fresh
    <3> QED
      BY <1>2, <2>2, <3>1
<1>5. \A s \in Surfaces : client'.view[s].chan \in 0..(runtime'.next - 1)
  BY <1>1, <1>2 DEF Fresh
<1> QED
  BY <1>3, <1>4, <1>5 DEF Fresh, Addressed

LEMMA GrowAckFirst ==
  ASSUME Typed, Fresh, AckFirst, NEW t, Grows(t)
  PROVE  AckFirst'
<1>1. Typed' /\ client' = client /\ Later /\ Lawful(t)
  BY DEF Grows
<1>2. runtime.next \in Nat /\ \A i \in 1..Len(down) : Addressed(down[i]) => down[i].chan \in 1..(runtime.next - 1)
  BY RuntimeIs DEF Fresh
<1>3. Len(down) \in Nat /\ \A i \in 1..Len(down') :
               \/ i \in 1..Len(down) /\ down'[i] = down[i]
               \/ /\ i > Len(down) /\ i \notin 1..Len(down)
                  /\ down'[i].kind = "ack" => i = Len(down) + 1 /\ down'[i].chan = runtime.next
  <2>1. SUFFICES ASSUME NEW i \in 1..Len(down'), NEW k \in 1..Len(t), i = Len(down) + k, down'[i] = t[k]
                 PROVE  /\ i > Len(down) /\ i \notin 1..Len(down)
                        /\ down'[i].kind = "ack" => i = Len(down) + 1 /\ down'[i].chan = runtime.next
    BY GrowFrames
  <2>2. Len(down) \in Nat /\ (t[k].kind = "ack" => k = 1 /\ t[k].chan = runtime.next)
    BY <1>1, FramesAre DEF Lawful
  <2> QED
    BY <2>1, <2>2
<1>4. ASSUME NEW i \in 1..Len(down'), down'[i].kind = "ack"
      PROVE  /\ \A j \in 1..Len(down') :
                j # i /\ Addressed(down'[j]) /\ down'[j].chan = down'[i].chan => i < j /\ down'[j].kind # "ack"
             /\ \A s \in Surfaces : client.view[s].chan # down'[i].chan
  <2>1. CASE i \in 1..Len(down)
    <3>0. down'[i] = down[i] /\ Addressed(down[i])
      BY <1>3, <1>4, <2>1 DEF Addressed
    <3>1. ASSUME NEW j \in 1..Len(down'), j # i, Addressed(down'[j]), down'[j].chan = down'[i].chan
          PROVE  i < j /\ down'[j].kind # "ack"
      <4>1. CASE j \in 1..Len(down)
        BY <1>3, <1>4, <2>1, <3>0, <3>1, <4>1 DEF AckFirst
      <4>2. CASE j \notin 1..Len(down)
        <5>1. j > Len(down) /\ (down'[j].kind = "ack" => down'[j].chan = runtime.next)
          BY <1>3, <4>2
        <5>2. down[i].chan # runtime.next
          BY <1>2, <2>1, <3>0
        <5> QED
          BY <1>3, <2>1, <3>0, <3>1, <5>1, <5>2
      <4> QED
        BY <4>1, <4>2
    <3>2. \A s \in Surfaces : client.view[s].chan # down'[i].chan
      BY <1>4, <2>1, <3>0 DEF AckFirst
    <3> QED
      BY <3>1, <3>2
  <2>2. CASE i \notin 1..Len(down)
    <3>0. i = Len(down) + 1 /\ down'[i].chan = runtime.next
      BY <1>3, <1>4, <2>2
    <3>1. ASSUME NEW j \in 1..Len(down'), j # i, Addressed(down'[j]), down'[j].chan = down'[i].chan
          PROVE  i < j /\ down'[j].kind # "ack"
      <4>1. CASE j \in 1..Len(down)
        BY <1>2, <1>3, <3>0, <3>1, <4>1
      <4>2. CASE j \notin 1..Len(down)
        BY <1>3, <3>0, <3>1, <4>2
      <4> QED
        BY <4>1, <4>2
    <3>2. \A s \in Surfaces : client.view[s].chan # down'[i].chan
      BY <1>2, <3>0 DEF Fresh
    <3> QED
      BY <3>1, <3>2
  <2> QED
    BY <2>1, <2>2
<1>5. client'.view = client.view
  BY <1>1
<1> QED
  BY <1>4, <1>5 DEF AckFirst, Addressed

LEMMA GrowTold ==
  ASSUME Typed, NEW t, Grows(t), NEW c, c # runtime.next, NEW i \in Nat, NEW n \in Nat, i <= n
  PROVE  /\ Based(c, i) => Based(c, n)'
         /\ \A k : Heard(c, k, i) => Heard(c, k, n)'
<1>1. client' = client /\ Lawful(t)
  BY DEF Grows
<1>2. /\ \A j \in 1..Len(down) : j \in 1..Len(down') /\ down'[j] = down[j]
      /\ \A j \in 1..Len(down') :
               \/ j \in 1..Len(down) /\ down'[j] = down[j]
               \/ \E k \in 1..Len(t) : down'[j] = t[k]
  BY GrowFrames
<1>3. \A k \in 1..Len(t) : t[k] # Ack(c)
  <2>1. SUFFICES ASSUME NEW k \in 1..Len(t), t[k] = Ack(c) PROVE FALSE
    OBVIOUS
  <2>2. t[k].kind = "ack" /\ t[k].chan = c
    BY <2>1 DEF Ack
  <2> QED
    BY <1>1, <2>2 DEF Lawful
<1>4. Opened(c) => Opened(c)'
  <2>1. SUFFICES ASSUME Opened(c) PROVE \A j \in 1..Len(down') : down'[j] # Ack(c)
    BY DEF Opened, Ack
  <2> QED
    BY <1>2, <1>3, <2>1 DEF Opened
<1>5. client'.view = client.view
  BY <1>1
<1>6. \A j \in 1..Len(down) : j < i => j < n
  BY FramesAre
<1>7. ASSUME Based(c, i) PROVE Based(c, n)'
  <2>1. CASE \E j \in 1..Len(down) : j < i /\ down[j].kind = "snapshot" /\ down[j].chan = c
    <3>1. \E j \in 1..Len(down') : j < n /\ down'[j].kind = "snapshot" /\ down'[j].chan = c
      BY <1>2, <1>6, <2>1
    <3> QED
      BY <3>1 DEF Based
  <2>2. CASE Opened(c) /\ \A s \in Surfaces : client.view[s].chan = c => client.view[s].phase = "live"
    <3>1. Opened(c)' /\ \A s \in Surfaces : client'.view[s].chan = c => client'.view[s].phase = "live"
      BY <1>4, <1>5, <2>2
    <3> QED
      BY <3>1 DEF Based
  <2> QED
    BY <1>7, <2>1, <2>2 DEF Based
<1>8. ASSUME NEW k, Heard(c, k, i) PROVE Heard(c, k, n)'
  <2>1. CASE \E j \in 1..Len(down) :
              /\ j < i /\ Shows(down[j]) /\ down[j].chan = c
              /\ IF down[j].kind = "snapshot" THEN k <= down[j].offset ELSE k = down[j].chunk
    <3>1. \E j \in 1..Len(down') :
              /\ j < n /\ Shows(down'[j]) /\ down'[j].chan = c
              /\ IF down'[j].kind = "snapshot" THEN k <= down'[j].offset ELSE k = down'[j].chunk
      BY <1>2, <1>6, <2>1
    <3> QED
      BY <3>1 DEF Heard, Shows
  <2>2. CASE Opened(c) /\ \A s \in Surfaces : client.view[s].chan = c => k <= client.view[s].expected
    <3>1. Opened(c)' /\ \A s \in Surfaces : client'.view[s].chan = c => k <= client'.view[s].expected
      BY <1>4, <1>5, <2>2
    <3> QED
      BY <3>1 DEF Heard
  <2> QED
    BY <1>8, <2>1, <2>2 DEF Heard
<1> QED
  BY <1>7, <1>8
(* A snapshot among what is told gives a channel everything. *)
LEMMA GrowGiven ==
  ASSUME Typed, NEW t, Grows(t), NEW i \in 1..Len(t), t[i].kind = "snapshot", NEW c, t[i].chan = c,
         NEW n \in Nat, Len(down) + i < n
  PROVE  Based(c, n)' /\ \A k \in ToldChunks' : Heard(c, k, n)'
<1> DEFINE m == Len(down) + i
<1>1. m \in 1..Len(down') /\ down'[m] = t[i]
  BY GrowFrames
<1>2. Now(t[i]) /\ Linked'
  BY DEF Grows, Lawful
<1>3. t[i].offset = runtime'.offset
  BY <1>2 DEF Now, Shows, Pos
<1>4. \A k \in ToldChunks' : k <= t[i].offset
  <2>1. ToldChunks' \subseteq 1..runtime'.offset
    BY <1>2 DEF Linked
  <2>2. runtime'.offset \in Nat
    BY RuntimeNext DEF Grows
  <2> QED
    BY <1>3, <2>1, <2>2
<1> HIDE DEF m
<1>5. m < n
  BY DEF m
<1>6. \E j \in 1..Len(down') : j < n /\ down'[j].kind = "snapshot" /\ down'[j].chan = c
  BY <1>1, <1>5
<1>7. \A k \in ToldChunks' : \E j \in 1..Len(down') :
              /\ j < n /\ Shows(down'[j]) /\ down'[j].chan = c
              /\ IF down'[j].kind = "snapshot" THEN k <= down'[j].offset ELSE k = down'[j].chunk
  BY <1>1, <1>4, <1>5 DEF Shows
<1> QED
  BY <1>6, <1>7 DEF Based, Heard, Shows

(* A channel that had its baseline still has. *)
LEMMA GrowReady ==
  ASSUME Typed, Story, NEW t, Grows(t), NEW c \in Channels, runtime.subs[c].ready, Reaches(runtime.subs[c].ws),
         NEW n \in Nat, Len(down) < n
  PROVE  Based(c, n)' /\ \A k \in ToldChunks : Heard(c, k, n)'
<1>1. PICK i : i = Len(down) + 1
  OBVIOUS
<1>2. i \in Nat /\ i <= n
  BY <1>1, FramesAre
<1>3. Based(c, i) /\ \A k \in ToldChunks : Heard(c, k, i)
  BY <1>1 DEF Story
<1>4. c # runtime.next
  BY RuntimeIs
<1> QED
  BY <1>2, <1>3, <1>4, GrowTold

LEMMA GrowStory ==
  ASSUME Typed, Fresh, Story, Ended, NEW t, Grows(t)
  PROVE  Story'
<1>1. Typed' /\ client' = client /\ Later /\ Lawful(t) /\ Len(down) \in Nat /\ runtime.next \in Nat /\ Len(down') = Len(down) + Len(t) /\ Len(t) \in Nat
  BY GrowFrames, RuntimeIs DEF Grows
<1>2. ASSUME NEW i \in 1..Len(down), Addressed(down[i])
      PROVE  down[i].chan # runtime.next /\ i \in Nat /\ down'[i] = down[i]
  BY <1>1, <1>2, GrowFrames DEF Fresh
<1>3. ASSUME NEW i \in 1..Len(down'), down'[i].kind = "output" PROVE Based(down[i].chan, i)'
  <2>1. PICK c : c = down'[i].chan
    OBVIOUS
  <2>2. ASSUME i \in 1..Len(down), down'[i] = down[i] PROVE Based(c, i)'
    <3>1. c # runtime.next /\ i \in Nat /\ Based(c, i)
      BY <1>2, <1>3, <2>1, <2>2 DEF Addressed, Story
    <3>2. i <= i
      BY <3>1
    <3> QED
      BY <3>1, <3>2, GrowTold
  <2>3. ASSUME NEW k \in 1..Len(t), i = Len(down) + k, down'[i] = t[k] PROVE Based(c, i)'
    <3>1. c \in Channels /\ runtime.subs[c].ready /\ Reaches(runtime.subs[c].ws)
      BY <1>1, <1>3, <2>1, <2>3 DEF Lawful
    <3>2. i \in Nat /\ Len(down) < i
      BY <1>1, <2>3
    <3> QED
      BY <3>1, <3>2, GrowReady
  <2>4. \/ i \in 1..Len(down) /\ down'[i] = down[i]
        \/ \E k \in 1..Len(t) : i = Len(down) + k /\ down'[i] = t[k]
    BY GrowFrames
  <2>5. Based(c, i)'
    BY <2>2, <2>3, <2>4
  <2> QED
    BY <2>1, <2>5 DEF Based
<1>4. ASSUME NEW i \in 1..Len(down'), down'[i].kind = "exit"
      PROVE  Based(down[i].chan, i)' /\ \A k \in ToldChunks' : Heard(down[i].chan, k, i)'
  <2>1. PICK c : c = down'[i].chan
    OBVIOUS
  <2>2. ASSUME i \in 1..Len(down), down'[i] = down[i]
        PROVE  Based(c, i)' /\ \A x \in ToldChunks' : Heard(c, x, i)'
    <3>1. c # runtime.next /\ i \in Nat /\ Based(c, i) /\ (\A k \in ToldChunks : Heard(c, k, i)) /\ Over
      BY <1>2, <1>4, <2>1, <2>2 DEF Addressed, Story, Ended
    <3>4. i <= i
      BY <3>1
    <3>2. Based(c, i)' /\ (\A k \in ToldChunks : Heard(c, k, i)')
      BY <3>1, <3>4, GrowTold
    <3>3. ToldChunks' = ToldChunks
      BY <1>1, <3>1 DEF Later
    <3> QED
      BY <3>2, <3>3
  <2>3. ASSUME NEW k \in 1..Len(t), i = Len(down) + k, down'[i] = t[k]
        PROVE  Based(c, i)' /\ \A x \in ToldChunks' : Heard(c, x, i)'
    <3>1. /\ ToldChunks' = ToldChunks /\ c \in Channels /\ Reaches(runtime.subs[c].ws)
          /\ \/ runtime.subs[c].ready
             \/ \E j \in 1..Len(t) : j < k /\ t[j].kind = "snapshot" /\ t[j].chan = c
      BY <1>1, <1>4, <2>1, <2>3 DEF Lawful
    <3>2. i \in Nat /\ Len(down) < i
      BY <1>1, <2>3
    <3>3. CASE runtime.subs[c].ready
      <4>1. Based(c, i)' /\ \A x \in ToldChunks : Heard(c, x, i)'
        BY <3>1, <3>2, <3>3, GrowReady
      <4> QED
        BY <3>1, <4>1
    <3>4. ASSUME NEW j \in 1..Len(t), j < k, t[j].kind = "snapshot", t[j].chan = c
          PROVE  Based(c, i)' /\ \A x \in ToldChunks' : Heard(c, x, i)'
      <4>1. Len(down) + j < i
        BY <1>1, <2>3, <3>4
      <4> QED
        BY <3>2, <3>4, <4>1, GrowGiven
    <3> QED
      BY <3>1, <3>3, <3>4
  <2>4. Based(c, i)' /\ \A x \in ToldChunks' : Heard(c, x, i)'
    <3>1. \/ i \in 1..Len(down) /\ down'[i] = down[i]
          \/ \E k \in 1..Len(t) : i = Len(down) + k /\ down'[i] = t[k]
      BY GrowFrames
    <3> QED
      BY <2>2, <2>3, <3>1
  <2> QED
    BY <2>1, <2>4 DEF Based, Heard
<1>5. ASSUME NEW c \in DOMAIN runtime'.subs, runtime'.subs[c].ready, Reaches(runtime'.subs[c].ws)
      PROVE  Based(c, Len(down) + 1)' /\ \A k \in ToldChunks' : Heard(c, k, Len(down) + 1)'
  <2>1. PICK n : n = Len(down') + 1
    OBVIOUS
  <2>2. n \in Nat /\ Len(down) < n /\ \A i \in 1..Len(t) : Len(down) + i < n
    BY <1>1, <2>1
  <2>3. \/ \E i \in 1..Len(t) : t[i].kind = "snapshot" /\ t[i].chan = c
        \/ /\ c \in Channels /\ runtime.subs[c].ready /\ Reaches(runtime.subs[c].ws)
           /\ \A k \in ToldChunks' \ ToldChunks :
                 \E i \in 1..Len(t) : t[i].kind = "output" /\ t[i].chan = c /\ t[i].chunk = k
    BY <1>5 DEF Grows, Served
  <2>4. ASSUME NEW i \in 1..Len(t), t[i].kind = "snapshot", t[i].chan = c
        PROVE  Based(c, n)' /\ \A k \in ToldChunks' : Heard(c, k, n)'
    BY <2>2, <2>4, GrowGiven
  <2>5. ASSUME c \in Channels, runtime.subs[c].ready, Reaches(runtime.subs[c].ws),
               \A k \in ToldChunks' \ ToldChunks :
                   \E i \in 1..Len(t) : t[i].kind = "output" /\ t[i].chan = c /\ t[i].chunk = k
        PROVE  Based(c, n)' /\ \A k \in ToldChunks' : Heard(c, k, n)'
    <3>1. Based(c, n)' /\ \A k \in ToldChunks : Heard(c, k, n)'
      BY <2>2, <2>5, GrowReady
    <3>2. ASSUME NEW k \in ToldChunks' \ ToldChunks PROVE Heard(c, k, n)'
      <4>1. PICK i \in 1..Len(t) : t[i].kind = "output" /\ t[i].chan = c /\ t[i].chunk = k
        BY <2>5, <3>2
      <4>2. \E j \in 1..Len(down') :
              /\ j < n /\ Shows(down'[j]) /\ down'[j].chan = c
              /\ IF down'[j].kind = "snapshot" THEN k <= down'[j].offset ELSE k = down'[j].chunk
        BY <2>2, <4>1, GrowFrames DEF Shows
      <4> QED
        BY <4>2 DEF Heard, Shows
    <3>3. ASSUME NEW k \in ToldChunks' PROVE Heard(c, k, n)'
      <4>1. CASE k \in ToldChunks
        BY <3>1, <4>1
      <4>2. CASE k \notin ToldChunks
        BY <3>2, <4>2
      <4> QED
        BY <4>1, <4>2
    <3>4. Based(c, n)'
      BY <3>1
    <3> QED
      BY <3>3, <3>4
  <2>6. Based(c, n)' /\ \A k \in ToldChunks' : Heard(c, k, n)'
    <3>1. CASE \E i \in 1..Len(t) : t[i].kind = "snapshot" /\ t[i].chan = c
      <4>1. PICK i \in 1..Len(t) : t[i].kind = "snapshot" /\ t[i].chan = c
        BY <3>1
      <4> QED
        BY <2>4, <4>1
    <3> QED
      BY <2>3, <2>5, <3>1
  <2> QED
    BY <2>1, <2>6 DEF Based, Heard
<1>6. \A w : Reaches(w)' = Reaches(w)
  BY <1>1 DEF Reaches
<1>7. \A c \in Channels' : runtime'.subs[c].ready /\ Reaches(runtime.subs[c].ws)' =>
          Based(c, Len(down) + 1)' /\ \A k \in ToldChunks' : Heard(c, k, Len(down) + 1)'
  BY <1>1, <1>5 DEF Channels, Reaches
<1> QED
  BY <1>3, <1>4, <1>7 DEF Story, Based, Heard, Opened, Shows, Reaches

LEMMA GrowEnded ==
  ASSUME Typed, Ended, NEW t, Grows(t)
  PROVE  Ended'
<1>1. Typed' /\ client' = client /\ Later /\ Lawful(t) /\ Len(down) \in Nat
  BY GrowFrames DEF Grows
<1>2. \A i \in 1..Len(down') :
               \/ i \in 1..Len(down) /\ down'[i] = down[i]
               \/ \E k \in 1..Len(t) : i = Len(down) + k /\ down'[i] = t[k]
  BY GrowFrames
<1>3. ASSUME Over, \A j \in 1..Len(down) : down[j].kind \in Final
      PROVE  \A j \in 1..Len(down') : down'[j].kind \in Final
  BY <1>1, <1>2, <1>3 DEF Lawful
<1>4. ASSUME NEW i \in 1..Len(down'), down'[i].kind = "exit"
      PROVE  Over' /\ \A j \in 1..Len(down') : i < j => down'[j].kind \in Final
  <2>1. CASE i \in 1..Len(down) /\ down'[i] = down[i]
    <3>1. Over /\ Over' /\ \A j \in 1..Len(down) : i < j => down[j].kind \in Final
      BY <1>1, <1>4, <2>1 DEF Ended, Later
    <3> QED
      BY <1>1, <1>2, <3>1 DEF Lawful
  <2>2. ASSUME NEW k \in 1..Len(t), i = Len(down) + k, down'[i] = t[k]
        PROVE  Over' /\ \A j \in 1..Len(down') : i < j => down'[j].kind \in Final
    <3>1. Over' /\ \A m \in 1..Len(t) : k < m => t[m].kind \in Final
      BY <1>1, <1>4, <2>2 DEF Lawful
    <3> QED
      BY <1>1, <1>2, <2>2, <3>1
  <2> QED
    BY <1>2, <2>1, <2>2
<1>5. ASSUME NEW s \in Surfaces, client'.view[s].ended
      PROVE  Over' /\ \A j \in 1..Len(down') : down'[j].kind \in Final
  <2>1. Over /\ \A j \in 1..Len(down) : down[j].kind \in Final
    BY <1>1, <1>5 DEF Ended
  <2> QED
    BY <1>1, <1>3, <2>1 DEF Later
<1> QED
  BY <1>4, <1>5 DEF Ended, Final

LEMMA ScreensGrow ==
  ASSUME Typed, Screens, NEW t, Grows(t), Len(up') = Len(up),
         \A w \in 1..Len(up) : \A i \in 1..Len(up'[w]) : \E j \in 1..Len(up[w]) : up'[w][i] = up[w][j]
  PROVE  Screens'
BY GrowShown, GrowAscending, GrowFresh, GrowAckFirst, GrowStory, GrowEnded DEF Screens
-----------------------------------------------------------------------------
(* Each step that tells, and what it tells.                                   *)
(* A snapshot of a screen that has caught up. *)
LEMMA SnapshotNow ==
  ASSUME Typed', Linked', runtime'.inbox = <<>>, NEW r, r.screen = runtime'.screen,
         r.offset = runtime'.offset, r.rev = runtime'.rev, NEW c \in 1..(runtime'.next - 1)
  PROVE  Now(Snapshot(r, c))
<1> DEFINE f == Snapshot(r, c)
<1>1. f.kind = "snapshot" /\ f.chan = c /\ f.rev = r.rev /\ f.offset = r.offset /\ f.screen = r.screen
  BY DEF Snapshot
<1>2. \A k : k \in ToldChunks' <=> k \in runtime'.screen
  <2>1. None \notin runtime'.screen
    BY DEF Linked
  <2>2. \A i \in 1..Len(runtime'.inbox) : FALSE
    OBVIOUS
  <2> QED
    BY <2>1, <2>2, ToldAreNext
<1>3. \A k \in ToldChunks' : k <= runtime'.offset
  <2>1. ToldChunks' \subseteq 1..runtime'.offset
    BY DEF Linked
  <2>2. runtime'.offset \in Nat
    BY RuntimeNext
  <2> QED
    BY <2>1, <2>2
<1> HIDE DEF f
<1>4. f.screen = {k \in ToldChunks' : k <= f.offset}
  BY <1>1, <1>2, <1>3
<1> QED
  BY <1>1, <1>4 DEF Now, Shows, Pos, f

(* Nothing is told where nothing new is to be told. *)
LEMMA GrowsNothing ==
  ASSUME Typed, Typed', Linked', Untold, client' = client, Later, ToldChunks' = ToldChunks,
         \A c \in DOMAIN runtime'.subs :
             runtime'.subs[c].ready =>
                 /\ c \in Channels /\ runtime.subs[c].ready
                 /\ runtime'.subs[c].ws = runtime.subs[c].ws
  PROVE  Grows(<<>>)
<1>1. Tells(<<>>)
  BY UntoldIs
<1>2. Lawful(<<>>)
  BY DEF Lawful
<1>3. \A c \in DOMAIN runtime'.subs : Served(<<>>, c)
  BY DEF Served
<1> QED
  BY <1>1, <1>2, <1>3 DEF Grows

LEMMA LaterSame ==
  ASSUME Typed, ToldChunks' = ToldChunks, runtime'.offset >= runtime.offset, runtime'.rev >= runtime.rev,
         runtime'.next >= runtime.next, Over => runtime'.screen = runtime.screen /\ Over'
  PROVE  Later
BY DEF Later

LEMMA GrowsQuiet ==
  ASSUME Typed, Typed', Linked, Linked', Quiet
  PROVE  Grows(<<>>) /\ up' = up
<1>1. /\ UNCHANGED <<up, down, client>>
      /\ runtime'.subs = runtime.subs /\ runtime'.life = runtime.life /\ runtime'.screen = runtime.screen
      /\ runtime'.next = runtime.next /\ runtime'.rev = runtime.rev
  BY QuietIs
<1>2. runtime.offset \in Nat /\ runtime.rev \in Nat /\ runtime.next \in Nat
  BY RuntimeIs
<1>3. runtime'.offset >= runtime.offset /\ ToldChunks' = ToldChunks
  <2>1. CASE Attach
    <3>1. runtime \in Runtime /\ holder \in Holder
      BY DEF Typed, Sound
    <3>2. runtime.inbox = <<>> /\ runtime'.offset = holder.emitted /\ runtime'.inbox = <<None>>
      BY <2>1, <3>1 DEF Attach, Drained, Runtime
    <3>3. holder.emitted >= runtime.offset
      BY <1>2, <3>1 DEF Linked, Holder
    <3> QED
      BY <1>1, <3>2, <3>3, ToldAttach
  <2>2. CASE ~Attach
    <3>1. runtime' = runtime
      BY <2>2 DEF Quiet, Emit, ChildExits, HolderEnds, HolderResizes, LinkDrops, LinkEnds, Adopted, FinishRecovery
    <3> QED
      BY <1>2, <3>1, ToldSame
  <2> QED
    BY <2>1, <2>2
<1>4. Later
  BY <1>1, <1>2, <1>3, LaterSame DEF Over
<1> QED
  BY <1>1, <1>3, <1>4, GrowsNothing DEF Untold, Channels

LEMMA OutputsAre ==
  ASSUME NEW r, NEW c, NEW k
  PROVE  LET f == Output(r, c, k)
         IN  f.kind = "output" /\ f.chan = c /\ f.rev = r.rev /\ f.chunk = k
BY DEF Output

LEMMA GrowsReceive ==
  ASSUME Typed, Linked, Linked', ReceiveOutput
  PROVE  \E t : Grows(t) /\ up' = up
<1>1. PICK k : k = Head(link.out)
  OBVIOUS
<1>2. PICK told : told = Reached(runtime, Channels \ Waiting(runtime))
  OBVIOUS
<1>3. PICK t : t = [i \in 1..Len(told) |-> Output(runtime, told[i], k)]
  OBVIOUS
<1>4. /\ Tells(t) /\ Len(t) = Len(told) /\ Len(told) \in Nat
      /\ \A i \in 1..Len(told) : told[i] \in Channels /\ runtime.subs[told[i]].ready /\ Reaches(runtime.subs[told[i]].ws)
      /\ \A c \in Channels : runtime.subs[c].ready /\ Reaches(runtime.subs[c].ws) => \E i \in 1..Len(told) : told[i] = c
      /\ UNCHANGED <<up, client>>
  BY <1>1, <1>2, <1>3, ReceiveOutputIs
<1>5. /\ k = runtime.offset + 1 /\ runtime'.offset = k /\ k \in Nat /\ runtime.offset \in Nat
      /\ Typed' /\ ToldChunks' = ToldChunks \cup {k} /\ k \notin ToldChunks
      /\ runtime'.screen = runtime.screen /\ runtime'.subs = runtime.subs
      /\ runtime'.rev = runtime.rev /\ runtime'.next = runtime.next /\ ~Over
  BY <1>1, ReceivedNext
<1>6. runtime.rev \in Nat /\ runtime.next \in Nat /\ \A c \in Channels : c \in 1..(runtime.next - 1)
  BY RuntimeIs
<1>7. \A i \in 1..Len(t) : t[i].kind = "output" /\ t[i].chan = told[i] /\ t[i].rev = runtime.rev /\ t[i].chunk = k
  BY <1>3, <1>4, OutputsAre
<1>8. Later
  BY <1>5, <1>6 DEF Later
<1>9. Lawful(t)
  <2>1. SUFFICES ASSUME NEW i \in 1..Len(t)
                 PROVE  /\ Now(t[i]) /\ t[i].kind = "output"
                        /\ t[i].chan \in Channels /\ runtime.subs[t[i].chan].ready
                        /\ Reaches(runtime.subs[t[i].chan].ws)
    BY <1>5 DEF Lawful
  <2>2. t[i].kind = "output" /\ t[i].chan = told[i] /\ t[i].rev = runtime.rev /\ t[i].chunk = k
    BY <1>7
  <2>3. told[i] \in Channels /\ runtime.subs[told[i]].ready /\ Reaches(runtime.subs[told[i]].ws)
    BY <1>4
  <2>4. told[i] \in 1..(runtime'.next - 1)
    BY <1>5, <1>6, <2>3
  <2>5. Now(t[i])
    BY <1>5, <2>2, <2>4 DEF Now, Shows, Pos
  <2> QED
    BY <2>2, <2>3, <2>5
<1>10. \A c \in DOMAIN runtime'.subs : Served(t, c)
  <2>1. SUFFICES ASSUME NEW c \in Channels, runtime.subs[c].ready, Reaches(runtime'.subs[c].ws), runtime'.subs = runtime.subs
                 PROVE  \E i \in 1..Len(t) : t[i].kind = "output" /\ t[i].chan = c /\ t[i].chunk = k
    BY <1>5 DEF Served, Channels
  <2>2. PICK i \in 1..Len(told) : told[i] = c
    BY <1>4, <2>1
  <2> QED
    BY <1>4, <1>7, <2>2
<1> QED
  BY <1>4, <1>5, <1>8, <1>9, <1>10 DEF Grows

LEMMA WaitingIs ==
  ASSUME NEW r, NEW c
  PROVE  c \in Waiting(r) <=> c \in DOMAIN r.subs /\ ~r.subs[c].ready
BY DEF Waiting

LEMMA FarewellsKeep ==
  ASSUME NEW r, Sound(r), NEW c \in Waiting(r), Reaches(r.subs[c].ws)
  PROVE  \E i \in 1..Len(Farewells(r)) : Farewells(r)[i] = Snapshot(r, c)
<1> DEFINE b == Baselines(r)
           q == Reached(r, DOMAIN r.subs)
           e == [i \in 1..Len(q) |-> Exit(q[i])]
<1>1. b \in Seq(SnapshotFrame) /\ \E i \in 1..Len(b) : b[i] = Snapshot(r, c)
  BY BaselinesIs
<1>2. q \in Seq(Nat) /\ Len(q) \in Nat
  BY ReachedIs
<1>3. Farewells(r) = b \o e
  BY DEF Farewells
<1> HIDE DEF b, q
<1>4. e \in Seq(ExitFrame)
  BY <1>2 DEF Exit, ExitFrame
<1> HIDE DEF e
<1>5. b \in Seq(DownFrame) /\ e \in Seq(DownFrame)
  <2>1. SnapshotFrame \subseteq DownFrame /\ ExitFrame \subseteq DownFrame
    BY DEF DownFrame
  <2> QED
    BY <1>1, <1>4, <2>1, SeqIn
<1>6. \A i \in 1..Len(b) : i \in 1..Len(b \o e) /\ (b \o e)[i] = b[i]
  BY <1>5, JoinedAt
<1> QED
  BY <1>1, <1>3, <1>6

(* The frames of a session that ends. *)
LEMMA GrowsFarewells ==
  ASSUME Typed, Typed', Linked', ToldChunks' = ToldChunks, ~Over, Over', client' = client,
         NEW r, Sound(r), r.subs = runtime.subs,
         runtime'.inbox = <<>>, runtime'.screen = r.screen, runtime'.offset = r.offset, runtime'.rev = r.rev,
         r.offset = runtime.offset, r.rev = runtime.rev, runtime'.next = runtime.next,
         DOMAIN runtime'.subs \subseteq Channels,
         \A c \in DOMAIN runtime'.subs : runtime'.subs[c].ws = runtime.subs[c].ws,
         Tells(Farewells(r))
  PROVE  Grows(Farewells(r))
<1>1. PICK t : t = Farewells(r)
  OBVIOUS
<1>2. /\ Tells(t) /\ t \in Seq(DownFrame) /\ Len(t) \in Nat
      /\ \A i \in 1..Len(t) :
                   \/ \E c \in Waiting(r) : t[i] = Snapshot(r, c) /\ Reaches(r.subs[c].ws)
                   \/ \E c \in DOMAIN r.subs :
                         /\ t[i] = Exit(c) /\ Reaches(r.subs[c].ws)
                         /\ c \in Waiting(r) => \E j \in 1..Len(t) : j < i /\ t[j] = Snapshot(r, c)
                         /\ \A j \in 1..Len(t) : i < j => t[j].kind = "exit"
  BY <1>1, FarewellsIs
<1>3. runtime.rev \in Nat /\ runtime.next \in Nat /\ runtime.offset \in Nat /\ \A c \in Channels : c \in 1..(runtime.next - 1)
  BY RuntimeIs
<1>4. Later
  BY <1>3, LaterSame
<1>5. Lawful(t)
  <2>1. SUFFICES ASSUME NEW i \in 1..Len(t)
                 PROVE  \/ Now(t[i]) /\ t[i].kind = "snapshot"
                        \/ /\ Now(t[i]) /\ t[i].kind = "exit"
                           /\ t[i].chan \in Channels /\ Reaches(runtime.subs[t[i].chan].ws)
                           /\ \/ runtime.subs[t[i].chan].ready
                              \/ \E j \in 1..Len(t) : j < i /\ t[j].kind = "snapshot" /\ t[j].chan = t[i].chan
                           /\ \A j \in 1..Len(t) : i < j => t[j].kind \in Final
    BY DEF Lawful
  <2>2. ASSUME NEW c \in Waiting(r), t[i] = Snapshot(r, c)
        PROVE  Now(t[i]) /\ t[i].kind = "snapshot"
    <3>1. c \in 1..(runtime'.next - 1)
      BY <1>3, <2>2, WaitingIs DEF Channels
    <3> QED
      BY <2>2, <3>1, SnapshotNow, KindsAre
  <2>3. ASSUME NEW c \in DOMAIN r.subs, t[i] = Exit(c), Reaches(r.subs[c].ws),
               c \in Waiting(r) => \E j \in 1..Len(t) : j < i /\ t[j] = Snapshot(r, c),
               \A j \in 1..Len(t) : i < j => t[j].kind = "exit"
        PROVE  /\ Now(t[i]) /\ t[i].kind = "exit"
               /\ t[i].chan \in Channels /\ Reaches(runtime.subs[t[i].chan].ws)
               /\ \/ runtime.subs[t[i].chan].ready
                  \/ \E j \in 1..Len(t) : j < i /\ t[j].kind = "snapshot" /\ t[j].chan = t[i].chan
               /\ \A j \in 1..Len(t) : i < j => t[j].kind \in Final
    <3>1. t[i].kind = "exit" /\ t[i].chan = c /\ c \in Channels /\ c \in 1..(runtime'.next - 1)
      BY <1>3, <2>3, KindsAre DEF Channels
    <3>2. Now(t[i])
      BY <3>1 DEF Now, Shows
    <3>3. \/ runtime.subs[c].ready
          \/ \E j \in 1..Len(t) : j < i /\ t[j].kind = "snapshot" /\ t[j].chan = c
      BY <2>3, KindsAre, WaitingIs
    <3> QED
      BY <2>3, <3>1, <3>2, <3>3 DEF Final
  <2> QED
    BY <1>2, <2>2, <2>3
<1>6. \A c \in DOMAIN runtime'.subs : Served(t, c)
  <2>1. SUFFICES ASSUME NEW c \in DOMAIN runtime'.subs, Reaches(runtime.subs[c].ws), c \in Channels
                 PROVE  \/ \E i \in 1..Len(t) : t[i].kind = "snapshot" /\ t[i].chan = c
                        \/ runtime.subs[c].ready
    BY DEF Served
  <2>2. CASE c \in Waiting(r)
    <3>1. Reaches(r.subs[c].ws)
      BY <2>1
    <3>2. \E i \in 1..Len(t) : t[i] = Snapshot(r, c)
      BY <1>1, <2>2, <3>1, FarewellsKeep
    <3> QED
      BY <3>2, KindsAre
  <2>3. CASE c \notin Waiting(r)
    BY <2>1, <2>3, WaitingIs DEF Channels
  <2> QED
    BY <2>2, <2>3
<1> QED
  BY <1>1, <1>2, <1>4, <1>5, <1>6 DEF Grows
LEMMA GrowsEnds ==
  ASSUME Typed, Typed', Linked', ToldChunks' = ToldChunks, ~Over, client' = client, NEW r, Sound(r),
         r.subs = runtime.subs, r.offset = runtime.offset, r.rev = runtime.rev, r.next = runtime.next,
         ExitIsReady(r), Ends(r)
  PROVE  \E t : Grows(t)
<1>1. /\ runtime'.life = "exited"
      /\ runtime'.inbox = r.inbox /\ runtime'.screen = r.screen /\ runtime'.offset = r.offset
      /\ runtime'.next = r.next /\ runtime'.rev = r.rev
      /\ DOMAIN runtime'.subs = DOMAIN r.subs
      /\ \A c \in DOMAIN r.subs : runtime'.subs[c] = [r.subs[c] EXCEPT !.ready = TRUE]
      /\ Tells(Farewells(r))
  BY EndsIs
<1>2. runtime'.inbox = <<>> /\ Over'
  BY <1>1 DEF ExitIsReady, Drained, Over
<1>3. \A c \in DOMAIN runtime'.subs : runtime'.subs[c].ws = runtime.subs[c].ws
  <2>1. SUFFICES ASSUME NEW c \in DOMAIN runtime'.subs PROVE runtime'.subs[c].ws = runtime.subs[c].ws
    OBVIOUS
  <2>2. c \in Channels /\ runtime.subs[c] \in Sub
    BY <1>1, RuntimeIs DEF Channels
  <2>3. runtime'.subs[c] = [runtime.subs[c] EXCEPT !.ready = TRUE]
    BY <1>1, <2>1
  <2> QED
    BY <2>2, <2>3, ReadyKeeps
<1>4. DOMAIN runtime'.subs \subseteq Channels
  BY <1>1 DEF Channels
<1>5. Grows(Farewells(r))
  BY <1>1, <1>2, <1>3, <1>4, GrowsFarewells
<1> QED
  BY <1>5

(* Those who wait are given the screen that has caught up. *)
LEMMA GrowsWakes ==
  ASSUME Typed, Typed', Linked', ToldChunks' = ToldChunks, ~Over, client' = client, NEW r, Sound(r),
         r.subs = runtime.subs, r.offset = runtime.offset, r.rev = runtime.rev, r.next = runtime.next, Wakes(r)
  PROVE  \E t : Grows(t)
<1>1. /\ runtime'.inbox = r.inbox /\ runtime'.screen = r.screen /\ runtime'.offset = r.offset
      /\ runtime'.next = r.next /\ runtime'.rev = r.rev
      /\ DOMAIN runtime'.subs = DOMAIN r.subs
      /\ \A c \in DOMAIN r.subs : runtime'.subs[c] = [r.subs[c] EXCEPT !.ready = TRUE]
      /\ runtime'.inbox = <<>>
  BY DEF Wakes, Drained
<1>2. PICK t : t = Baselines(r)
  OBVIOUS
<1>3. /\ Tells(t) /\ t \in Seq(SnapshotFrame) /\ Len(t) \in Nat
      /\ \A i \in 1..Len(t) : \E c \in Waiting(r) : t[i] = Snapshot(r, c) /\ Reaches(r.subs[c].ws)
      /\ \A c \in Waiting(r) : Reaches(r.subs[c].ws) => \E i \in 1..Len(t) : t[i] = Snapshot(r, c)
  <2>1. Tells(t)
    BY <1>2 DEF Wakes
  <2> QED
    BY <1>2, <2>1, BaselinesIs
<1>4. runtime.rev \in Nat /\ runtime.next \in Nat /\ runtime.offset \in Nat /\ \A c \in Channels : c \in 1..(runtime.next - 1)
  BY RuntimeIs
<1>5. Later
  BY <1>1, <1>4, LaterSame
<1>6. Lawful(t)
  <2>1. SUFFICES ASSUME NEW i \in 1..Len(t) PROVE Now(t[i]) /\ t[i].kind = "snapshot"
    BY DEF Lawful
  <2>2. PICK c \in Waiting(r) : t[i] = Snapshot(r, c)
    BY <1>3
  <2>3. c \in 1..(runtime'.next - 1)
    BY <1>1, <1>4, <2>2, WaitingIs DEF Channels
  <2> QED
    BY <1>1, <2>2, <2>3, SnapshotNow, KindsAre
<1>7. \A c \in DOMAIN runtime'.subs : Served(t, c)
  <2>1. SUFFICES ASSUME NEW c \in DOMAIN runtime'.subs, Reaches(runtime'.subs[c].ws)
                 PROVE  \/ \E i \in 1..Len(t) : t[i].kind = "snapshot" /\ t[i].chan = c
                        \/ c \in Channels /\ runtime.subs[c].ready /\ Reaches(runtime.subs[c].ws)
    BY DEF Served
  <2>2. c \in Channels /\ runtime.subs[c].ws = runtime'.subs[c].ws
    <3>1. c \in Channels /\ runtime.subs[c] \in Sub
      BY <1>1, RuntimeIs DEF Channels
    <3>2. runtime'.subs[c] = [runtime.subs[c] EXCEPT !.ready = TRUE]
      BY <1>1, <2>1
    <3> QED
      BY <3>1, <3>2, ReadyKeeps
  <2>3. CASE c \in Waiting(r)
    <3>1. Reaches(r.subs[c].ws)
      BY <2>1, <2>2
    <3>2. \E i \in 1..Len(t) : t[i] = Snapshot(r, c)
      BY <1>3, <2>3, <3>1
    <3> QED
      BY <3>2, KindsAre
  <2>4. CASE c \notin Waiting(r)
    BY <2>1, <2>2, <2>4, WaitingIs DEF Channels
  <2> QED
    BY <2>3, <2>4
<1> QED
  BY <1>3, <1>5, <1>6, <1>7 DEF Grows

LEMMA GrowsParse ==
  ASSUME Typed, Owning, Linked, Parse
  PROVE  \E t : Grows(t) /\ up' = up
<1>1. /\ runtime.inbox # <<>> /\ UNCHANGED <<holder, up, client, left>> /\ Typed'
      /\ \/ ExitIsReady(Parsed) /\ Ends(Parsed)
         \/ ~ExitIsReady(Parsed) /\ Wakes(Parsed) /\ link' = link
         \/ ~ExitIsReady(Parsed) /\ ~Drained(Parsed) /\ runtime' = Parsed /\ Untold /\ link' = link
  BY ParseIs
<1>2. PICK r : r = Parsed
  OBVIOUS
<1>3. /\ Sound(r) /\ r.screen = runtime.screen \cup ({Head(runtime.inbox)} \ {None})
      /\ r.offset = runtime.offset /\ r.subs = runtime.subs /\ r.next = runtime.next /\ r.rev = runtime.rev
  BY <1>1, <1>2, ParsedIs
<1>4. Linked' /\ ToldChunks' = ToldChunks /\ ~Over
  BY LinkedParse
<1>5. CASE ExitIsReady(r) /\ Ends(r)
  BY <1>1, <1>3, <1>4, <1>5, GrowsEnds
<1>6. CASE Wakes(r)
  BY <1>1, <1>3, <1>4, <1>6, GrowsWakes
<1>7. CASE runtime' = r /\ Untold
  <2>1. runtime.offset \in Nat /\ runtime.rev \in Nat /\ runtime.next \in Nat
    BY RuntimeIs
  <2>2. Later
    BY <1>3, <1>4, <1>7, <2>1, LaterSame
  <2>3. Grows(<<>>)
    BY <1>1, <1>3, <1>4, <1>7, <2>2, GrowsNothing DEF Channels
  <2> QED
    BY <1>1, <2>3
<1> QED
  BY <1>1, <1>2, <1>5, <1>6, <1>7

LEMMA GrowsExit ==
  ASSUME Typed, Owning, Linked, ExitObserved
  PROVE  \E t : Grows(t) /\ up' = up
<1>1. PICK r : r = Living("draining")
  OBVIOUS
<1>2. /\ UNCHANGED <<holder, up, client, left>> /\ Typed'
      /\ \/ ExitIsReady(r) /\ Ends(r)
         \/ runtime' = r /\ Untold
  BY <1>1, ExitObservedIs
<1>3. /\ Sound(r) /\ r.screen = runtime.screen
      /\ r.offset = runtime.offset /\ r.subs = runtime.subs /\ r.next = runtime.next /\ r.rev = runtime.rev
  BY <1>1, LivingIs DEF Typed, Living, Lives
<1>4. Linked' /\ ToldChunks' = ToldChunks /\ ~Over
  BY LinkedExit
<1>5. CASE ExitIsReady(r) /\ Ends(r)
  BY <1>2, <1>3, <1>4, <1>5, GrowsEnds
<1>6. CASE runtime' = r /\ Untold
  <2>1. runtime.offset \in Nat /\ runtime.rev \in Nat /\ runtime.next \in Nat
    BY RuntimeIs
  <2>2. Later
    BY <1>3, <1>4, <1>6, <2>1, LaterSame
  <2>3. Grows(<<>>)
    BY <1>2, <1>3, <1>4, <1>6, <2>2, GrowsNothing DEF Channels
  <2> QED
    BY <1>2, <2>3
<1> QED
  BY <1>2, <1>5, <1>6

LEMMA GrowsAbsence ==
  ASSUME Typed, Owning, Linked, ConfirmedAbsence
  PROVE  \E t : Grows(t) /\ up' = up
<1>1. /\ Drained(runtime) /\ UNCHANGED <<holder, up, client, left>> /\ Typed'
      /\ runtime'.life = "retired" /\ runtime'.next = runtime.next
      /\ DOMAIN runtime'.subs = {}
      /\ runtime'.screen = runtime.screen /\ runtime'.inbox = runtime.inbox
      /\ runtime'.offset = runtime.offset /\ runtime'.rev = runtime.rev
      /\ IF runtime.life = "draining" THEN Tells(Farewells(runtime)) ELSE Untold
  BY ConfirmedAbsenceIs
<1>2. Linked' /\ ToldChunks' = ToldChunks /\ ~Over
  BY LinkedAbsence
<1>3. Over' /\ runtime'.inbox = <<>> /\ Sound(runtime) /\ client' = client
  BY <1>1 DEF Over, Drained, Typed
<1>4. CASE Tells(Farewells(runtime))
  <2>1. Grows(Farewells(runtime))
    BY <1>1, <1>2, <1>3, <1>4, GrowsFarewells
  <2> QED
    BY <1>1, <2>1
<1>5. CASE Untold
  <2>1. runtime.offset \in Nat /\ runtime.rev \in Nat /\ runtime.next \in Nat
    BY RuntimeIs
  <2>2. Later
    BY <1>1, <1>2, <1>5, <2>1, LaterSame
  <2>3. Grows(<<>>)
    BY <1>1, <1>2, <1>3, <1>5, <2>2, GrowsNothing
  <2> QED
    BY <1>1, <2>3
<1> QED
  BY <1>1, <1>4, <1>5

(* The router's answers. *)
LEMMA GrowsJoining ==
  ASSUME Typed, Typed', Linked', ToldChunks' = ToldChunks, Later, client' = client,
         runtime'.inbox = runtime.inbox, NEW w, NEW f, Joining(w, f)
  PROVE  \E t : Grows(t)
<1>1. PICK c : c = runtime.next
  OBVIOUS
<1>2. /\ runtime.life = "running" /\ runtime'.next = c + 1
      /\ c \notin Channels /\ DOMAIN runtime'.subs = Channels \cup {c}
      /\ \A d \in Channels : runtime'.subs[d] = runtime.subs[d]
      /\ runtime'.subs[c].ws = w /\ (runtime'.subs[c].ready <=> Drained(runtime))
      /\ IF ~Reaches(w) THEN Untold
         ELSE IF Drained(runtime) THEN Tells(<<Ack(c), Snapshot(runtime', c)>>)
         ELSE Tells(<<Ack(c)>>)
  BY <1>1 DEF Joining
<1>3. c \in Nat /\ c >= 1 /\ ~Over
  BY <1>1, <1>2, RuntimeIs DEF Over
<1>4. \A d \in Channels : d \in DOMAIN runtime'.subs
  BY <1>2
<1>5. \A w2 : Reaches(w2)' = Reaches(w2)
  BY DEF Reaches
<1>6. Now(Ack(c)) /\ Ack(c).kind = "ack" /\ Ack(c).chan = c
  <2>1. Ack(c).kind = "ack" /\ Ack(c).chan = c
    BY KindsAre
  <2>2. c \in 1..(runtime'.next - 1)
    BY <1>2, <1>3
  <2> QED
    BY <2>1, <2>2 DEF Now, Shows
<1>7. CASE ~Reaches(w)
  <2>1. Tells(<<>>)
    BY <1>2, <1>7, UntoldIs
  <2>2. \A d \in DOMAIN runtime'.subs : Served(<<>>, d)
    BY <1>2, <1>7 DEF Served
  <2>3. Lawful(<<>>)
    BY DEF Lawful
  <2> QED
    BY <2>1, <2>2, <2>3 DEF Grows
<1>8. CASE Reaches(w) /\ Drained(runtime)
  <2>1. PICK p : p = Snapshot(runtime', c)
    OBVIOUS
  <2>2. PICK t : t = <<Ack(c), p>>
    OBVIOUS
  <2>3. Tells(t)
    BY <1>2, <1>8, <2>1, <2>2
  <2>4. p.kind = "snapshot" /\ p.chan = c /\ Now(p)
    <3>1. c \in 1..(runtime'.next - 1) /\ runtime'.inbox = <<>>
      BY <1>2, <1>3, <1>8 DEF Drained
    <3>2. p.kind = "snapshot" /\ p.chan = c
      BY <2>1 DEF Snapshot
    <3>3. PICK r : r = runtime'
      OBVIOUS
    <3>4. Now(Snapshot(r, c))
      BY <3>1, <3>3, SnapshotNow
    <3>5. Snapshot(r, c) = p
      BY <2>1, <3>3 DEF Snapshot
    <3> QED
      BY <3>2, <3>4, <3>5
  <2>5. Len(t) = 2 /\ t[1] = Ack(c) /\ t[2] = p
    BY <2>2
  <2>6. Lawful(t)
    <3>1. \A i \in 1..Len(t) : \/ i = 1 /\ t[i] = Ack(c)
                               \/ t[i] = p
      BY <2>5
    <3> QED
      BY <1>1, <1>3, <1>6, <2>4, <3>1 DEF Lawful
  <2>7. \A d \in DOMAIN runtime'.subs : Served(t, d)
    <3>1. \E i \in 1..Len(t) : t[i].kind = "snapshot" /\ t[i].chan = c
      BY <2>4, <2>5
    <3> QED
      BY <1>2, <3>1 DEF Served
  <2> QED
    BY <2>3, <2>6, <2>7 DEF Grows
<1>9. CASE Reaches(w) /\ ~Drained(runtime)
  <2>2. PICK t : t = <<Ack(c)>>
    OBVIOUS
  <2>3. Tells(t)
    BY <1>2, <1>9, <2>2
  <2>5. Len(t) = 1 /\ t[1] = Ack(c)
    BY <2>2
  <2>6. Lawful(t)
    <3>1. \A i \in 1..Len(t) : i = 1 /\ t[i] = Ack(c)
      BY <2>5
    <3> QED
      BY <1>1, <1>3, <1>6, <3>1 DEF Lawful
  <2>7. \A d \in DOMAIN runtime'.subs : Served(t, d)
    BY <1>2, <1>9 DEF Served
  <2> QED
    BY <2>3, <2>6, <2>7 DEF Grows
<1> QED
  BY <1>7, <1>8, <1>9

LEMMA GrowsRefusing ==
  ASSUME Typed, Typed', Linked', ToldChunks' = ToldChunks, Later, client' = client, NEW w, Refusing(w)
  PROVE  \E t : Grows(t)
<1>1. runtime'.subs = runtime.subs /\ IF Reaches(w) THEN Tells(<<BadChannel>>) ELSE Untold
  BY DEF Refusing
<1>2. CASE Untold
  <2>1. Grows(<<>>)
    BY <1>1, <1>2, GrowsNothing DEF Channels
  <2> QED
    BY <2>1
<1>3. CASE Tells(<<BadChannel>>)
  <2>1. PICK t : t = <<BadChannel>>
    OBVIOUS
  <2>2. Len(t) = 1 /\ \A i \in 1..Len(t) : t[i].kind = "error"
    BY <2>1, KindsAre
  <2>3. Lawful(t)
    BY <2>2 DEF Lawful, Now, Addressed, Shows, Final
  <2>4. \A c \in DOMAIN runtime'.subs : Served(t, c)
    BY <1>1 DEF Served, Channels
  <2> QED
    BY <1>3, <2>1, <2>3, <2>4 DEF Grows
<1> QED
  BY <1>1, <1>2, <1>3

LEMMA GrowsRouter ==
  ASSUME Typed, Owning, Linked, NEW w \in Sockets, RouterReads(w)
  PROVE  /\ \E t : Grows(t)
         /\ Len(up') = Len(up)
         /\ \A x \in 1..Len(up) : \A i \in 1..Len(up'[x]) : \E j \in 1..Len(up[x]) : up'[x][i] = up[x][j]
<1>1. PICK f : f = Head(up[w])
  OBVIOUS
<1>2. /\ Takes(w, f) /\ Typed' /\ Steers(runtime, runtime')
      /\ \/ Joining(w, f) \/ Refusing(w)
         \/ \E chans : Leaving(chans)
         \/ Resizing(f)
         \/ runtime' = runtime /\ Untold
  BY <1>1, RouterIs
<1>3. Linked' /\ ToldChunks' = ToldChunks
  BY LinkedRouter
<1>4. runtime.offset \in Nat /\ runtime.rev \in Nat /\ runtime.next \in Nat /\ runtime'.rev \in Nat
      /\ \A c \in Channels : runtime.subs[c] \in Sub
  BY <1>2, RuntimeIs, RuntimeNext
<1>5. /\ client' = client /\ runtime'.inbox = runtime.inbox
      /\ runtime'.screen = runtime.screen /\ runtime'.offset = runtime.offset /\ runtime'.rev >= runtime.rev
      /\ runtime'.life = runtime.life
  BY <1>2 DEF Takes, Steers
<1>6. Later
  <2>1. runtime'.next >= runtime.next
    BY <1>2, <1>4 DEF Joining, Refusing, Leaving, Resizing
  <2> QED
    BY <1>3, <1>4, <1>5, <2>1, LaterSame DEF Over
<1>7. \E t : Grows(t)
  <2>1. CASE Joining(w, f)
    BY <1>2, <1>3, <1>5, <1>6, <2>1, GrowsJoining
  <2>2. CASE Refusing(w)
    BY <1>2, <1>3, <1>5, <1>6, <2>2, GrowsRefusing
  <2>3. CASE (\E chans : Leaving(chans)) \/ Resizing(f) \/ (runtime' = runtime /\ Untold)
    <3>1. Untold
      BY <2>3 DEF Leaving, Resizing
    <3>2. \A c \in DOMAIN runtime'.subs :
             /\ c \in Channels /\ runtime'.subs[c].ready = runtime.subs[c].ready
             /\ runtime'.subs[c].ws = runtime.subs[c].ws
      <4>1. CASE Resizing(f)
        BY <1>4, <4>1 DEF Resizing, Sub
      <4>2. CASE \E chans : Leaving(chans)
        BY <4>2 DEF Leaving
      <4>3. CASE runtime' = runtime
        BY <4>3 DEF Channels
      <4> QED
        BY <2>3, <4>1, <4>2, <4>3
    <3>3. Grows(<<>>)
      BY <1>2, <1>3, <1>5, <1>6, <3>1, <3>2, GrowsNothing
    <3> QED
      BY <3>3
  <2> QED
    BY <1>2, <2>1, <2>2, <2>3
<1>8. ASSUME NEW x \in 1..Len(up), NEW i \in 1..Len(up'[x])
      PROVE  \E j \in 1..Len(up[x]) : up'[x][i] = up[x][j]
  <2>1. /\ w \in 1..Len(up) /\ up[w] # <<>> /\ up[w] \in Seq(UpFrame)
        /\ up'[x] = IF x = w THEN Tail(up[x]) ELSE up[x]
    BY <1>2, <1>8 DEF Takes, Typed
  <2>2. CASE x = w
    <3>1. \A k \in 1..Len(Tail(up[w])) : k + 1 \in 1..Len(up[w]) /\ Tail(up[w])[k] = up[w][k + 1]
      BY <2>1, TailAt
    <3> QED
      BY <2>1, <2>2, <3>1
  <2>3. CASE x # w
    BY <2>1, <2>3
  <2> QED
    BY <2>2, <2>3
<1> QED
  BY <1>2, <1>7, <1>8 DEF Takes
-----------------------------------------------------------------------------
(* What the browser shows, over the frames it reads.                          *)
(* What becomes of a surface when the frame f is read. *)
Turned(v, n, f) ==
  \/ /\ Loose(v, n)
     /\ Addressed(f) /\ v.chan = f.chan =>
           n.chan = None \/ (f.kind = "output" /\ v.phase = "live" /\ f.chunk <= v.expected)
  \/ f.kind = "ack" /\ Answered(v, n, f) /\ n.chan = f.chan
  \/ f.kind = "snapshot" /\ v.chan = f.chan /\ n = TakenView(v, f)
  \/ f.kind = "output" /\ v.chan = f.chan /\ v.phase = "live" /\ f.chunk = v.expected + 1 /\ n = WrittenView(v, f)
  \/ f.kind = "exit" /\ v.chan = f.chan /\ n = [v EXCEPT !.ended = TRUE]
Turns(f) ==
  /\ down # <<>> /\ f = Head(down) /\ down' = Tail(down) /\ f.kind # "closed"
  /\ runtime' = runtime /\ client'.ws = client.ws /\ client'.broken = client.broken
  /\ \A t \in Surfaces : Turned(client.view[t], client'.view[t], f)
  /\ \E s : \A t \in Surfaces : t # s => client'.view[t] = client.view[t]

LEMMA TurnFrames ==
  ASSUME Typed, Typed', NEW f, Turns(f)
  PROVE  /\ f \in DownFrame /\ Len(down) \in Nat /\ Len(down') \in Nat /\ Len(down) = Len(down') + 1
         /\ 1 \in 1..Len(down) /\ down[1] = f
         /\ \A i \in 1..Len(down') : i + 1 \in 1..Len(down) /\ down'[i] = down[i + 1] /\ down'[i] \in DownFrame
         /\ \A i \in 1..Len(down) : i = 1 \/ \E k \in 1..Len(down') : i = k + 1 /\ down[i] = down'[k]
<1>1. down \in Seq(DownFrame) /\ down # <<>> /\ f = Head(down) /\ down' = Tail(down)
  BY DEF Typed, Turns
<1>2. down' \in Seq(DownFrame)
  BY DEF Typed
<1>3. \A i \in 1..Len(down') : down'[i] \in DownFrame
  BY <1>2
<1>4. /\ Head(down) = down[1] /\ Head(down) \in DownFrame
      /\ Len(down) \in Nat /\ Len(Tail(down)) \in Nat /\ Len(down) = Len(Tail(down)) + 1 /\ 1 \in 1..Len(down)
      /\ \A i \in 1..Len(Tail(down)) : i + 1 \in 1..Len(down) /\ Tail(down)[i] = down[i + 1]
      /\ \A i \in 1..Len(down) : i = 1 \/ \E k \in 1..Len(Tail(down)) : i = k + 1 /\ down[i] = Tail(down)[k]
  BY <1>1, TailAt
<1> QED
  BY <1>1, <1>3, <1>4

LEMMA LooseHere ==
  ASSUME NEW s \in Surfaces, NEW v \in View
  PROVE  Loose(v, v) /\ Loose(v, Shut(v)) /\ Loose(v, Asking(Shut(v)))
<1>1. v.size \in Sizes /\ 0 \in Nat
  BY DEF View
<1> QED
  BY <1>1, LooseAre

(* An output that is read meets a surface with its baseline. *)
LEMMA HeadOutput ==
  ASSUME Typed, Screens, down # <<>>, NEW f, f = Head(down), f.kind = "output",
         NEW s \in Surfaces, client.view[s].chan = f.chan
  PROVE  client.view[s].phase = "live" /\ f.rev >= client.view[s].rev /\ f.chunk >= client.view[s].expected
<1>1. 1 \in 1..Len(down) /\ f = down[1]
  BY TailAt DEF Typed
<1>2. f \in OutputFrame /\ Shows(f) /\ Pos(f) = f.chunk
  BY <1>1, FramesAre, KindIs DEF Shows, Pos
<1>3. client.view[s].expected <= Pos(down[1]) /\ client.view[s].rev <= down[1].rev
  BY <1>1, <1>2 DEF Screens, Ascending
<1>4. Based(f.chan, 1)
  BY <1>1 DEF Screens, Story
<1>5. \A j \in 1..Len(down) : ~(j < 1)
  BY FramesAre
<1>6. client.view[s].phase = "live"
  BY <1>4, <1>5 DEF Based
<1>7. client.view[s].expected \in Nat /\ client.view[s].rev \in Nat /\ f.chunk \in Nat /\ f.rev \in Nat
  BY <1>2, ViewsAre DEF OutputFrame
<1> QED
  BY <1>1, <1>2, <1>3, <1>6, <1>7

LEMMA HeadSnapshot ==
  ASSUME Typed, Screens, down # <<>>, NEW f, f = Head(down), f.kind = "snapshot", NEW s \in Surfaces
  PROVE  f.rev >= client.view[s].rev /\ f.offset >= client.view[s].expected /\ f.rev \in Nat /\ f.offset \in Nat
<1>1. 1 \in 1..Len(down) /\ f = down[1]
  BY TailAt DEF Typed
<1>2. f \in SnapshotFrame /\ Shows(f) /\ Pos(f) = f.offset
  BY <1>1, FramesAre, KindIs DEF Shows, Pos
<1>3. client.view[s].expected <= Pos(down[1]) /\ client.view[s].rev <= down[1].rev
  BY <1>1, <1>2 DEF Screens, Ascending
<1>7. client.view[s].expected \in Nat /\ client.view[s].rev \in Nat /\ f.offset \in Nat /\ f.rev \in Nat
  BY <1>2, ViewsAre DEF SnapshotFrame
<1> QED
  BY <1>1, <1>2, <1>3, <1>7

(* The channel of a frame that is read is no other surface's. *)
LEMMA HeadMine ==
  ASSUME Typed, Screens, down # <<>>, NEW f, f = Head(down), Addressed(f)
  PROVE  /\ f.chan # None
         /\ f.kind = "ack" => \A s \in Surfaces : client.view[s].chan # f.chan
         /\ \A s, t \in Surfaces : client.view[s].chan = f.chan /\ client.view[t].chan = f.chan => s = t
<1>1. f.chan # None
  BY HeadNamed DEF Screens
<1>2. 1 \in 1..Len(down) /\ f = down[1]
  BY TailAt DEF Typed
<1> QED
  BY <1>1, <1>2 DEF Screens, AckFirst

(* Surface s becomes n, the others stay. *)
LEMMA TurnedBy ==
  ASSUME Typed, Screens, down # <<>>, NEW f, f = Head(down), NEW s \in Surfaces, NEW n,
         \A t \in Surfaces : client'.view[t] = IF t = s THEN n ELSE client.view[t],
         Turned(client.view[s], n, f), Addressed(f) /\ f.kind # "ack" => client.view[s].chan = f.chan
  PROVE  \A t \in Surfaces : Turned(client.view[t], client'.view[t], f)
<1>1. SUFFICES ASSUME NEW t \in Surfaces, t # s PROVE Turned(client.view[t], client.view[t], f)
  OBVIOUS
<1>2. PICK v : v = client.view[t]
  OBVIOUS
<1>3. Loose(v, v)
  BY <1>2, LooseHere, ViewsAre
<1>4. Addressed(f) => v.chan # f.chan
  BY <1>1, <1>2, HeadMine
<1> QED
  BY <1>2, <1>3, <1>4 DEF Turned

LEMMA TurnedRest ==
  ASSUME Typed, Screens, client' = client, NEW f, Addressed(f) => \A s \in Surfaces : client.view[s].chan # f.chan
  PROVE  \A t \in Surfaces : Turned(client.view[t], client'.view[t], f)
<1>1. SUFFICES ASSUME NEW t \in Surfaces PROVE Turned(client.view[t], client.view[t], f)
  OBVIOUS
<1>2. PICK v : v = client.view[t]
  OBVIOUS
<1>3. Loose(v, v)
  BY <1>2, LooseHere, ViewsAre
<1> QED
  BY <1>2, <1>3 DEF Turned

LEMMA ActsViews ==
  ASSUME NEW s \in Surfaces, NEW n, NEW a, NEW o, Acts(s, n, a, o)
  PROVE  /\ \A t \in Surfaces : client'.view[t] = IF t = s THEN n ELSE client.view[t]
         /\ \A t \in Surfaces : t # s => client'.view[t] = client.view[t]
BY DEF Acts, Differs

LEMMA TurnedOutput ==
  ASSUME Typed, Screens, down # <<>>, ClientReads, NEW f, f = Head(down), f.kind = "output"
  PROVE  \A t \in Surfaces : Turned(client.view[t], client'.view[t], f)
<1>1. CASE Rests /\ \A s \in Surfaces : client.view[s].chan # f.chan
  BY <1>1, TurnedRest DEF Rests
<1>2. ASSUME NEW s \in Surfaces, client.view[s].chan = f.chan,
             LET v == client.view[s] IN
               IF v.phase # "live" \/ f.rev < v.rev THEN Rests
               ELSE IF f.chunk = v.expected + 1 THEN Acts(s, WrittenView(v, f), client.acks, <<>>)
               ELSE IF f.rev = v.rev /\ f.chunk <= v.expected THEN Rests
               ELSE IF v.visible
               THEN Acts(s, Asking(Shut(v)), Append(client.acks, AskOf(s, v)),
                         UnsubscribeOf(v) \o <<SubscribeOf(s, v)>>)
               ELSE Acts(s, Shut(v), client.acks, UnsubscribeOf(v))
      PROVE  \A t \in Surfaces : Turned(client.view[t], client'.view[t], f)
  <2>1. PICK v : v = client.view[s]
    OBVIOUS
  <2>2. v.phase = "live" /\ f.rev >= v.rev /\ f.rev \in Nat /\ v.rev \in Nat /\ v \in View
    <3>1. f \in OutputFrame /\ f.rev \in Nat
      BY FramesAre, TailAt, KindIs DEF OutputFrame
    <3> QED
      BY <1>2, <2>1, <3>1, HeadOutput, ViewsAre
  <2>3. Loose(v, v) /\ Loose(v, Shut(v)) /\ Loose(v, Asking(Shut(v)))
    BY <2>2, LooseHere
  <2>4. Shut(v).chan = None /\ Asking(Shut(v)).chan = None
    BY <2>2 DEF Shut, Asking, View
  <2>5. \E n : /\ Turned(v, n, f)
               /\ \A t \in Surfaces : client'.view[t] = IF t = s THEN n ELSE client.view[t]
    <3>1. CASE f.chunk = v.expected + 1
      <4>1. Turned(v, WrittenView(v, f), f)
        BY <1>2, <2>1, <2>2, <3>1 DEF Turned
      <4>2. Acts(s, WrittenView(v, f), client.acks, <<>>)
        BY <1>2, <2>1, <2>2, <3>1
      <4> QED
        BY <4>1, <4>2, ActsViews
    <3>2. CASE f.chunk <= v.expected /\ Rests
      <4>1. Turned(v, v, f)
        BY <1>2, <2>1, <2>2, <2>3, <3>2 DEF Turned
      <4> QED
        BY <2>1, <3>2, <4>1 DEF Rests
    <3>3. ASSUME NEW n, n \in {Shut(v), Asking(Shut(v))}, NEW a, NEW o, Acts(s, n, a, o)
          PROVE  \E m : /\ Turned(v, m, f)
                        /\ \A t \in Surfaces : client'.view[t] = IF t = s THEN m ELSE client.view[t]
      <4>1. Turned(v, n, f)
        BY <2>3, <2>4, <3>3 DEF Turned
      <4> QED
        BY <3>3, <4>1, ActsViews
    <3> QED
      BY <1>2, <2>1, <2>2, <3>1, <3>2, <3>3
  <2> QED
    BY <1>2, <2>1, <2>5, TurnedBy
<1> QED
  BY <1>1, <1>2, OutputIs

LEMMA TurnedSnapshot ==
  ASSUME Typed, Screens, down # <<>>, ClientReads, NEW f, f = Head(down), f.kind = "snapshot"
  PROVE  \A t \in Surfaces : Turned(client.view[t], client'.view[t], f)
<1>1. CASE Rests /\ \A s \in Surfaces :
                        client.view[s].chan = f.chan => \E t \in Surfaces :
                            /\ client.view[t].chan = f.chan
                            /\ client.view[t].phase = "live" /\ f.rev < client.view[t].rev
  <2>1. \A s \in Surfaces : client.view[s].chan # f.chan
    <3>1. SUFFICES ASSUME NEW t \in Surfaces, f.rev < client.view[t].rev PROVE FALSE
      BY <1>1
    <3> QED
      BY <3>1, HeadSnapshot, ViewsAre
  <2> QED
    BY <1>1, <2>1, TurnedRest DEF Rests
<1>2. ASSUME NEW s \in Surfaces, client.view[s].chan = f.chan, Acts(s, TakenView(client.view[s], f), client.acks, <<>>)
      PROVE  \A t \in Surfaces : Turned(client.view[t], client'.view[t], f)
  <2>1. PICK n : n = TakenView(client.view[s], f)
    OBVIOUS
  <2>2. Turned(client.view[s], n, f)
    BY <1>2, <2>1 DEF Turned
  <2>3. \A t \in Surfaces : client'.view[t] = IF t = s THEN n ELSE client.view[t]
    BY <1>2, <2>1, ActsViews
  <2> QED
    BY <1>2, <2>2, <2>3, TurnedBy
<1> QED
  BY <1>1, <1>2, SnapshotIs

LEMMA TurnedExit ==
  ASSUME Typed, Screens, down # <<>>, ClientReads, NEW f, f = Head(down), f.kind = "exit"
  PROVE  \A t \in Surfaces : Turned(client.view[t], client'.view[t], f)
<1>1. CASE Rests /\ \A s \in Surfaces : client.view[s].chan # f.chan
  BY <1>1, TurnedRest DEF Rests
<1>2. ASSUME NEW s \in Surfaces, client.view[s].chan = f.chan,
             Acts(s, [client.view[s] EXCEPT !.ended = TRUE], client.acks, <<>>)
      PROVE  \A t \in Surfaces : Turned(client.view[t], client'.view[t], f)
  <2>1. PICK n : n = [client.view[s] EXCEPT !.ended = TRUE]
    OBVIOUS
  <2>2. Turned(client.view[s], n, f)
    BY <1>2, <2>1 DEF Turned
  <2>3. \A t \in Surfaces : client'.view[t] = IF t = s THEN n ELSE client.view[t]
    BY <1>2, <2>1, ActsViews
  <2> QED
    BY <1>2, <2>2, <2>3, TurnedBy
<1> QED
  BY <1>1, <1>2, ExitIs

(* An answer is for a surface that has no channel of that name. *)
LEMMA TurnedAnswer ==
  ASSUME Typed, Screens, Socketed, Awaited, down # <<>>, ClientReads, NEW f, f = Head(down), f.kind \in {"ack", "error"}
  PROVE  \A t \in Surfaces : Turned(client.view[t], client'.view[t], f)
<1>1. CASE Rests
  <2>1. Addressed(f) => \A s \in Surfaces : client.view[s].chan # f.chan
    BY HeadMine DEF Addressed
  <2> QED
    BY <1>1, <2>1, TurnedRest DEF Rests
<1>2. ASSUME NEW s \in Surfaces, NEW n, NEW a, NEW o, ReadLike(s, n, a, o, f)
      PROVE  \A t \in Surfaces : Turned(client.view[t], client'.view[t], f)
  <2>1. PICK v : v = client.view[s]
    OBVIOUS
  <2>2. \A t \in Surfaces : client'.view[t] = IF t = s THEN n ELSE client.view[t]
    BY <1>2, ActsViews DEF ReadLike
  <2>3. v \in View /\ v.expected \in Nat /\ v.rev \in Nat /\ Loose(v, v)
    BY <2>1, LooseHere, ViewsAre
  <2>4. Reading(v, n, f)
    BY <1>2, <2>1 DEF ReadLike
  <2>5. Addressed(f) => v.chan # f.chan
    BY <2>1, HeadMine DEF Addressed
  <2>6. Turned(v, n, f)
    <3>1. CASE Loose(v, n)
      BY <2>5, <3>1 DEF Turned
    <3>2. CASE f.kind = "ack" /\ Answered(v, n, f)
      <4>1. CASE n.chan = f.chan
        BY <3>2, <4>1 DEF Turned
      <4>2. CASE n.chan = None /\ n.phase = "none"
        <5>1. Loose(v, n)
          BY <2>3, <3>2, <4>2 DEF Answered, Loose
        <5> QED
          BY <3>1, <5>1
      <4> QED
        BY <3>2, <4>1, <4>2 DEF Answered
    <3> QED
      BY <2>3, <2>4, <3>1, <3>2 DEF Reading
  <2>7. ~(Addressed(f) /\ f.kind # "ack")
    BY DEF Addressed
  <2> QED
    BY <2>1, <2>2, <2>6, <2>7, TurnedBy
<1> QED
  BY <1>1, <1>2, ReadAck, ReadOther DEF Screens

LEMMA ReadTurns ==
  ASSUME Base, Screens, ClientReads, Head(down).kind # "closed"
  PROVE  /\ Turns(Head(down)) /\ FreshUp /\ Base' /\ UNCHANGED <<holder, link, runtime>>
<1>1. PICK f : f = Head(down)
  OBVIOUS
<1>2. /\ Base' /\ Consumes /\ UNCHANGED <<holder, link, runtime, left>>
      /\ (Rests \/ \E s \in Surfaces : \E n, a, o : ReadLike(s, n, a, o, f))
  BY <1>1, ReadBase DEF Screens
<1>3. Typed /\ Socketed /\ Awaited /\ down # <<>> /\ Fresh /\ down' = Tail(down)
  BY <1>2 DEF Base, Screens, Consumes
<1>4. f.kind \in {"ack", "error", "output", "snapshot", "exit"}
  BY <1>1, <1>3, FramesAre, TailAt, KindIs
<1>5. \A t \in Surfaces : Turned(client.view[t], client'.view[t], f)
  BY <1>1, <1>3, <1>4, TurnedOutput, TurnedSnapshot, TurnedExit, TurnedAnswer
<1>6. CASE Rests
  <2>1. client' = client /\ up' = up
    BY <1>6 DEF Rests
  <2>2. FreshUp
    BY <1>3, <2>1 DEF FreshUp, Fresh
  <2> QED
    BY <1>1, <1>2, <1>3, <1>4, <1>5, <2>1, <2>2 DEF Turns
<1>7. ASSUME NEW s \in Surfaces, NEW n, NEW a, NEW o, ReadLike(s, n, a, o, f)
      PROVE  Turns(f) /\ FreshUp
  <2>1. /\ client'.ws = client.ws /\ client'.broken = client.broken /\ o \in Seq(UpFrame) /\ Appends(o)
        /\ \A t \in Surfaces : t # s => client'.view[t] = client.view[t]
        /\ Names(o, client.view[s].chan) \/ (f.kind = "ack" /\ Names(o, f.chan))
    BY <1>7, ActsViews DEF ReadLike, Acts, Differs, Same, Plain
  <2>2. Turns(f)
    BY <1>1, <1>2, <1>3, <1>4, <1>5, <2>1 DEF Turns
  <2>3. client.view[s].chan \in 0..(runtime.next - 1) /\ (f.kind = "ack" => f.chan \in 0..(runtime.next - 1))
    <3>1. client.view[s].chan \in 0..(runtime.next - 1) /\ runtime.next \in Nat
      BY <1>3, RuntimeIs DEF Fresh
    <3>2. f.kind = "ack" => f.chan \in 1..(runtime.next - 1)
      BY <1>1, <1>3, HeadNamed DEF Addressed
    <3> QED
      BY <3>1, <3>2
  <2>4. FreshUp
    BY <1>3, <2>1, <2>3, FreshAppends
  <2> QED
    BY <2>2, <2>4
<1> QED
  BY <1>1, <1>2, <1>6, <1>7
-----------------------------------------------------------------------------
(* The fields of the views that reading writes. *)
LEMMA TurnFields ==
  ASSUME NEW v \in View, NEW f \in DownFrame
  PROVE  /\ f.kind = "snapshot" =>
               LET n == TakenView(v, f) IN
               /\ n.chan = v.chan /\ n.phase = "live" /\ n.rev = f.rev /\ n.expected = f.offset
               /\ n.shown = f.screen /\ n.ended = v.ended
         /\ f.kind = "output" =>
               LET n == WrittenView(v, f) IN
               /\ n.chan = v.chan /\ n.phase = v.phase /\ n.rev = f.rev /\ n.expected = f.chunk
               /\ n.shown = v.shown \cup {f.chunk} /\ n.ended = v.ended
         /\ LET n == [v EXCEPT !.ended = TRUE] IN
            /\ n.chan = v.chan /\ n.phase = v.phase /\ n.rev = v.rev /\ n.expected = v.expected
            /\ n.shown = v.shown /\ n.ended
BY DEF View, TakenView, WrittenView

LEMMA ScreensHead ==
  ASSUME Typed, Typed', Screens, NEW f, Turns(f)
  PROVE  /\ f.kind = "snapshot" => /\ f.offset <= runtime.offset /\ f.rev <= runtime.rev /\ f.screen = UpTo(f.offset)
                                   /\ \A s \in Surfaces : ~client.view[s].ended
                                                          /\ client.view[s].expected <= f.offset /\ client.view[s].rev <= f.rev
         /\ f.kind = "output" => /\ f.chunk <= runtime.offset /\ f.rev <= runtime.rev /\ f.chunk \in ToldChunks
                                 /\ \A s \in Surfaces : ~client.view[s].ended
                                                        /\ client.view[s].expected <= f.chunk /\ client.view[s].rev <= f.rev
<1>1. 1 \in 1..Len(down) /\ down[1] = f
  BY TurnFrames
<1>2. f.kind \in {"snapshot", "output"} => Shows(f) /\ f.kind \notin Final
  BY DEF Shows, Final
<1>3. f.kind = "snapshot" => Pos(f) = f.offset
  BY DEF Pos
<1>4. f.kind = "output" => Pos(f) = f.chunk
  BY DEF Pos
<1>5. Shows(f) => /\ Pos(f) <= runtime.offset /\ f.rev <= runtime.rev
                  /\ \A s \in Surfaces : client.view[s].expected <= Pos(f) /\ client.view[s].rev <= f.rev
  BY <1>1 DEF Screens, Shown, Ascending
<1>6. f.kind \notin Final => \A s \in Surfaces : ~client.view[s].ended
  BY <1>1 DEF Screens, Ended
<1>7. /\ f.kind = "snapshot" => f.screen = UpTo(f.offset)
      /\ f.kind = "output" => f.chunk \in ToldChunks
  BY <1>1 DEF Screens, Shown
<1> QED
  BY <1>2, <1>3, <1>4, <1>5, <1>6, <1>7

(* The exit that is read finds everything told shown. *)
LEMMA HeadExit ==
  ASSUME Typed, Typed', Linked, Screens, NEW f, Turns(f), f.kind = "exit", NEW s \in Surfaces,
         client.view[s].chan = f.chan
  PROVE  client.view[s].shown = runtime.screen
<1>1. 1 \in 1..Len(down) /\ down[1] = f /\ \A j \in 1..Len(down) : ~(j < 1)
  BY TurnFrames
<1>2. Over /\ Based(f.chan, 1) /\ \A k \in ToldChunks : Heard(f.chan, k, 1)
  BY <1>1 DEF Screens, Ended, Story
<1>3. client.view[s].phase = "live"
  BY <1>1, <1>2 DEF Based
<1>4. \A k \in ToldChunks : k <= client.view[s].expected
  BY <1>1, <1>2 DEF Heard
<1>5. client.view[s].shown = UpTo(client.view[s].expected)
  BY <1>3 DEF Screens, Shown
<1>6. \A k : k \in ToldChunks <=> k \in runtime.screen
  <2>1. None \notin runtime.screen /\ runtime.inbox = <<>>
    BY <1>2 DEF Linked, Drained
  <2>2. \A i \in 1..Len(runtime.inbox) : FALSE
    BY <2>1
  <2> QED
    BY <2>1, <2>2, ToldAre DEF Typed
<1> QED
  BY <1>4, <1>5, <1>6 DEF UpTo

(* What a surface shows once it has read. *)
LEMMA TurnShows ==
  ASSUME Typed, Typed', Linked, Screens, NEW f, Turns(f), NEW s \in Surfaces
  PROVE  LET n == client'.view[s] IN
         /\ n.expected <= runtime.offset /\ n.rev <= runtime.rev
         /\ n.phase = "live" => n.shown = UpTo(n.expected)
         /\ n.ended => n.shown = runtime.screen
         /\ n.ended => client.view[s].ended \/ f.kind = "exit"
<1>1. PICK v : v = client.view[s]
  OBVIOUS
<1>2. PICK n : n = client'.view[s]
  OBVIOUS
<1>3. /\ v \in View /\ v.expected \in Nat /\ v.rev \in Nat /\ n \in View /\ n.expected \in Nat /\ n.rev \in Nat
      /\ f \in DownFrame /\ runtime.offset \in Nat /\ runtime.rev \in Nat
  BY <1>1, <1>2, ViewsAre, ViewsNext, TurnFrames, RuntimeIs
<1>4. /\ v.expected <= runtime.offset /\ v.rev <= runtime.rev
      /\ v.phase = "live" => v.shown = UpTo(v.expected)
      /\ v.ended => v.shown = runtime.screen
  BY <1>1 DEF Screens, Shown
<1>5. Turned(v, n, f)
  BY <1>1, <1>2 DEF Turns
<1>6. /\ n.expected <= runtime.offset /\ n.rev <= runtime.rev
      /\ n.phase = "live" => n.shown = UpTo(n.expected)
      /\ n.ended => n.shown = runtime.screen
      /\ n.ended => v.ended \/ f.kind = "exit"
  <2>1. CASE Loose(v, n)
    BY <1>3, <1>4, <2>1 DEF Loose
  <2>2. CASE f.kind = "ack" /\ Answered(v, n, f)
    BY <1>3, <1>4, <2>2 DEF Answered
  <2>3. CASE f.kind = "snapshot" /\ v.chan = f.chan /\ n = TakenView(v, f)
    <3>1. n.phase = "live" /\ n.rev = f.rev /\ n.expected = f.offset /\ n.shown = f.screen /\ n.ended = v.ended
      BY <1>3, <2>3, TurnFields
    <3>2. f.offset <= runtime.offset /\ f.rev <= runtime.rev /\ f.screen = UpTo(f.offset) /\ ~v.ended
      BY <1>1, <2>3, ScreensHead
    <3> QED
      BY <3>1, <3>2
  <2>4. CASE f.kind = "output" /\ v.chan = f.chan /\ v.phase = "live" /\ f.chunk = v.expected + 1 /\ n = WrittenView(v, f)
    <3>1. n.phase = "live" /\ n.rev = f.rev /\ n.expected = f.chunk /\ n.shown = v.shown \cup {f.chunk} /\ n.ended = v.ended
      BY <1>3, <2>4, TurnFields
    <3>2. f.chunk <= runtime.offset /\ f.rev <= runtime.rev /\ f.chunk \in ToldChunks /\ ~v.ended
      BY <1>1, <2>4, ScreensHead
    <3>3. UpTo(f.chunk) = UpTo(v.expected) \cup {f.chunk}
      <4>1. ToldChunks \subseteq Nat
        BY <1>3 DEF Linked
      <4> QED
        BY <1>3, <2>4, <3>2, <4>1 DEF UpTo
    <3> QED
      BY <1>4, <2>4, <3>1, <3>2, <3>3
  <2>5. CASE f.kind = "exit" /\ v.chan = f.chan /\ n = [v EXCEPT !.ended = TRUE]
    <3>1. n.phase = v.phase /\ n.rev = v.rev /\ n.expected = v.expected /\ n.shown = v.shown
      BY <1>3, <2>5, TurnFields
    <3>2. v.shown = runtime.screen
      BY <1>1, <2>5, HeadExit
    <3> QED
      BY <1>4, <2>5, <3>1, <3>2
  <2> QED
    BY <1>5, <2>1, <2>2, <2>3, <2>4, <2>5 DEF Turned
<1> QED
  BY <1>1, <1>2, <1>6

LEMMA TurnShown ==
  ASSUME Typed, Typed', Linked, Screens, NEW f, Turns(f), ToldChunks' = ToldChunks
  PROVE  Shown'
<1>1. runtime' = runtime
  BY DEF Turns
<1>2. \A e : UpTo(e)' = UpTo(e)
  BY DEF UpTo
<1>3. ASSUME NEW i \in 1..Len(down')
      PROVE  /\ Shows(down'[i]) => Pos(down'[i]) <= runtime.offset /\ down'[i].rev <= runtime.rev
             /\ down'[i].kind = "snapshot" => down'[i].screen = UpTo(down'[i].offset)
             /\ down'[i].kind = "output" => down'[i].chunk \in ToldChunks
  <2>1. i + 1 \in 1..Len(down) /\ down'[i] = down[i + 1]
    BY TurnFrames
  <2> QED
    BY <2>1 DEF Screens, Shown
<1>4. ASSUME NEW s \in Surfaces
      PROVE  LET n == client'.view[s] IN
             /\ n.expected <= runtime.offset /\ n.rev <= runtime.rev
             /\ n.phase = "live" => n.shown = UpTo(n.expected)
             /\ n.ended => n.shown = runtime.screen
  BY TurnShows
<1> QED
  BY <1>1, <1>2, <1>3, <1>4 DEF Shown, Shows, Pos

LEMMA TurnAscending ==
  ASSUME Typed, Typed', Linked, Screens, NEW f, Turns(f)
  PROVE  Ascending'
<1>1. ASSUME NEW i \in 1..Len(down'), NEW j \in 1..Len(down'), i < j, Shows(down'[i]), Shows(down'[j])
      PROVE  Pos(down'[i]) <= Pos(down'[j]) /\ down'[i].rev <= down'[j].rev
  <2>1. i + 1 \in 1..Len(down) /\ down'[i] = down[i + 1] /\ j + 1 \in 1..Len(down) /\ down'[j] = down[j + 1] /\ i + 1 < j + 1
    BY <1>1, TurnFrames
  <2> QED
    BY <1>1, <2>1 DEF Screens, Ascending
<1>2. ASSUME NEW s \in Surfaces, NEW i \in 1..Len(down'), Shows(down'[i])
      PROVE  client'.view[s].expected <= Pos(down'[i]) /\ client'.view[s].rev <= down'[i].rev
  <2>1. PICK v : v = client.view[s]
    OBVIOUS
  <2>2. PICK n : n = client'.view[s]
    OBVIOUS
  <2>3. PICK g : g = down'[i]
    OBVIOUS
  <2>4. i + 1 \in 1..Len(down) /\ g = down[i + 1] /\ g \in DownFrame /\ f \in DownFrame /\ down[1] = f /\ 1 \in 1..Len(down) /\ 1 < i + 1
    BY <2>3, TurnFrames
  <2>5. v.expected <= Pos(g) /\ v.rev <= g.rev
    BY <1>2, <2>1, <2>3, <2>4 DEF Screens, Ascending
  <2>6. Shows(f) => Pos(f) <= Pos(g) /\ f.rev <= g.rev
    BY <1>2, <2>3, <2>4 DEF Screens, Ascending
  <2>7. /\ v \in View /\ v.expected \in Nat /\ v.rev \in Nat /\ n.expected \in Nat /\ n.rev \in Nat
        /\ Pos(g) \in Nat /\ g.rev \in Nat
    BY <1>2, <2>1, <2>2, <2>3, <2>4, ViewsAre, ViewsNext, KindIs
  <2>8. Turned(v, n, f)
    BY <2>1, <2>2 DEF Turns
  <2>9. n.expected <= Pos(g) /\ n.rev <= g.rev
    <3>1. CASE Loose(v, n)
      BY <2>5, <2>7, <3>1 DEF Loose
    <3>2. CASE f.kind = "ack" /\ Answered(v, n, f)
      BY <2>5, <2>7, <3>2 DEF Answered
    <3>3. CASE f.kind = "snapshot" /\ v.chan = f.chan /\ n = TakenView(v, f)
      <4>1. n.rev = f.rev /\ n.expected = f.offset
        BY <2>4, <2>7, <3>3, TurnFields
      <4> QED
        BY <2>6, <3>3, <4>1 DEF Shows, Pos
    <3>4. CASE f.kind = "output" /\ v.chan = f.chan /\ v.phase = "live" /\ f.chunk = v.expected + 1 /\ n = WrittenView(v, f)
      <4>1. n.rev = f.rev /\ n.expected = f.chunk
        BY <2>4, <2>7, <3>4, TurnFields
      <4> QED
        BY <2>6, <3>4, <4>1 DEF Shows, Pos
    <3>5. CASE f.kind = "exit" /\ v.chan = f.chan /\ n = [v EXCEPT !.ended = TRUE]
      <4>1. n.rev = v.rev /\ n.expected = v.expected
        BY <2>4, <2>7, <3>5, TurnFields
      <4> QED
        BY <2>5, <4>1
    <3> QED
      BY <2>8, <3>1, <3>2, <3>3, <3>4, <3>5 DEF Turned
  <2> QED
    BY <2>2, <2>3, <2>9
<1> QED
  BY <1>1, <1>2 DEF Ascending, Shows, Pos

(* A surface has the channel it had, the one of the ACK, or none. *)
LEMMA TurnChan ==
  ASSUME Typed, Typed', NEW f, Turns(f), NEW s \in Surfaces
  PROVE  \/ client'.view[s].chan \in {client.view[s].chan, None}
         \/ f.kind = "ack" /\ client'.view[s].chan = f.chan
<1>1. PICK v : v = client.view[s]
  OBVIOUS
<1>2. PICK n : n = client'.view[s]
  OBVIOUS
<1>3. Turned(v, n, f) /\ v \in View /\ f \in DownFrame
  BY <1>1, <1>2, ViewsAre, TurnFrames DEF Turns
<1>4. n.chan \in {v.chan, None} \/ (f.kind = "ack" /\ n.chan = f.chan)
  <2>1. CASE Loose(v, n)
    BY <2>1 DEF Loose
  <2>2. f.kind = "snapshot" /\ n = TakenView(v, f) => n.chan = v.chan
    BY <1>3, TurnFields
  <2>3. f.kind = "output" /\ n = WrittenView(v, f) => n.chan = v.chan
    BY <1>3, TurnFields
  <2>4. n = [v EXCEPT !.ended = TRUE] => n.chan = v.chan
    BY <1>3, TurnFields
  <2> QED
    BY <1>3, <2>1, <2>2, <2>3, <2>4 DEF Turned
<1> QED
  BY <1>1, <1>2, <1>4

LEMMA TurnFresh ==
  ASSUME Typed, Typed', Screens, NEW f, Turns(f), FreshUp
  PROVE  Fresh'
<1>1. runtime' = runtime /\ runtime.next \in Nat /\ runtime.next >= 1
  BY RuntimeIs DEF Turns
<1>2. ASSUME NEW i \in 1..Len(down'), Addressed(down'[i]) PROVE down'[i].chan \in 1..(runtime.next - 1)
  <2>1. i + 1 \in 1..Len(down) /\ down'[i] = down[i + 1]
    BY TurnFrames
  <2> QED
    BY <1>2, <2>1 DEF Screens, Fresh
<1>3. ASSUME NEW s \in Surfaces PROVE client'.view[s].chan \in 0..(runtime.next - 1)
  <2>1. client.view[s].chan \in 0..(runtime.next - 1)
    BY DEF Screens, Fresh
  <2>2. f.kind = "ack" => f.chan \in 1..(runtime.next - 1)
    <3>1. 1 \in 1..Len(down) /\ down[1] = f
      BY TurnFrames
    <3> QED
      BY <3>1 DEF Screens, Fresh, Addressed
  <2> QED
    BY <1>1, <2>1, <2>2, TurnChan DEF None
<1> QED
  BY <1>1, <1>2, <1>3 DEF Fresh, FreshUp, Addressed

LEMMA TurnAckFirst ==
  ASSUME Typed, Typed', Screens, NEW f, Turns(f)
  PROVE  AckFirst'
<1>1. 1 \in 1..Len(down) /\ down[1] = f /\ down # <<>> /\ f = Head(down)
  BY TurnFrames DEF Turns
<1>2. f.kind = "ack" => f.chan # None /\ \A s \in Surfaces : client.view[s].chan # f.chan
  BY <1>1, HeadMine DEF Addressed
<1>3. ASSUME NEW i \in 1..Len(down'), down'[i].kind = "ack"
      PROVE  /\ \A j \in 1..Len(down') : j # i /\ Addressed(down'[j]) /\ down'[j].chan = down'[i].chan =>
                    i < j /\ down'[j].kind # "ack"
             /\ \A s \in Surfaces : client'.view[s].chan # down'[i].chan
  <2>1. i + 1 \in 1..Len(down) /\ down'[i] = down[i + 1] /\ i \in Nat
    BY TurnFrames
  <2>2. /\ \A j \in 1..Len(down) : j # i + 1 /\ Addressed(down[j]) /\ down[j].chan = down[i + 1].chan =>
               i + 1 < j /\ down[j].kind # "ack"
        /\ \A s \in Surfaces : client.view[s].chan # down[i + 1].chan
    BY <1>3, <2>1 DEF Screens, AckFirst
  <2>3. ASSUME NEW j \in 1..Len(down'), j # i, Addressed(down'[j]), down'[j].chan = down'[i].chan
        PROVE  i < j /\ down'[j].kind # "ack"
    <3>1. j + 1 \in 1..Len(down) /\ down'[j] = down[j + 1] /\ j + 1 # i + 1 /\ j \in Nat
      BY <2>1, <2>3, TurnFrames
    <3>2. i + 1 < j + 1 /\ down[j + 1].kind # "ack"
      BY <2>1, <2>2, <2>3, <3>1
    <3> QED
      BY <2>1, <3>1, <3>2
  <2>4. ASSUME NEW s \in Surfaces PROVE client'.view[s].chan # down'[i].chan
    <3>1. down[i + 1].chan # None
      <4>1. down[i + 1].chan \in 1..(runtime.next - 1)
        BY <1>3, <2>1 DEF Screens, Fresh, Addressed
      <4> QED
        BY <4>1, RuntimeIs DEF None
    <3>2. f.kind = "ack" => f.chan # down[i + 1].chan
      <4>1. 1 # i + 1 /\ ~(i + 1 < 1)
        BY <2>1
      <4> QED
        BY <1>1, <2>2, <4>1 DEF Addressed
    <3> QED
      BY <2>1, <2>2, <3>1, <3>2, TurnChan
  <2> QED
    BY <2>3, <2>4
<1>4. ASSUME NEW s \in Surfaces, NEW t \in Surfaces, client'.view[s].chan = client'.view[t].chan, client'.view[s].chan # None
      PROVE  s = t
  <2>1. /\ client'.view[s].chan = client.view[s].chan \/ (f.kind = "ack" /\ client'.view[s].chan = f.chan)
        /\ client'.view[t].chan = client.view[t].chan \/ (f.kind = "ack" /\ client'.view[t].chan = f.chan)
    BY <1>4, TurnChan
  <2>2. CASE client'.view[s].chan = client.view[s].chan /\ client'.view[t].chan = client.view[t].chan
    BY <1>4, <2>2 DEF Screens, AckFirst
  <2>3. CASE f.kind = "ack" /\ client'.view[s].chan = f.chan
    <3>1. client'.view[s].chan # client.view[s].chan /\ client'.view[t].chan # client.view[t].chan
      BY <1>2, <1>4, <2>3
    <3> QED
      BY <3>1 DEF Turns
  <2> QED
    BY <1>2, <1>4, <2>1, <2>2, <2>3
<1> QED
  BY <1>3, <1>4 DEF AckFirst, Addressed
(* A surface that has channel c had it when it had been opened. *)
LEMMA TurnKept ==
  ASSUME Typed, Typed', Screens, NEW f, Turns(f), NEW c, c # None, Opened(c), NEW s \in Surfaces,
         client'.view[s].chan = c
  PROVE  LET v == client.view[s]
             n == client'.view[s]
         IN  /\ v.chan = c /\ n.expected >= v.expected
             /\ v.phase = "live" => n.phase = "live"
<1>1. PICK v : v = client.view[s]
  OBVIOUS
<1>2. PICK n : n = client'.view[s]
  OBVIOUS
<1>3. /\ v \in View /\ v.expected \in Nat /\ n.expected \in Nat /\ f \in DownFrame /\ n.chan = c
      /\ 1 \in 1..Len(down) /\ down[1] = f
  BY <1>1, <1>2, ViewsAre, ViewsNext, TurnFrames
<1>4. ~(f.kind = "ack" /\ f.chan = c)
  BY <1>3, KindIs DEF Opened
<1>5. Turned(v, n, f)
  BY <1>1, <1>2 DEF Turns
<1>6. v.chan = c /\ n.expected >= v.expected /\ (v.phase = "live" => n.phase = "live")
  <2>1. CASE Loose(v, n)
    BY <1>3, <2>1 DEF Loose
  <2>2. CASE f.kind = "snapshot" /\ v.chan = f.chan /\ n = TakenView(v, f)
    <3>1. v.expected <= f.offset
      BY <1>1, <2>2, ScreensHead
    <3>2. n.chan = v.chan /\ n.phase = "live" /\ n.expected = f.offset
      BY <1>3, <2>2, TurnFields
    <3> QED
      BY <1>3, <3>1, <3>2
  <2>3. CASE f.kind = "output" /\ v.chan = f.chan /\ v.phase = "live" /\ f.chunk = v.expected + 1 /\ n = WrittenView(v, f)
    <3>1. n.chan = v.chan /\ n.phase = v.phase /\ n.expected = f.chunk
      BY <1>3, <2>3, TurnFields
    <3> QED
      BY <1>3, <2>3, <3>1
  <2>4. CASE f.kind = "exit" /\ v.chan = f.chan /\ n = [v EXCEPT !.ended = TRUE]
    <3>1. n.chan = v.chan /\ n.phase = v.phase /\ n.expected = v.expected
      BY <1>3, <2>4, TurnFields
    <3> QED
      BY <1>3, <3>1
  <2> QED
    BY <1>3, <1>4, <1>5, <2>1, <2>2, <2>3, <2>4 DEF Turned
<1> QED
  BY <1>1, <1>2, <1>6

LEMMA TurnOpened ==
  ASSUME Typed, Typed', NEW f, Turns(f), NEW c, Opened(c)
  PROVE  Opened(c)'
<1>1. \A i \in 1..Len(down') : i + 1 \in 1..Len(down) /\ down'[i] = down[i + 1]
  BY TurnFrames
<1>2. \A i \in 1..Len(down) : down[i] # Ack(c)
  BY DEF Opened
<1>3. \A i \in 1..Len(down') : down'[i] # Ack(c)
  BY <1>1, <1>2
<1> QED
  BY <1>3 DEF Opened, Ack

(* A frame of a channel finds it opened. *)
LEMMA HeadOpened ==
  ASSUME Typed, Typed', Screens, NEW f, Turns(f), f.kind \in {"snapshot", "output"}
  PROVE  Opened(f.chan)
<1>1. 1 \in 1..Len(down) /\ down[1] = f /\ Addressed(f)
  BY TurnFrames DEF Addressed
<1>2. SUFFICES ASSUME NEW i \in 1..Len(down), down[i] = Ack(f.chan) PROVE FALSE
  BY DEF Opened
<1>3. down[i].kind = "ack" /\ down[i].chan = f.chan
  BY <1>2, KindsAre
<1>4. 1 # i /\ ~(i < 1)
  BY <1>1, <1>2, <1>3
<1> QED
  BY <1>1, <1>3, <1>4 DEF Screens, AckFirst

(* What is shown of a frame once it is read. *)
LEMMA HeadShows ==
  ASSUME Typed, Typed', Screens, NEW f, Turns(f), f.kind \in {"snapshot", "output"}, NEW s \in Surfaces,
         client'.view[s].chan = f.chan
  PROVE  /\ client'.view[s].phase = "live"
         /\ f.kind = "snapshot" => client'.view[s].expected = f.offset
         /\ f.kind = "output" => f.chunk <= client'.view[s].expected
<1>1. PICK v : v = client.view[s]
  OBVIOUS
<1>2. PICK n : n = client'.view[s]
  OBVIOUS
<1>3. /\ v \in View /\ v.expected \in Nat /\ n.expected \in Nat /\ f \in DownFrame /\ n.chan = f.chan
      /\ f.chan # None /\ Addressed(f)
  <2>1. down # <<>> /\ f = Head(down) /\ Addressed(f)
    BY DEF Turns, Addressed
  <2>2. f.chan # None
    BY <2>1, HeadMine
  <2> QED
    BY <1>1, <1>2, <2>1, <2>2, ViewsAre, ViewsNext, TurnFrames
<1>4. v.chan = f.chan
  BY <1>1, <1>2, <1>3, HeadOpened, TurnKept
<1>5. Turned(v, n, f)
  BY <1>1, <1>2 DEF Turns
<1>6. /\ n.phase = "live"
      /\ f.kind = "snapshot" => n.expected = f.offset
      /\ f.kind = "output" => f.chunk <= n.expected
  <2>1. CASE Loose(v, n) /\ f.kind = "output" /\ v.phase = "live" /\ f.chunk <= v.expected
    BY <1>3, <1>4, <2>1 DEF Loose
  <2>2. CASE f.kind = "snapshot" /\ n = TakenView(v, f)
    BY <1>3, <2>2, TurnFields
  <2>3. CASE f.kind = "output" /\ v.phase = "live" /\ n = WrittenView(v, f) /\ f.chunk = v.expected + 1
    <3>1. n.phase = v.phase /\ n.expected = f.chunk
      BY <1>3, <2>3, TurnFields
    <3> QED
      BY <1>3, <2>3, <3>1
  <2> QED
    BY <1>3, <1>4, <1>5, <2>1, <2>2, <2>3 DEF Turned
<1> QED
  BY <1>1, <1>2, <1>6

(* What was told up to a position was told up to the one before, or shown. *)
LEMMA TurnTold ==
  ASSUME Typed, Typed', Screens, NEW f, Turns(f), NEW c, c # None, NEW n \in Nat
  PROVE  /\ Based(c, n + 1) => Based(c, n)'
         /\ \A k \in Nat : Heard(c, k, n + 1) => Heard(c, k, n)'
<1>1. /\ 1 \in 1..Len(down) /\ down[1] = f /\ f \in DownFrame
      /\ \A i \in 1..Len(down) : i = 1 \/ \E k \in 1..Len(down') : i = k + 1 /\ down[i] = down'[k]
  BY TurnFrames
<1>2. ASSUME Opened(c), \A s \in Surfaces : client.view[s].chan = c => client.view[s].phase = "live"
      PROVE  Based(c, n)'
  <2>1. \A s \in Surfaces : client'.view[s].chan = c => client'.view[s].phase = "live"
    BY <1>2, TurnKept
  <2>2. Opened(c)'
    BY <1>2, TurnOpened
  <2> QED
    BY <2>1, <2>2 DEF Based
<1>3. ASSUME NEW j \in 1..Len(down), j < n + 1, down[j].kind = "snapshot", down[j].chan = c
      PROVE  Based(c, n)'
  <2>1. CASE j = 1
    <3>1. f.kind = "snapshot" /\ f.chan = c
      BY <1>1, <1>3, <2>1
    <3>2. Opened(c)'
      BY <3>1, HeadOpened, TurnOpened
    <3>3. \A s \in Surfaces : client'.view[s].chan = c => client'.view[s].phase = "live"
      BY <3>1, HeadShows
    <3> QED
      BY <3>2, <3>3 DEF Based
  <2>2. ASSUME NEW k \in 1..Len(down'), j = k + 1, down[j] = down'[k] PROVE Based(c, n)'
    <3>1. k < n
      BY <1>3, <2>2, TurnFrames
    <3> QED
      BY <1>3, <2>2, <3>1 DEF Based
  <2> QED
    BY <1>1, <2>1, <2>2
<1>4. ASSUME NEW k \in Nat, Opened(c), \A s \in Surfaces : client.view[s].chan = c => k <= client.view[s].expected
      PROVE  Heard(c, k, n)'
  <2>1. ASSUME NEW s \in Surfaces, client'.view[s].chan = c PROVE k <= client'.view[s].expected
    <3>1. client.view[s].chan = c /\ client'.view[s].expected >= client.view[s].expected
      BY <1>4, <2>1, TurnKept
    <3>2. client.view[s].expected \in Nat /\ client'.view[s].expected \in Nat
      BY ViewsAre, ViewsNext
    <3> QED
      BY <1>4, <3>1, <3>2
  <2>2. Opened(c)'
    BY <1>4, TurnOpened
  <2> QED
    BY <2>1, <2>2 DEF Heard
<1>5. ASSUME NEW k \in Nat, NEW j \in 1..Len(down), j < n + 1, Shows(down[j]), down[j].chan = c,
             IF down[j].kind = "snapshot" THEN k <= down[j].offset ELSE k = down[j].chunk
      PROVE  Heard(c, k, n)'
  <2>1. CASE j = 1
    <3>1. /\ f.kind \in {"snapshot", "output"} /\ f.chan = c
          /\ IF f.kind = "snapshot" THEN k <= f.offset ELSE k = f.chunk
      BY <1>1, <1>5, <2>1 DEF Shows
    <3>2. Opened(c)'
      BY <3>1, HeadOpened, TurnOpened
    <3>3. \A s \in Surfaces : client'.view[s].chan = c => k <= client'.view[s].expected
      BY <3>1, HeadShows
    <3> QED
      BY <3>2, <3>3 DEF Heard
  <2>2. ASSUME NEW i \in 1..Len(down'), j = i + 1, down[j] = down'[i] PROVE Heard(c, k, n)'
    <3>1. i < n
      BY <1>5, <2>2, TurnFrames
    <3>2. \E m \in 1..Len(down') :
              /\ m < n /\ Shows(down'[m]) /\ down'[m].chan = c
              /\ IF down'[m].kind = "snapshot" THEN k <= down'[m].offset ELSE k = down'[m].chunk
      BY <1>5, <2>2, <3>1
    <3> QED
      BY <3>2 DEF Heard, Shows
  <2> QED
    BY <1>1, <2>1, <2>2
<1>6. Based(c, n + 1) => Based(c, n)'
  BY <1>2, <1>3 DEF Based
<1>7. ASSUME NEW k \in Nat, Heard(c, k, n + 1) PROVE Heard(c, k, n)'
  BY <1>4, <1>5, <1>7 DEF Heard
<1> QED
  BY <1>6, <1>7

LEMMA TurnStory ==
  ASSUME Typed, Typed', Linked, Screens, NEW f, Turns(f), ToldChunks' = ToldChunks
  PROVE  Story'
<1>1. runtime' = runtime /\ client'.ws = client.ws /\ client'.broken = client.broken
  BY DEF Turns
<1>2. ToldChunks \subseteq Nat
  BY RuntimeIs DEF Linked
<1>3. ASSUME NEW i \in 1..Len(down')
      PROVE  /\ i \in Nat /\ i + 1 \in 1..Len(down) /\ down'[i] = down[i + 1]
             /\ Addressed(down[i + 1]) => down[i + 1].chan # None
  <2>1. i \in Nat /\ i + 1 \in 1..Len(down) /\ down'[i] = down[i + 1]
    BY TurnFrames
  <2>2. Addressed(down[i + 1]) => down[i + 1].chan \in 1..(runtime.next - 1)
    BY <2>1 DEF Screens, Fresh
  <2> QED
    BY <2>1, <2>2, RuntimeIs DEF None
<1>4. ASSUME NEW i \in 1..Len(down'), down'[i].kind = "output" PROVE Based(down[i].chan, i)'
  <2>1. PICK c : c = down'[i].chan
    OBVIOUS
  <2>2. c # None /\ i \in Nat /\ Based(c, i + 1)
    BY <1>3, <1>4, <2>1 DEF Screens, Story, Addressed
  <2>3. Based(c, i)'
    BY <2>2, TurnTold
  <2> QED
    BY <2>1, <2>3 DEF Based
<1>5. ASSUME NEW i \in 1..Len(down'), down'[i].kind = "exit"
      PROVE  Based(down[i].chan, i)' /\ \A k \in ToldChunks' : Heard(down[i].chan, k, i)'
  <2>1. PICK c : c = down'[i].chan
    OBVIOUS
  <2>2. c # None /\ i \in Nat /\ Based(c, i + 1) /\ \A k \in ToldChunks : Heard(c, k, i + 1)
    BY <1>3, <1>5, <2>1 DEF Screens, Story, Addressed
  <2>3. Based(c, i)' /\ \A k \in ToldChunks : Heard(c, k, i)'
    BY <1>2, <2>2, TurnTold
  <2> QED
    BY <2>1, <2>3 DEF Based, Heard
<1>6. ASSUME NEW c \in Channels, runtime.subs[c].ready, Reaches(runtime.subs[c].ws)
      PROVE  Based(c, Len(down) + 1)' /\ \A k \in ToldChunks' : Heard(c, k, Len(down) + 1)'
  <2>1. PICK n : n = Len(down') + 1
    OBVIOUS
  <2>2. n \in Nat /\ n + 1 = Len(down) + 1 /\ c # None
    BY <2>1, TurnFrames, RuntimeIs
  <2>3. Based(c, n + 1) /\ \A k \in ToldChunks : Heard(c, k, n + 1)
    BY <1>6, <2>2 DEF Screens, Story
  <2>4. Based(c, n)' /\ \A k \in ToldChunks : Heard(c, k, n)'
    BY <1>2, <2>2, <2>3, TurnTold
  <2> QED
    BY <2>1, <2>4 DEF Based, Heard
<1>7. \A c \in Channels' : runtime'.subs[c].ready /\ Reaches(runtime.subs[c].ws)' =>
          Based(c, Len(down) + 1)' /\ \A k \in ToldChunks' : Heard(c, k, Len(down) + 1)'
  BY <1>1, <1>6 DEF Channels, Reaches
<1> QED
  BY <1>4, <1>5, <1>7 DEF Story, Based, Heard, Opened, Shows, Reaches

LEMMA TurnEnded ==
  ASSUME Typed, Typed', Linked, Screens, NEW f, Turns(f)
  PROVE  Ended'
<1>1. Over' = Over
  BY DEF Turns, Over
<1>2. ASSUME NEW i \in 1..Len(down'), down'[i].kind = "exit"
      PROVE  Over /\ \A j \in 1..Len(down') : i < j => down'[j].kind \in Final
  <2>1. i + 1 \in 1..Len(down) /\ down'[i] = down[i + 1]
    BY TurnFrames
  <2>2. Over /\ \A j \in 1..Len(down) : i + 1 < j => down[j].kind \in Final
    BY <1>2, <2>1 DEF Screens, Ended
  <2>3. ASSUME NEW j \in 1..Len(down'), i < j PROVE down'[j].kind \in Final
    <3>1. j + 1 \in 1..Len(down) /\ down'[j] = down[j + 1] /\ i + 1 < j + 1
      BY <2>3, TurnFrames
    <3> QED
      BY <2>2, <3>1
  <2> QED
    BY <2>2, <2>3
<1>3. ASSUME NEW s \in Surfaces, client'.view[s].ended
      PROVE  Over /\ \A j \in 1..Len(down') : down'[j].kind \in Final
  <2>1. client.view[s].ended \/ f.kind = "exit"
    BY <1>3, TurnShows
  <2>2. 1 \in 1..Len(down) /\ down[1] = f
    BY TurnFrames
  <2>3. Over /\ \A j \in 1..Len(down) : 1 < j => down[j].kind \in Final
    BY <2>1, <2>2 DEF Screens, Ended
  <2>4. ASSUME NEW j \in 1..Len(down') PROVE down'[j].kind \in Final
    <3>1. j + 1 \in 1..Len(down) /\ down'[j] = down[j + 1] /\ 1 < j + 1
      BY TurnFrames
    <3> QED
      BY <2>3, <3>1
  <2> QED
    BY <2>3, <2>4
<1> QED
  BY <1>1, <1>2, <1>3 DEF Ended, Final

LEMMA ScreensRead ==
  ASSUME Base, Linked, Screens, ClientReads, Head(down).kind # "closed"
  PROVE  Base' /\ Linked' /\ Screens'
<1>1. PICK f : f = Head(down)
  OBVIOUS
<1>2. Turns(f) /\ FreshUp /\ Base' /\ UNCHANGED <<holder, link, runtime>>
  BY <1>1, ReadTurns
<1>3. Typed /\ Typed'
  BY <1>2 DEF Base
<1>4. Linked' /\ ToldChunks' = ToldChunks
  BY <1>2, LinkedBrowser
<1>5. Shown' /\ Ascending' /\ Fresh' /\ AckFirst'
  BY <1>2, <1>3, <1>4, TurnShown, TurnAscending, TurnFresh, TurnAckFirst
<1>6. Story' /\ Ended'
  BY <1>2, <1>3, <1>4, TurnStory, TurnEnded
<1> QED
  BY <1>2, <1>4, <1>5, <1>6 DEF Screens
-----------------------------------------------------------------------------
(* The invariant, step by step.                                              *)
ScreensInv == Base /\ Linked /\ Screens

LEMMA AwaitedSame ==
  ASSUME Awaited, client' = client
  PROVE  Awaited'
BY DEF Awaited, Current

LEMMA QuietBase ==
  ASSUME Base, Quiet
  PROVE  Base'
<1>1. Typed /\ Owning /\ Socketed /\ Awaited
  BY DEF Base
<1>2. /\ UNCHANGED <<up, down, client>> /\ Typed'
      /\ runtime'.subs = runtime.subs /\ runtime'.owner = runtime.owner /\ runtime'.commanded = runtime.commanded
  BY <1>1, QuietIs
<1>3. Owning'
  BY <1>1, <1>2 DEF Owning, Owns
<1>4. Socketed'
  BY <1>1, <1>2, SocketedSame DEF Channels
<1> QED
  BY <1>1, <1>2, <1>3, <1>4, AwaitedSame DEF Base

LEMMA ReceiveBase ==
  ASSUME Base, ReceiveOutput
  PROVE  Base'
<1>1. Typed /\ Owning /\ Socketed /\ Awaited
  BY DEF Base
<1>2. Typed' /\ client' = client
  BY <1>1, ReceiveOutputIs
<1>3. Owning'
  <2>1. PICK k : k = Head(link.out)
    OBVIOUS
  <2>2. runtime' = [runtime EXCEPT !.offset = k, !.inbox = Append(@, k)]
    BY <1>1, <2>1, ReceiveOutputIs
  <2>3. runtime'.subs = runtime.subs /\ runtime'.owner = runtime.owner /\ runtime'.commanded = runtime.commanded
    BY <1>1, <2>2 DEF Typed, Sound, Runtime
  <2> QED
    BY <1>1, <2>3 DEF Owning, Owns
<1> QED
  BY <1>1, <1>2, <1>3, SocketedReceive, AwaitedSame DEF Base

(* A step of the runtime that tells the browser. *)
Telling == ReceiveOutput \/ Parse \/ ExitObserved \/ ConfirmedAbsence \/ \E w \in Sockets : RouterReads(w)

LEMMA TellingBase ==
  ASSUME Base, Telling
  PROVE  Base'
<1>1. Typed /\ Owning /\ Socketed /\ Awaited
  BY DEF Base
<1>2. CASE ReceiveOutput
  BY <1>2, ReceiveBase
<1>3. CASE Parse
  BY <1>1, <1>3, ParseIs, SocketedParse, AwaitedSame DEF Base
<1>4. CASE ExitObserved
  BY <1>1, <1>4, ExitObservedIs, SocketedExit, AwaitedSame DEF Base
<1>5. CASE ConfirmedAbsence
  BY <1>1, <1>5, ConfirmedAbsenceIs, SocketedAbsence, AwaitedSame DEF Base
<1>6. ASSUME NEW w \in Sockets, RouterReads(w) PROVE Base'
  <2>1. Typed' /\ Owning' /\ client' = client
    BY <1>1, <1>6, RouterIs DEF Takes
  <2> QED
    BY <1>1, <1>6, <2>1, SocketedRouter, AwaitedSame DEF Base
<1> QED
  BY <1>2, <1>3, <1>4, <1>5, <1>6 DEF Telling

LEMMA SameUp ==
  ASSUME up' = up
  PROVE  /\ Len(up') = Len(up)
         /\ \A x \in 1..Len(up) : \A i \in 1..Len(up'[x]) : \E j \in 1..Len(up[x]) : up'[x][i] = up[x][j]
OBVIOUS

LEMMA ScreensTelling ==
  ASSUME ScreensInv, Telling
  PROVE  ScreensInv'
<1>1. Base /\ Linked /\ Screens /\ Typed /\ Owning /\ Socketed
  BY DEF ScreensInv, Base
<1>2. Base'
  BY <1>1, TellingBase
<1>3. Linked'
  BY <1>1, LinkedReceive, LinkedParse, LinkedExit, LinkedAbsence, LinkedRouter DEF Telling
<1>4. Screens'
  <2>1. ASSUME NEW t, Grows(t), up' = up PROVE Screens'
    BY <1>1, <2>1, SameUp, ScreensGrow
  <2>2. CASE ReceiveOutput
    BY <1>1, <1>3, <2>1, <2>2, GrowsReceive
  <2>3. CASE Parse
    BY <1>1, <2>1, <2>3, GrowsParse
  <2>4. CASE ExitObserved
    BY <1>1, <2>1, <2>4, GrowsExit
  <2>5. CASE ConfirmedAbsence
    BY <1>1, <2>1, <2>5, GrowsAbsence
  <2>6. ASSUME NEW w \in Sockets, RouterReads(w) PROVE Screens'
    <3>1. /\ \E t : Grows(t)
          /\ Len(up') = Len(up)
          /\ \A x \in 1..Len(up) : \A i \in 1..Len(up'[x]) : \E j \in 1..Len(up[x]) : up'[x][i] = up[x][j]
      BY <1>1, <2>6, GrowsRouter
    <3>2. PICK t : Grows(t)
      BY <3>1
    <3> QED
      BY <1>1, <3>1, <3>2, ScreensGrow
  <2> QED
    BY <2>2, <2>3, <2>4, <2>5, <2>6 DEF Telling
<1> QED
  BY <1>2, <1>3, <1>4 DEF ScreensInv

LEMMA ScreensQuiet ==
  ASSUME ScreensInv, Quiet
  PROVE  ScreensInv'
<1>1. Base /\ Linked /\ Screens /\ Typed /\ Base' /\ Typed'
  BY QuietBase DEF ScreensInv, Base
<1>2. Linked'
  BY <1>1, LinkedQuiet
<1>3. PICK t : t = <<>>
  OBVIOUS
<1>4. Grows(t) /\ up' = up
  BY <1>1, <1>2, <1>3, GrowsQuiet
<1>5. Screens'
  BY <1>1, <1>4, SameUp, ScreensGrow
<1> QED
  BY <1>1, <1>2, <1>5 DEF ScreensInv

(* The browser's steps. *)
Browsing ==
  \/ Connect \/ ClientReads
  \/ \E n \in 0..Len(down), w \in Sockets : \E m \in 0..Len(up[w]) : SocketBreaks(w, m, n)
  \/ \E s \in Surfaces : Looks(s)

LEMMA ScreensBrowsing ==
  ASSUME ScreensInv, Browsing
  PROVE  ScreensInv'
<1>1. Base /\ Linked /\ Screens
  BY DEF ScreensInv
<1>2. CASE Connect
  BY <1>1, <1>2, OpensBase, ScreensOpens DEF ScreensInv
<1>3. CASE ClientReads
  <2>1. CASE Head(down).kind = "closed"
    BY <1>1, <1>3, <2>1, ForgetsBase, ScreensForgets DEF ScreensInv
  <2>2. CASE Head(down).kind # "closed"
    BY <1>1, <1>3, <2>2, ScreensRead DEF ScreensInv
  <2> QED
    BY <2>1, <2>2
<1>4. ASSUME NEW n \in 0..Len(down), NEW w \in Sockets, NEW m \in 0..Len(up[w]), SocketBreaks(w, m, n)
      PROVE  ScreensInv'
  <2>1. Base' /\ Breaks(w, m, n)
    BY <1>1, <1>4, BreaksBase
  <2> QED
    BY <1>1, <2>1, ScreensBreaks DEF ScreensInv
<1>5. ASSUME NEW s \in Surfaces, Looks(s) PROVE ScreensInv'
  BY <1>1, <1>5, LookBase, ScreensLook DEF ScreensInv
<1> QED
  BY <1>2, <1>3, <1>4, <1>5 DEF Browsing

LEMMA NextIs ==
  ASSUME Next
  PROVE  Quiet \/ Telling \/ Browsing
BY DEF Next, SystemStep, Quiet, Telling, Browsing, Looks

LEMMA ScreensStutters ==
  ASSUME ScreensInv, UNCHANGED vars
  PROVE  ScreensInv'
<1>1. UNCHANGED <<holder, link, runtime, up, down, client, left>>
  BY DEF vars
<1>2. Base'
  <2>1. Typed /\ Owning /\ Socketed /\ Awaited
    BY DEF ScreensInv, Base
  <2>2. Typed'
    BY <1>1, <2>1 DEF Typed
  <2> QED
    BY <1>1, <2>1, <2>2, OwningSame, SocketedSame, AwaitedSame DEF Base, Channels
<1>3. Linked'
  BY <1>1, LinkedBrowser DEF ScreensInv
<1>4. Screens'
  <2>1. Shown' /\ Ascending' /\ Fresh'
    BY <1>1 DEF ScreensInv, Screens, Shown, Ascending, Fresh, UpTo, ToldChunks, Shows, Pos, Addressed
  <2>2. AckFirst' /\ Ended'
    BY <1>1 DEF ScreensInv, Screens, AckFirst, Ended, Addressed, Over, Final
  <2>3. Story'
    BY <1>1 DEF ScreensInv, Screens, Story, Based, Heard, Opened, Shows, Channels, Reaches, ToldChunks
  <2> QED
    BY <2>1, <2>2, <2>3 DEF Screens
<1> QED
  BY <1>2, <1>3, <1>4 DEF ScreensInv
LEMMA NoSubs == <<>> \in SubsOf /\ DOMAIN <<>> = {}
<1> DEFINE f == <<>>
<1>1. DOMAIN f = {} /\ f = [c \in {} |-> f[c]]
  OBVIOUS
<1>2. f \in [{} -> Sub]
  BY <1>1
<1> QED
  BY <1>1, <1>2 DEF SubsOf

(* The initial state. *)
LEMMA InitIs ==
  ASSUME Init
  PROVE  /\ holder \in Holder /\ link \in Link /\ Sound(runtime) /\ DOMAIN runtime.subs = {} /\ runtime.next = 1
         /\ runtime.owner = None /\ runtime.screen = {} /\ runtime.inbox = <<>> /\ runtime.offset = 0
         /\ runtime.rev = 0 /\ runtime.life = "running"
         /\ holder.emitted = 0 /\ ~holder.exited /\ ~holder.gone
         /\ link.state = "up" /\ link.out = <<>> /\ ~link.slot
         /\ left \in Left /\ up \in Seq(Seq(UpFrame)) /\ Len(up) \in Nat
         /\ \A w \in 1..Len(up) : up[w] = <<>>
         /\ down = <<>>
         /\ client \in Client /\ client.ws = None /\ client.made = 0 /\ ~client.broken
         /\ client.acks = <<>> /\ client.out = <<>>
         /\ \A s \in Surfaces :
               /\ client.view[s].mount \in 1..client.mounts /\ client.view[s].chan = None
               /\ client.view[s].phase = "none" /\ client.view[s].expected = 0 /\ client.view[s].rev = 0
               /\ ~client.view[s].ended
         /\ \A s, t \in Surfaces : client.view[s].mount = client.view[t].mount => s = t
<1>1. holder \in Holder /\ holder.emitted = 0 /\ ~holder.exited /\ ~holder.gone
  BY DEF Init, Holder, None
<1>2. link \in Link /\ link.state = "up" /\ link.out = <<>> /\ ~link.slot
  BY LinkGoneIn DEF Init, Link, LinkGone
<1>3. /\ Sound(runtime) /\ DOMAIN runtime.subs = {} /\ runtime.next = 1
      /\ runtime.owner = None /\ runtime.screen = {} /\ runtime.inbox = <<>> /\ runtime.offset = 0
      /\ runtime.rev = 0 /\ runtime.life = "running"
  <2> DEFINE f == <<>>
  <2>1. f \in SubsOf /\ DOMAIN f = {}
    BY NoSubs
  <2>2. runtime = [screen |-> {}, inbox |-> <<>>, offset |-> 0, subs |-> f, next |-> 1,
                   owner |-> None, commanded |-> None, rev |-> 0, life |-> "running"]
    BY DEF Init
  <2>3. <<>> \in Seq(Nat)
    OBVIOUS
  <2> HIDE DEF f
  <2>4. runtime \in Runtime
    BY <2>1, <2>2, <2>3 DEF Runtime, Lives, None
  <2> QED
    BY <2>1, <2>2, <2>4 DEF Sound
<1>4. left \in Left
  BY ViewAssumption DEF Init, Left
<1>5. up \in Seq(Seq(UpFrame)) /\ Len(up) \in Nat /\ \A w \in 1..Len(up) : up[w] = <<>>
  <2>1. PICK n : n = left.drops + left.looks + 1
    OBVIOUS
  <2>2. n \in Nat
    BY <1>4, <2>1 DEF Left
  <2>3. up = [w \in 1..n |-> <<>>]
    BY <2>1 DEF Init
  <2>4. <<>> \in Seq(UpFrame)
    OBVIOUS
  <2> QED
    BY <2>2, <2>3, <2>4
<1>6. PICK order \in [Surfaces -> 1..Cardinality(Surfaces)] :
        /\ \A s, t \in Surfaces : order[s] = order[t] => s = t
        /\ client = [ws |-> None, made |-> 0, broken |-> FALSE, acks |-> <<>>, out |-> <<>>,
                     mounts |-> Cardinality(Surfaces),
                     view |-> [s \in Surfaces |-> NewSurface(order[s], FirstSize[s])]]
  BY DEF Init
<1>7. Cardinality(Surfaces) \in Nat
  BY ViewAssumption, FS_CardinalityType
<1>8. ASSUME NEW s \in Surfaces
      PROVE  LET v == NewSurface(order[s], FirstSize[s]) IN
             /\ v \in View /\ v.mount = order[s] /\ v.chan = None /\ v.phase = "none" /\ v.expected = 0 /\ v.rev = 0
             /\ ~v.ended
  <2>1. order[s] \in Nat
    BY <1>6, <1>7
  <2>2. NewSurface(order[s], FirstSize[s]) \in View
    BY <2>1, NewIs
  <2> QED
    BY <2>2 DEF NewSurface
<1>9. client \in Client
  <2>1. [s \in Surfaces |-> NewSurface(order[s], FirstSize[s])] \in [Surfaces -> View]
    BY <1>8
  <2>2. <<>> \in Seq(Ask) /\ <<>> \in Seq(UpFrame)
    OBVIOUS
  <2> QED
    BY <1>6, <1>7, <2>1, <2>2 DEF Client, None
<1>10. \A s \in Surfaces :
          /\ client.view[s].mount = order[s] /\ client.view[s].mount \in 1..client.mounts
          /\ client.view[s].chan = None
          /\ client.view[s].phase = "none" /\ client.view[s].expected = 0 /\ client.view[s].rev = 0
          /\ ~client.view[s].ended
  BY <1>6, <1>8
<1>11. \A s, t \in Surfaces : client.view[s].mount = client.view[t].mount => s = t
  BY <1>6, <1>10
<1>12. down = <<>> /\ client.ws = None /\ client.made = 0 /\ ~client.broken /\ client.acks = <<>> /\ client.out = <<>>
  BY <1>6 DEF Init
<1> QED
  BY <1>1, <1>2, <1>3, <1>4, <1>5, <1>9, <1>10, <1>11, <1>12

LEMMA InitBase ==
  ASSUME Init
  PROVE  Base
<1>1. Typed
  <2>1. <<>> \in Seq(DownFrame)
    OBVIOUS
  <2> QED
    BY <2>1, InitIs DEF Typed
<1>2. Owning
  BY InitIs DEF Owning, Owns
<1>3. Socketed
  <2>1. \A i \in 1..Len(down) : FALSE
    BY InitIs
  <2>2. \A w \in 1..Len(up) : \A i \in 1..Len(up[w]) : FALSE
    BY InitIs
  <2>3. Channels = {} /\ \A w : Owned(w) = {}
    BY InitIs DEF Channels, Owned
  <2> QED
    BY <2>1, <2>2, <2>3, InitIs DEF Socketed, Live
<1>4. Awaited
  <2>1. \A i \in 1..Len(client.acks) : FALSE
    BY InitIs
  <2>2. \A s \in Surfaces : client.view[s].mount \in 0..client.mounts /\ client.view[s].mount # 0
    BY InitIs DEF Client
  <2> QED
    BY <2>1, <2>2, InitIs DEF Awaited
<1> QED
  BY <1>1, <1>2, <1>3, <1>4 DEF Base

LEMMA InitScreens ==
  ASSUME Init
  PROVE  ScreensInv
<1>1. Base
  BY InitBase
<1>2. \A i \in 1..Len(down) : FALSE
  BY InitIs
<1>3. ToldChunks = {} /\ Channels = {}
  <2>1. \A i \in 1..Len(runtime.inbox) : FALSE
    BY InitIs
  <2>2. \A k : k \notin ToldChunks
    BY <2>1, InitIs, ToldAre
  <2> QED
    BY <2>2, InitIs DEF Channels
<1>4. Linked
  BY <1>3, InitIs DEF Linked, Over
<1>5. Shown /\ Ascending /\ AckFirst /\ Ended
  BY <1>2, InitIs DEF Shown, Ascending, AckFirst, Ended
<1>6. Fresh
  <2>1. \A w \in 1..Len(up) : \A i \in 1..Len(up[w]) : FALSE
    BY InitIs
  <2> QED
    BY <1>2, <2>1, InitIs DEF Fresh, None
<1>7. Story
  BY <1>2, <1>3 DEF Story
<1> QED
  BY <1>1, <1>4, <1>5, <1>6, <1>7 DEF ScreensInv, Screens

LEMMA ScreensStep ==
  ASSUME ScreensInv, [Next]_vars
  PROVE  ScreensInv'
BY NextIs, ScreensQuiet, ScreensTelling, ScreensBrowsing, ScreensStutters

(* The invariant of the screens holds throughout: types, the longest-standing *)
(* channel's ownership of the size, what the sockets hold, who waits for an   *)
(* answer, the holder's link, and the story every channel is told.            *)
THEOREM ScreensInvariant == Spec => []ScreensInv
<1>1. Init => ScreensInv
  BY InitScreens
<1>2. ScreensInv /\ [Next]_vars => ScreensInv'
  BY ScreensStep
<1> QED
  BY <1>1, <1>2, PTL DEF Spec

(* A surface that has its baseline shows every chunk told so far up to the    *)
(* point it has read, none twice and none skipped; one that was told of the   *)
(* exit shows the whole final screen (daemonTerminalBroker.ts and             *)
(* binaryTerminalBrokerClient.ts).                                            *)
THEOREM SurfacesShowTheScreen == Spec => []ScreenAgrees
<1>1. ScreensInv => ScreenAgrees
  BY DEF ScreensInv, Screens, Shown, UpTo, ScreenAgrees
<1> QED
  BY <1>1, ScreensInvariant, PTL
-----------------------------------------------------------------------------
(* Pairing.  Every request on its way has its answer awaited, in their order; *)
(* every channel acknowledged or taken serves the mount that asked for it;    *)
(* what is on its way to be given back nobody has, and a channel nobody has   *)
(* is being acknowledged or given back.                                       *)
Answers == {"ack", "error"}
Asks == {"subscribe"}
Up == up[client.ws]
Serves(c, a) ==
    runtime.life # "retired" =>
        /\ c \in Channels /\ runtime.subs[c].ws = client.ws
        /\ runtime.subs[c].surf = a.surf /\ runtime.subs[c].mount = a.mount
Serving == {p \in Nat \X Ask : Serves(p[1], p[2])}
Viewed(c) == \E s \in Surfaces : client.view[s].chan = c
Given(c) == \E i \in 1..Len(Up) : Up[i].kind = "unsubscribe" /\ Up[i].chan = c

(* The pairing of answers with requests: d is on its way to the browser, u to *)
(* the router, k the requests unanswered, T who serves whom.                  *)
Fitting(a, f) == a.surf = f.surf /\ a.mount = f.mount
Matches(T, d, u, k) ==
  /\ Len(k) = Count(d, Answers) + Count(u, Asks)
  /\ \A i \in 1..Len(d) : d[i].kind = "ack" => <<d[i].chan, k[Rank(d, Answers, i)]>> \in T
  /\ \A i \in 1..Len(u) : u[i].kind = "subscribe" => Fitting(k[Count(d, Answers) + Rank(u, Asks, i)], u[i])

LEMMA CountNat ==
  ASSUME NEW F, NEW s \in Seq(F), NEW K
  PROVE  /\ Count(s, K) \in Nat /\ Count(s, K) = Rank(s, K, Len(s)) /\ Len(s) \in Nat
         /\ \A i \in 1..Len(s) : s[i].kind \in K => Rank(s, K, i) \in 1..Count(s, K)
<1>1. Len(s) \in Nat
  OBVIOUS
<1>2. Count(s, K) = Rank(s, K, Len(s))
  BY CountIs
<1>3. Count(s, K) \in Nat
  BY <1>1, <1>2, RankNat
<1>4. \A i \in 1..Len(s) : s[i].kind \in K => Rank(s, K, i) \in 1..Count(s, K)
  BY <1>1, <1>2, RankIn
<1> QED
  BY <1>1, <1>2, <1>3, <1>4

LEMMA AnswersAppend ==
  ASSUME NEW F, NEW s \in Seq(F), NEW t \in Seq(F)
  PROVE  /\ \A i \in 0..Len(s) : Rank(s \o t, Answers, i) = Rank(s, Answers, i)
         /\ \A i \in 0..Len(t) : Rank(s \o t, Answers, Len(s) + i) = Count(s, Answers) + Rank(t, Answers, i)
         /\ Count(s \o t, Answers) = Count(s, Answers) + Count(t, Answers)
         /\ Count(s, Answers) \in Nat /\ Count(t, Answers) \in Nat
<1>1. \A i \in 0..Len(s) : Rank(s \o t, Answers, i) = Rank(s, Answers, i)
  <2> TAKE i \in 0..Len(s)
  <2>1. i \in Nat /\ \A j \in 1..i : (s \o t)[j] = s[j]
    OBVIOUS
  <2> QED
    BY <2>1, RankEq
<1>2. \A i \in 0..Len(t) : Rank(s \o t, Answers, Len(s) + i) = Count(s, Answers) + Rank(t, Answers, i)
  <2> TAKE i \in 0..Len(t)
  <2> QED
    BY RankAppend
<1>3. /\ Count(s \o t, Answers) = Count(s, Answers) + Count(t, Answers)
      /\ Count(s, Answers) \in Nat /\ Count(t, Answers) \in Nat
  BY RankAppend
<1> QED
  BY <1>1, <1>2, <1>3

(* Requests are made, with the frames that carry them. *)
LEMMA MatchUp ==
  ASSUME NEW D, NEW U, NEW d \in Seq(D), NEW u \in Seq(U), NEW o \in Seq(U), NEW k \in Seq(Ask), NEW a \in Seq(Ask),
         NEW T, Matches(T, d, u, k), Len(a) = Count(o, Asks),
         \A i \in 1..Len(o) : o[i].kind = "subscribe" => Fitting(a[Rank(o, Asks, i)], o[i])
  PROVE  Matches(T, d, u \o o, k \o a)
<1>0. /\ Len(k \o a) = Len(k) + Len(a)
      /\ \A i \in 1..Len(k) : (k \o a)[i] = k[i]
      /\ \A i \in 1..Len(a) : (k \o a)[Len(k) + i] = a[i]
  <2>1. Len(k \o a) = Len(k) + Len(a)
    BY JoinedAt
  <2>2. \A i \in 1..Len(k) : (k \o a)[i] = k[i]
    BY JoinedAt
  <2>3. \A i \in 1..Len(a) : (k \o a)[Len(k) + i] = a[i]
    BY JoinedAt
  <2> QED
    BY <2>1, <2>2, <2>3
<1>a. \A i \in 1..Len(u \o o) : \/ i \in 1..Len(u) /\ (u \o o)[i] = u[i]
                              \/ \E j \in 1..Len(o) : i = Len(u) + j /\ (u \o o)[i] = o[j]
  BY JoinedAt
<1>b. Len(u) \in Nat /\ Len(o) \in Nat
  OBVIOUS
<1> DEFINE n == Count(d, Answers)
           m == Count(u, Asks)
           l == Count(o, Asks)
           w == u \o o
           q == k \o a
<1>1. /\ n \in Nat /\ m \in Nat /\ l \in Nat /\ Len(k) = n + m /\ Len(a) = l
      /\ \A i \in 1..Len(d) : d[i].kind \in Answers => Rank(d, Answers, i) \in 1..n
      /\ \A i \in 1..Len(u) : u[i].kind \in Asks => Rank(u, Asks, i) \in 1..m
      /\ \A i \in 1..Len(o) : o[i].kind \in Asks => Rank(o, Asks, i) \in 1..l
  BY CountNat DEF Matches
<1>2. /\ Count(w, Asks) = m + l
      /\ \A i \in 0..Len(u) : Rank(w, Asks, i) = Rank(u, Asks, i)
      /\ \A i \in 0..Len(o) : Rank(w, Asks, Len(u) + i) = m + Rank(o, Asks, i)
  BY RankAppend
<1>3. /\ Len(q) = n + m + l
      /\ \A i \in 1..(n + m) : q[i] = k[i]
      /\ \A i \in 1..l : q[n + m + i] = a[i]
  <2> HIDE DEF n, m, l, w
  <2> QED
    BY <1>0, <1>1
<1>4. \A i \in 1..Len(w) : \/ i \in 1..Len(u) /\ w[i] = u[i]
                         \/ \E j \in 1..Len(o) : i = Len(u) + j /\ w[i] = o[j]
  BY <1>a DEF w
<1> HIDE DEF n, m, l, w, q
<1>5. ASSUME NEW i \in 1..Len(d), d[i].kind = "ack" PROVE <<d[i].chan, q[Rank(d, Answers, i)]>> \in T
  <2>1. Rank(d, Answers, i) \in 1..n
    BY <1>1, <1>5 DEF Answers
  <2>2. q[Rank(d, Answers, i)] = k[Rank(d, Answers, i)]
    BY <1>1, <1>3, <2>1
  <2> QED
    BY <1>5, <2>2 DEF Matches
<1>6. ASSUME NEW i \in 1..Len(w), w[i].kind = "subscribe" PROVE Fitting(q[n + Rank(w, Asks, i)], w[i])
  <2>1. CASE i \in 1..Len(u) /\ w[i] = u[i]
    <3>0. i \in 0..Len(u) /\ u[i].kind \in Asks
      BY <1>b, <1>6, <2>1 DEF Asks
    <3>1. Rank(u, Asks, i) \in 1..m /\ Rank(w, Asks, i) = Rank(u, Asks, i)
      BY <1>1, <1>2, <2>1, <3>0
    <3>2. q[n + Rank(u, Asks, i)] = k[n + Rank(u, Asks, i)]
      BY <1>1, <1>3, <3>1
    <3> QED
      BY <1>6, <2>1, <3>1, <3>2 DEF Matches, n
  <2>2. ASSUME NEW j \in 1..Len(o), i = Len(u) + j, w[i] = o[j] PROVE Fitting(q[n + Rank(w, Asks, i)], w[i])
    <3>0. j \in 0..Len(o) /\ o[j].kind \in Asks
      BY <1>b, <1>6, <2>2 DEF Asks
    <3>1. Rank(o, Asks, j) \in 1..l /\ Rank(w, Asks, i) = m + Rank(o, Asks, j)
      BY <1>1, <1>2, <2>2, <3>0
    <3>2. n + Rank(w, Asks, i) = n + m + Rank(o, Asks, j)
      BY <1>1, <3>1
    <3>3. q[n + Rank(w, Asks, i)] = a[Rank(o, Asks, j)]
      BY <1>3, <3>1, <3>2
    <3> QED
      BY <1>6, <2>2, <3>3
  <2> QED
    BY <1>4, <2>1, <2>2
<1>7. Len(q) = n + Count(w, Asks)
  BY <1>1, <1>2, <1>3
<1> QED
  BY <1>5, <1>6, <1>7 DEF Matches, n, w, q

(* Frames that answer nothing are told. *)
LEMMA MatchTold ==
  ASSUME NEW D, NEW d \in Seq(D), NEW t \in Seq(D), NEW u, NEW k, NEW T, Matches(T, d, u, k),
         \A i \in 1..Len(t) : t[i].kind \notin Answers
  PROVE  Matches(T, d \o t, u, k)
<1> DEFINE e == d \o t
<1>1. /\ Count(e, Answers) = Count(d, Answers)
      /\ \A i \in 0..Len(d) : Rank(e, Answers, i) = Rank(d, Answers, i)
  <2>1. /\ Count(e, Answers) = Count(d, Answers) + Count(t, Answers) /\ Count(d, Answers) \in Nat
        /\ \A i \in 0..Len(d) : Rank(e, Answers, i) = Rank(d, Answers, i)
    BY AnswersAppend
  <2>2. Count(t, Answers) = 0
    BY CountNone
  <2> QED
    BY <2>1, <2>2
<1>2. \A i \in 1..Len(e) : \/ i \in 1..Len(d) /\ e[i] = d[i]
                           \/ \E j \in 1..Len(t) : i = Len(d) + j /\ e[i] = t[j]
  BY JoinedAt
<1> HIDE DEF e
<1>3. ASSUME NEW i \in 1..Len(e), e[i].kind = "ack" PROVE <<e[i].chan, k[Rank(e, Answers, i)]>> \in T
  <2>0. e[i].kind \in Answers
    BY <1>3 DEF Answers
  <2>1. i \in 1..Len(d) /\ e[i] = d[i]
    <3>1. \A j \in 1..Len(t) : e[i] # t[j]
      BY <2>0
    <3> QED
      BY <1>2, <3>1
  <2>2. i \in 0..Len(d)
    BY <2>1
  <2> QED
    BY <1>1, <1>3, <2>1, <2>2 DEF Matches
<1> QED
  BY <1>1, <1>3 DEF Matches, e

(* A request is answered: the first of t is the answer. *)
LEMMA MatchServe ==
  ASSUME NEW D, NEW U, NEW d \in Seq(D), NEW t \in Seq(D), NEW u \in Seq(U), NEW k \in Seq(Ask), NEW T, NEW S,
         Matches(T, d, u, k), u # <<>>, Head(u).kind = "subscribe", t # <<>>, t[1].kind \in Answers,
         \A i \in 1..Len(t) : i # 1 => t[i].kind \notin Answers,
         \A i \in 1..Len(d), a \in Ask : d[i].kind = "ack" /\ <<d[i].chan, a>> \in T => <<d[i].chan, a>> \in S,
         t[1].kind = "ack" => \A a \in Ask : Fitting(a, Head(u)) => <<t[1].chan, a>> \in S
  PROVE  Matches(S, d \o t, Tail(u), k)
<1> DEFINE n == Count(d, Answers)
           m == Count(u, Asks)
           e == d \o t
           w == Tail(u)
<1>1. /\ n \in Nat /\ m \in Nat /\ Len(k) = n + m
      /\ \A i \in 1..Len(d) : d[i].kind \in Answers => Rank(d, Answers, i) \in 1..n
      /\ \A i \in 1..Len(u) : u[i].kind \in Asks => Rank(u, Asks, i) \in 1..m
  BY CountNat DEF Matches
<1>2. /\ \A i \in 0..Len(w) : Rank(u, Asks, i + 1) = 1 + Rank(w, Asks, i)
      /\ m = 1 + Count(w, Asks) /\ Count(w, Asks) \in Nat
  BY RankTail DEF Asks
<1>3. /\ u[1] = Head(u) /\ 1 \in 1..Len(u) /\ Len(w) \in Nat
      /\ \A i \in 1..Len(w) : i + 1 \in 1..Len(u) /\ w[i] = u[i + 1]
  BY TailAt
<1>4. /\ Len(t) \in Nat /\ 1 \in 1..Len(t) /\ t[1] \in D
  BY TailAt
<1>5. Count(t, Answers) = 1 /\ Rank(t, Answers, 1) = 1
  <2>1. /\ \A i \in 0..Len(Tail(t)) : Rank(t, Answers, i + 1) = 1 + Rank(Tail(t), Answers, i)
        /\ Count(t, Answers) = 1 + Count(Tail(t), Answers)
    BY RankTail, TailAt
  <2>2. \A i \in 1..Len(Tail(t)) : Tail(t)[i].kind \notin Answers
    <3>1. \A i \in 1..Len(Tail(t)) : i + 1 \in 1..Len(t) /\ Tail(t)[i] = t[i + 1] /\ i + 1 # 1
      BY TailAt
    <3> QED
      BY <3>1
  <2>3. Tail(t) \in Seq(D) /\ Len(Tail(t)) \in Nat
    BY TailAt
  <2>4. Count(Tail(t), Answers) = 0 /\ \A i \in 0..Len(Tail(t)) : Rank(Tail(t), Answers, i) = 0
    BY <2>2, <2>3, CountNone
  <2>5. 0 \in 0..Len(Tail(t)) /\ 0 + 1 = 1
    BY <2>3
  <2> QED
    BY <2>1, <2>4, <2>5
<1>6. /\ Count(e, Answers) = n + 1
      /\ \A i \in 0..Len(d) : Rank(e, Answers, i) = Rank(d, Answers, i)
      /\ Rank(e, Answers, Len(d) + 1) = n + 1
  <2>1. /\ Count(e, Answers) = n + Count(t, Answers)
        /\ \A i \in 0..Len(d) : Rank(e, Answers, i) = Rank(d, Answers, i)
        /\ \A i \in 0..Len(t) : Rank(e, Answers, Len(d) + i) = n + Rank(t, Answers, i)
    BY AnswersAppend
  <2>2. 1 \in 0..Len(t)
    BY <1>4
  <2> QED
    BY <1>5, <2>1, <2>2
<1>7. \A i \in 1..Len(e) : \/ i \in 1..Len(d) /\ e[i] = d[i]
                           \/ \E j \in 1..Len(t) : i = Len(d) + j /\ e[i] = t[j]
  BY JoinedAt
<1>8. Fitting(k[n + 1], Head(u)) /\ k[n + 1] \in Ask
  <2>1. Rank(u, Asks, 1) = 1
    <3>1. 0 \in 0..Len(w) /\ 0 + 1 = 1
      BY <1>3
    <3>2. Rank(w, Asks, 0) = 0
      BY RankZero
    <3> QED
      BY <1>2, <3>1, <3>2
  <2>2. n + 1 \in 1..Len(k)
    BY <1>1, <1>2
  <2>3. Fitting(k[n + Rank(u, Asks, 1)], u[1])
    BY <1>3 DEF Matches
  <2> QED
    BY <1>3, <2>1, <2>2, <2>3
<1> HIDE DEF n, m, e, w
<1>9. ASSUME NEW i \in 1..Len(e), e[i].kind = "ack" PROVE <<e[i].chan, k[Rank(e, Answers, i)]>> \in S
  <2>1. CASE i \in 1..Len(d) /\ e[i] = d[i]
    <3>1. Rank(d, Answers, i) \in 1..n /\ Rank(e, Answers, i) = Rank(d, Answers, i)
      BY <1>1, <1>6, <1>9, <2>1 DEF Answers
    <3>2. k[Rank(d, Answers, i)] \in Ask
      BY <1>1, <3>1
    <3>3. <<d[i].chan, k[Rank(d, Answers, i)]>> \in T
      BY <1>9, <2>1 DEF Matches
    <3> QED
      BY <1>9, <2>1, <3>1, <3>2, <3>3
  <2>2. ASSUME NEW j \in 1..Len(t), i = Len(d) + j, e[i] = t[j] PROVE <<e[i].chan, k[Rank(e, Answers, i)]>> \in S
    <3>1. j = 1
      BY <1>9, <2>2 DEF Answers
    <3> QED
      BY <1>6, <1>8, <1>9, <2>2, <3>1
  <2> QED
    BY <1>7, <2>1, <2>2
<1>10. ASSUME NEW i \in 1..Len(w), w[i].kind = "subscribe" PROVE Fitting(k[n + 1 + Rank(w, Asks, i)], w[i])
  <2>1. i + 1 \in 1..Len(u) /\ w[i] = u[i + 1] /\ Rank(u, Asks, i + 1) = 1 + Rank(w, Asks, i) /\ i \in Nat
    BY <1>2, <1>3
  <2>2. Rank(w, Asks, i) \in Nat
    BY <2>1, RankNat
  <2>3. n + Rank(u, Asks, i + 1) = n + 1 + Rank(w, Asks, i)
    BY <1>1, <2>1, <2>2
  <2>4. Fitting(k[n + Rank(u, Asks, i + 1)], u[i + 1])
    BY <1>10, <2>1 DEF Matches, n
  <2> QED
    BY <2>1, <2>3, <2>4
<1>11. Len(k) = n + 1 + Count(w, Asks)
  BY <1>1, <1>2
<1> QED
  BY <1>6, <1>9, <1>10, <1>11 DEF Matches, e, w

(* A frame that asks nothing is read by the router. *)
LEMMA MatchTake ==
  ASSUME NEW U, NEW u \in Seq(U), NEW d, NEW k, NEW T, Matches(T, d, u, k), u # <<>>, Head(u).kind # "subscribe"
  PROVE  Matches(T, d, Tail(u), k)
<1> DEFINE w == Tail(u)
<1>1. /\ \A i \in 0..Len(w) : Rank(u, Asks, i + 1) = 0 + Rank(w, Asks, i)
      /\ Count(u, Asks) = 0 + Count(w, Asks) /\ Count(w, Asks) \in Nat
  BY RankTail DEF Asks
<1>2. /\ Len(w) \in Nat /\ \A i \in 1..Len(w) : i + 1 \in 1..Len(u) /\ w[i] = u[i + 1]
  BY TailAt
<1> HIDE DEF w
<1>3. ASSUME NEW i \in 1..Len(w), w[i].kind = "subscribe"
      PROVE  Fitting(k[Count(d, Answers) + Rank(w, Asks, i)], w[i])
  <2>1. i + 1 \in 1..Len(u) /\ w[i] = u[i + 1] /\ Rank(u, Asks, i + 1) = 0 + Rank(w, Asks, i) /\ i \in Nat
    BY <1>1, <1>2
  <2>2. Rank(w, Asks, i) \in Nat
    BY <2>1, RankNat
  <2>3. Rank(u, Asks, i + 1) = Rank(w, Asks, i)
    BY <2>1, <2>2
  <2> QED
    BY <1>3, <2>1, <2>3 DEF Matches
<1>4. Count(u, Asks) = Count(w, Asks)
  BY <1>1
<1> QED
  BY <1>3, <1>4 DEF Matches, w

(* The browser reads a frame that answers nothing, *)
LEMMA MatchRead ==
  ASSUME NEW D, NEW d \in Seq(D), NEW u, NEW k, NEW T, Matches(T, d, u, k), d # <<>>, Head(d).kind \notin Answers
  PROVE  Matches(T, Tail(d), u, k)
<1> DEFINE e == Tail(d)
<1>1. /\ \A i \in 0..Len(e) : Rank(d, Answers, i + 1) = 0 + Rank(e, Answers, i)
      /\ Count(d, Answers) = 0 + Count(e, Answers) /\ Count(e, Answers) \in Nat
  BY RankTail
<1>2. /\ Len(e) \in Nat /\ \A i \in 1..Len(e) : i + 1 \in 1..Len(d) /\ e[i] = d[i + 1]
  BY TailAt
<1> HIDE DEF e
<1>3. ASSUME NEW i \in 1..Len(e), e[i].kind = "ack" PROVE <<e[i].chan, k[Rank(e, Answers, i)]>> \in T
  <2>1. i + 1 \in 1..Len(d) /\ e[i] = d[i + 1] /\ Rank(d, Answers, i + 1) = 0 + Rank(e, Answers, i) /\ i \in Nat
    BY <1>1, <1>2
  <2>2. Rank(e, Answers, i) \in Nat
    BY <2>1, RankNat
  <2>3. Rank(d, Answers, i + 1) = Rank(e, Answers, i)
    BY <2>1, <2>2
  <2> QED
    BY <1>3, <2>1, <2>3 DEF Matches
<1>4. Count(d, Answers) = Count(e, Answers)
  BY <1>1
<1> QED
  BY <1>3, <1>4 DEF Matches, e

(* or the answer to the first request. *)
LEMMA MatchAnswer ==
  ASSUME NEW D, NEW U, NEW d \in Seq(D), NEW u \in Seq(U), NEW k \in Seq(Ask), NEW T, Matches(T, d, u, k),
         d # <<>>, Head(d).kind \in Answers
  PROVE  /\ k # <<>> /\ (Head(d).kind = "ack" => <<Head(d).chan, Head(k)>> \in T)
         /\ Matches(T, Tail(d), u, Tail(k))
<1> DEFINE e == Tail(d)
           n == Count(e, Answers)
           m == Count(u, Asks)
           q == Tail(k)
<1>1. /\ \A i \in 0..Len(e) : Rank(d, Answers, i + 1) = 1 + Rank(e, Answers, i)
      /\ Count(d, Answers) = 1 + n /\ n \in Nat
  BY RankTail
<1>2. /\ Len(e) \in Nat /\ \A i \in 1..Len(e) : i + 1 \in 1..Len(d) /\ e[i] = d[i + 1]
      /\ Head(d) = d[1] /\ 1 \in 1..Len(d) /\ e \in Seq(D)
  BY TailAt
<1>3. m \in Nat /\ \A i \in 1..Len(u) : u[i].kind \in Asks => Rank(u, Asks, i) \in 1..m
  BY CountNat
<1>4. Len(k) = 1 + n + m
  BY <1>1 DEF Matches
<1>5. k # <<>>
  BY <1>1, <1>3, <1>4
<1>6. /\ Len(q) \in Nat /\ Len(k) = Len(q) + 1 /\ Head(k) = k[1]
      /\ \A i \in 1..Len(q) : i + 1 \in 1..Len(k) /\ q[i] = k[i + 1]
  BY <1>5, TailAt
<1>7. Head(d).kind = "ack" => <<Head(d).chan, Head(k)>> \in T
  <2>1. Rank(d, Answers, 1) = 1
    <3>1. 0 \in 0..Len(e) /\ 0 + 1 = 1
      BY <1>2
    <3>2. Rank(e, Answers, 0) = 0
      BY RankZero
    <3> QED
      BY <1>1, <3>1, <3>2
  <2> QED
    BY <1>2, <1>6, <2>1 DEF Matches
<1>8. \A i \in 1..Len(e) : e[i].kind \in Answers => Rank(e, Answers, i) \in 1..n
  BY <1>2, CountNat
<1> HIDE DEF e, n, m, q
<1>9. ASSUME NEW i \in 1..Len(e), e[i].kind = "ack" PROVE <<e[i].chan, q[Rank(e, Answers, i)]>> \in T
  <2>1. i + 1 \in 1..Len(d) /\ e[i] = d[i + 1] /\ Rank(d, Answers, i + 1) = 1 + Rank(e, Answers, i)
    BY <1>1, <1>2
  <2>2. Rank(e, Answers, i) \in 1..n
    BY <1>8, <1>9 DEF Answers
  <2>3. \A r \in 1..n : q[r] = k[r + 1]
    <3>1. Len(q) = n + m
      BY <1>1, <1>3, <1>4, <1>6
    <3> QED
      BY <1>1, <1>3, <1>6, <3>1
  <2>4. q[Rank(e, Answers, i)] = k[Rank(d, Answers, i + 1)]
    <3>1. Rank(e, Answers, i) + 1 = Rank(d, Answers, i + 1)
      BY <1>1, <2>1, <2>2
    <3> QED
      BY <2>2, <2>3, <3>1
  <2> QED
    BY <1>9, <2>1, <2>4 DEF Matches
<1>10. ASSUME NEW i \in 1..Len(u), u[i].kind = "subscribe" PROVE Fitting(q[n + Rank(u, Asks, i)], u[i])
  <2>1. Rank(u, Asks, i) \in 1..m
    BY <1>3, <1>10 DEF Asks
  <2>a. Len(q) = n + m
    BY <1>1, <1>3, <1>4, <1>6
  <2>2. n + Rank(u, Asks, i) \in 1..Len(q) /\ n + Rank(u, Asks, i) + 1 = 1 + n + Rank(u, Asks, i)
    <3>1. PICK r : r = Rank(u, Asks, i)
      OBVIOUS
    <3>2. PICK z : z = Len(q)
      OBVIOUS
    <3>3. r \in 1..m /\ z = n + m /\ n \in Nat /\ m \in Nat
      BY <1>1, <1>3, <2>1, <2>a, <3>1, <3>2
    <3>4. n + r \in 1..z /\ n + r + 1 = 1 + n + r
      BY <3>3
    <3> QED
      BY <3>1, <3>2, <3>4
  <2>3. q[n + Rank(u, Asks, i)] = k[1 + n + Rank(u, Asks, i)]
    BY <1>6, <2>2
  <2>4. Fitting(k[Count(d, Answers) + Rank(u, Asks, i)], u[i])
    BY <1>10 DEF Matches
  <2> QED
    BY <1>1, <2>3, <2>4
<1>11. Len(q) = n + m
  BY <1>1, <1>3, <1>4, <1>6
<1> QED
  BY <1>5, <1>7, <1>9, <1>10, <1>11 DEF Matches, e, n, m, q

(* Who serves whom may change as long as the answers under way are served. *)
LEMMA MatchServed ==
  ASSUME NEW D, NEW d \in Seq(D), NEW u, NEW k \in Seq(Ask), NEW T, NEW S, Matches(T, d, u, k), Count(u, Asks) \in Nat,
         \A i \in 1..Len(d), a \in Ask : d[i].kind = "ack" /\ <<d[i].chan, a>> \in T => <<d[i].chan, a>> \in S
  PROVE  Matches(S, d, u, k)
<1>1. ASSUME NEW i \in 1..Len(d), d[i].kind = "ack" PROVE <<d[i].chan, k[Rank(d, Answers, i)]>> \in S
  <2>1. Rank(d, Answers, i) \in 1..Count(d, Answers) /\ Count(d, Answers) \in Nat
    BY <1>1, CountNat DEF Answers
  <2>2. Rank(d, Answers, i) \in 1..Len(k)
    BY <2>1 DEF Matches
  <2>3. k[Rank(d, Answers, i)] \in Ask /\ <<d[i].chan, k[Rank(d, Answers, i)]>> \in T
    BY <1>1, <2>2 DEF Matches
  <2> QED
    BY <1>1, <2>3
<1> QED
  BY <1>1 DEF Matches

-----------------------------------------------------------------------------
(* The invariant of the pairing.                                             *)
Matching == Matches(Serving, down, Up, client.acks)
Holds(c, a) == c # None /\ client.view[a.surf].chan = c /\ client.view[a.surf].mount = a.mount
Holding == \A c \in Nat, a \in Ask : Holds(c, a) => Serves(c, a)
Giving == \A c \in Nat : Given(c) => Opened(c) /\ ~Viewed(c)
Having == \A c \in Owned(client.ws) : Viewed(c) \/ ~Opened(c) \/ Given(c)
Pairs == Live => Matching /\ Holding /\ Giving /\ Having

LEMMA ServingIs ==
  ASSUME NEW c \in Nat, NEW a \in Ask
  PROVE  <<c, a>> \in Serving <=> Serves(c, a)
BY DEF Serving

LEMMA ServingNext ==
  ASSUME NEW c \in Nat, NEW a \in Ask
  PROVE  <<c, a>> \in Serving' <=> Serves(c, a)'
BY DEF Serving

LEMMA LiveIs ==
  ASSUME Typed, Live
  PROVE  /\ client.ws \in 1..Len(up) /\ client.ws = client.made /\ Reaches(client.ws)
         /\ Up \in Seq(UpFrame) /\ Len(Up) \in Nat
         /\ client.acks \in Seq(Ask) /\ down \in Seq(DownFrame) /\ Len(down) \in Nat
<1>1. /\ client.ws \in {None, client.made} /\ client.made <= Len(up) /\ client.made \in Nat /\ Len(up) \in Nat
      /\ up \in Seq(Seq(UpFrame)) /\ down \in Seq(DownFrame) /\ client.acks \in Seq(Ask)
  BY DEF Typed, Client
<1>2. client.ws # None /\ ~client.broken
  BY DEF Live
<1>3. client.ws \in 1..Len(up) /\ client.ws = client.made
  BY <1>1, <1>2 DEF None
<1>4. up[client.ws] \in Seq(UpFrame)
  BY <1>1, <1>3
<1>5. Len(up[client.ws]) \in Nat /\ Len(down) \in Nat
  BY <1>1, <1>4
<1> QED
  BY <1>1, <1>2, <1>3, <1>4, <1>5 DEF Up, Reaches

LEMMA AckNamed ==
  ASSUME Typed, NEW i \in 1..Len(down), down[i].kind = "ack"
  PROVE  down[i].chan \in Nat /\ down[i] = Ack(down[i].chan)
BY FramesAre, KindIs DEF Addressed

(* The channels of the browser's socket stay. *)
Stays ==
  /\ runtime.life = "retired" => runtime'.life = "retired"
  /\ \A c \in Channels : runtime.subs[c].ws = client.ws =>
        \/ runtime'.life = "retired"
        \/ /\ c \in DOMAIN runtime'.subs /\ runtime'.subs[c].ws = client.ws
           /\ runtime'.subs[c].surf = runtime.subs[c].surf /\ runtime'.subs[c].mount = runtime.subs[c].mount

LEMMA StaysServes ==
  ASSUME Stays, client' = client, NEW c, NEW a, Serves(c, a)
  PROVE  Serves(c, a)'
BY DEF Stays, Serves, Channels

LEMMA StaysHolding ==
  ASSUME Holding, Stays, client' = client
  PROVE  Holding'
<1>1. ASSUME NEW c \in Nat, NEW a \in Ask, Holds(c, a)' PROVE Serves(c, a)'
  <2>1. Holds(c, a)
    BY <1>1 DEF Holds
  <2> QED
    BY <2>1, StaysServes DEF Holding
<1> QED
  BY <1>1 DEF Holding

(* The first part keeps its places, the second follows it. *)
LEMMA JoinedFirst ==
  ASSUME NEW T, NEW s \in Seq(T), NEW t \in Seq(T), NEW q, q = s \o t
  PROVE  \A i \in 1..Len(s) : i \in 1..Len(q) /\ q[i] = s[i]
BY JoinedAt

LEMMA JoinedLast ==
  ASSUME NEW T, NEW s \in Seq(T), NEW t \in Seq(T), NEW q, q = s \o t
  PROVE  \A i \in 1..Len(t) : Len(s) + i \in 1..Len(q) /\ q[Len(s) + i] = t[i]
BY JoinedAt

(* Where a frame of a joined queue comes from, for a queue with a name. *)
LEMMA JoinedFrom ==
  ASSUME NEW T, NEW s \in Seq(T), NEW t \in Seq(T), NEW q, q = s \o t
  PROVE  \A i \in 1..Len(q) : \/ i \in 1..Len(s) /\ q[i] = s[i]
                             \/ \E k \in 1..Len(t) : i = Len(s) + k /\ q[i] = t[k]
<1>1. Len(q) = Len(s) + Len(t) /\ Len(s) \in Nat /\ Len(t) \in Nat
  BY JoinedAt
<1>2. \A i \in 1..Len(s) : q[i] = s[i]
  BY JoinedFirst
<1>3. \A k \in 1..Len(t) : q[Len(s) + k] = t[k]
  BY JoinedLast
<1> TAKE i \in 1..Len(q)
<1>4. CASE i \in 1..Len(s)
  BY <1>2, <1>4
<1>5. CASE i \notin 1..Len(s)
  <2> DEFINE k == i - Len(s)
  <2>1. k \in 1..Len(t) /\ i = Len(s) + k
    BY <1>1, <1>5
  <2>2. q[i] = t[k]
    BY <1>3, <2>1
  <2> QED
    BY <2>1, <2>2
<1> QED
  BY <1>4, <1>5

LEMMA ToldOpened ==
  ASSUME Typed, NEW t, Tells(t), NEW c, \A i \in 1..Len(t) : t[i] # Ack(c)
  PROVE  Opened(c)' <=> Opened(c)
<1>1. down \in Seq(DownFrame) /\ t \in Seq(DownFrame) /\ down' = down \o t
  BY DEF Typed, Tells
<1>2. /\ \A i \in 1..Len(down) : i \in 1..Len(down') /\ down'[i] = down[i]
      /\ \A i \in 1..Len(down') : \/ i \in 1..Len(down) /\ down'[i] = down[i]
                                  \/ \E k \in 1..Len(t) : i = Len(down) + k /\ down'[i] = t[k]
  <2>1. PICK d, q : d = down /\ q = down'
    OBVIOUS
  <2>2. d \in Seq(DownFrame) /\ t \in Seq(DownFrame) /\ q = d \o t
    BY <1>1, <2>1
  <2>3. \A i \in 1..Len(d) : i \in 1..Len(q) /\ q[i] = d[i]
    BY <2>2, JoinedFirst
  <2>4. \A i \in 1..Len(q) : \/ i \in 1..Len(d) /\ q[i] = d[i]
                             \/ \E k \in 1..Len(t) : i = Len(d) + k /\ q[i] = t[k]
    BY <2>2, JoinedFrom
  <2> QED
    BY <2>1, <2>3, <2>4
<1>3. Opened(c)' <=> \A i \in 1..Len(down') : down'[i] # Ack(c)
  BY DEF Opened, Ack
<1> QED
  BY <1>2, <1>3 DEF Opened

(* Nothing that answers is told, and the browser's own frames wait. *)
LEMMA PairsTold ==
  ASSUME Typed, Typed', Pairs, NEW t, Tells(t), \A i \in 1..Len(t) : t[i].kind \notin Answers,
         Stays, client' = client, Live => up'[client.ws] = up[client.ws],
         \A c \in DOMAIN runtime'.subs : runtime'.subs[c].ws = client.ws =>
             c \in Channels /\ runtime.subs[c].ws = client.ws
  PROVE  Pairs'
<1> SUFFICES ASSUME Live PROVE Matching' /\ Holding' /\ Giving' /\ Having'
  BY DEF Pairs, Live
<1>1. Matching /\ Holding /\ Giving /\ Having
  BY DEF Pairs
<1>2. Up' = Up
  BY DEF Up
<1>3. Matching'
  <2>1. /\ down \in Seq(DownFrame) /\ t \in Seq(DownFrame) /\ down' = down \o t
        /\ client.acks \in Seq(Ask) /\ Up \in Seq(UpFrame)
    BY LiveIs DEF Tells
  <2>2. Matches(Serving, down \o t, Up, client.acks)
    BY <1>1, <2>1, MatchTold DEF Matching
  <2>3. \A i \in 1..Len(down'), a \in Ask :
           down'[i].kind = "ack" /\ <<down'[i].chan, a>> \in Serving => <<down'[i].chan, a>> \in Serving'
    <3> TAKE i \in 1..Len(down'), a \in Ask
    <3> HAVE down'[i].kind = "ack" /\ <<down'[i].chan, a>> \in Serving
    <3>1. PICK c : c = down'[i].chan
      OBVIOUS
    <3>2. c \in Nat
      BY <3>1 DEF Serving
    <3>3. Serves(c, a)'
      BY <3>1, <3>2, ServingIs, StaysServes
    <3> QED
      BY <3>1, <3>2, <3>3, ServingNext
  <2>4. down' \in Seq(DownFrame) /\ Count(Up, Asks) \in Nat
    BY <2>1, CountNat DEF Typed
  <2>5. Matches(Serving', down', Up, client.acks)
    BY <2>1, <2>2, <2>3, <2>4, MatchServed
  <2> QED
    BY <1>2, <2>5 DEF Matching
<1>4. Holding'
  BY <1>1, StaysHolding
<1>5. \A c : (Opened(c)' <=> Opened(c)) /\ (Viewed(c)' <=> Viewed(c)) /\ (Given(c)' <=> Given(c))
  <2> TAKE c
  <2>1. \A i \in 1..Len(t) : t[i] # Ack(c)
    BY DEF Ack, Answers
  <2>2. Opened(c)' <=> Opened(c)
    BY <2>1, ToldOpened
  <2> QED
    BY <1>2, <2>2 DEF Viewed, Given
<1>6. Giving'
  BY <1>1, <1>5 DEF Giving
<1>7. Having'
  <2> SUFFICES ASSUME NEW c \in Owned(client.ws)' PROVE Viewed(c)' \/ ~Opened(c)' \/ Given(c)'
    BY DEF Having
  <2>1. c \in Owned(client.ws)
    BY DEF Owned, Channels
  <2> QED
    BY <1>1, <1>5, <2>1 DEF Having
<1> QED
  BY <1>3, <1>4, <1>6, <1>7

(* Steps at the holder and the runtime. *)
LEMMA PairsQuiet ==
  ASSUME Typed, Pairs, Quiet
  PROVE  Pairs'
<1>1. /\ UNCHANGED <<up, down, client>> /\ runtime'.subs = runtime.subs /\ runtime'.life = runtime.life /\ Typed'
  BY QuietIs
<1>2. Tells(<<>>)
  BY <1>1, UntoldIs DEF Untold
<1>3. Stays
  BY <1>1 DEF Stays, Channels
<1>4. \A i \in 1..Len(<<>>) : <<>>[i].kind \notin Answers
  OBVIOUS
<1> QED
  BY <1>1, <1>2, <1>3, <1>4, PairsTold DEF Channels

(* Channels keep what they serve when their runtime's do. *)
LEMMA PairsKept ==
  ASSUME Typed, Typed', Pairs, NEW t, Tells(t), \A i \in 1..Len(t) : t[i].kind \notin Answers,
         UNCHANGED <<up, client>>,
         runtime.life = "retired" => runtime'.life = "retired",
         DOMAIN runtime'.subs \subseteq Channels,
         \A c \in DOMAIN runtime'.subs : runtime'.subs[c].ws = runtime.subs[c].ws,
         \/ runtime'.life = "retired"
         \/ \A c \in Channels : /\ c \in DOMAIN runtime'.subs
                                /\ runtime'.subs[c].surf = runtime.subs[c].surf
                                /\ runtime'.subs[c].mount = runtime.subs[c].mount
  PROVE  Pairs'
<1>1. Stays
  BY DEF Stays
<1>2. \A c \in DOMAIN runtime'.subs : runtime'.subs[c].ws = client.ws =>
             c \in Channels /\ runtime.subs[c].ws = client.ws
  OBVIOUS
<1>3. Live => up'[client.ws] = up[client.ws]
  OBVIOUS
<1> QED
  BY <1>1, <1>2, <1>3, PairsTold

LEMMA PairsReceive ==
  ASSUME Typed, Pairs, ReceiveOutput
  PROVE  Pairs'
<1> DEFINE told == Reached(runtime, Channels \ Waiting(runtime))
           t == [i \in 1..Len(told) |-> Output(runtime, told[i], Head(link.out))]
<1>1. /\ runtime' = [runtime EXCEPT !.offset = Head(link.out), !.inbox = Append(@, Head(link.out))]
      /\ Tells(t) /\ Len(t) = Len(told) /\ Len(told) \in Nat
      /\ UNCHANGED <<up, client>> /\ Typed'
  BY ReceiveOutputIs
<1>2. runtime'.subs = runtime.subs /\ runtime'.life = runtime.life
  BY <1>1 DEF Typed, Sound, Runtime
<1>3. \A i \in 1..Len(t) : t[i].kind = "output"
  BY <1>1, OutputsAre
<1> HIDE DEF told, t
<1>4. \A i \in 1..Len(t) : t[i].kind \notin Answers
  BY <1>3 DEF Answers
<1> QED
  BY <1>1, <1>2, <1>4, PairsKept DEF Channels

(* Those who wait are told, or everyone is told of the exit. *)
LEMMA PairsRoused ==
  ASSUME Typed, Typed', Socketed, Pairs, NEW r, Sound(r), r.subs = runtime.subs,
         runtime.life # "retired", UNCHANGED <<up, client>>,
         DOMAIN runtime'.subs = DOMAIN r.subs,
         \A c \in DOMAIN r.subs : runtime'.subs[c] = [r.subs[c] EXCEPT !.ready = TRUE],
         Tells(Farewells(r)) \/ Tells(Baselines(r))
  PROVE  Pairs'
<1>1. \A c \in Channels : /\ c \in DOMAIN runtime'.subs /\ runtime'.subs[c].ws = runtime.subs[c].ws
                          /\ runtime'.subs[c].surf = runtime.subs[c].surf
                          /\ runtime'.subs[c].mount = runtime.subs[c].mount
  <2> TAKE c \in Channels
  <2>1. runtime.subs[c] \in Sub
    BY RuntimeIs
  <2>2. c \in DOMAIN runtime'.subs /\ runtime'.subs[c] = [runtime.subs[c] EXCEPT !.ready = TRUE]
    BY DEF Channels
  <2> QED
    BY <2>1, <2>2, ReadyKeeps
<1>2. DOMAIN runtime'.subs = Channels /\ DOMAIN r.subs = Channels
  BY DEF Channels
<1>3. /\ \A i \in 1..Len(Farewells(r)) : Farewells(r)[i].kind \in {"snapshot", "exit"}
      /\ \A i \in 1..Len(Baselines(r)) : Baselines(r)[i].kind = "snapshot"
  BY <1>2, FarewellsLive, BaselinesLive
<1>4. PICK t : Tells(t) /\ \A i \in 1..Len(t) : t[i].kind \notin Answers
  BY <1>3 DEF Answers
<1>5. \A c \in DOMAIN runtime'.subs : runtime'.subs[c].ws = runtime.subs[c].ws
  BY <1>1, <1>2
<1> QED
  BY <1>1, <1>2, <1>4, <1>5, PairsKept

LEMMA PairsParse ==
  ASSUME Typed, Owning, Socketed, Linked, Pairs, Parse
  PROVE  Pairs'
<1>1. /\ runtime.inbox # <<>> /\ UNCHANGED <<up, client>> /\ Typed'
      /\ \/ ExitIsReady(Parsed) /\ Ends(Parsed)
         \/ Wakes(Parsed)
         \/ runtime' = Parsed /\ Untold
  BY ParseIs
<1>2. Sound(Parsed) /\ Parsed.subs = runtime.subs /\ Parsed.life = runtime.life
  BY <1>1, ParsedIs
<1>3. runtime.life # "retired"
  BY <1>1 DEF Linked, Over, Drained
<1>4. CASE Ends(Parsed)
  BY <1>1, <1>2, <1>3, <1>4, EndsIs, PairsRoused
<1>5. CASE Wakes(Parsed)
  BY <1>1, <1>2, <1>3, <1>5, PairsRoused DEF Wakes
<1>6. CASE runtime' = Parsed /\ Untold
  <2>1. Tells(<<>>) /\ \A i \in 1..Len(<<>>) : <<>>[i].kind \notin Answers
    BY <1>6, UntoldIs
  <2>2. runtime'.subs = runtime.subs /\ runtime'.life = runtime.life
    BY <1>2, <1>6
  <2> QED
    BY <1>1, <2>1, <2>2, PairsKept DEF Channels
<1> QED
  BY <1>1, <1>4, <1>5, <1>6

LEMMA PairsExit ==
  ASSUME Typed, Owning, Socketed, Pairs, ExitObserved
  PROVE  Pairs'
<1>1. /\ runtime.life = "running" /\ UNCHANGED <<up, client>> /\ Typed'
      /\ \/ Ends(Living("draining"))
         \/ runtime' = Living("draining") /\ Untold
  BY ExitObservedIs
<1>2. Sound(Living("draining")) /\ Living("draining").subs = runtime.subs
  BY LivingIs DEF Typed, Living, Lives
<1>3. CASE Ends(Living("draining"))
  BY <1>1, <1>2, <1>3, EndsIs, PairsRoused
<1>4. CASE runtime' = Living("draining") /\ Untold
  <2>1. Tells(<<>>) /\ \A i \in 1..Len(<<>>) : <<>>[i].kind \notin Answers
    BY <1>4, UntoldIs
  <2>2. runtime'.subs = runtime.subs
    BY <1>2, <1>4
  <2> QED
    BY <1>1, <2>1, <2>2, PairsKept DEF Channels
<1> QED
  BY <1>1, <1>3, <1>4

LEMMA PairsAbsence ==
  ASSUME Typed, Socketed, Pairs, ConfirmedAbsence
  PROVE  Pairs'
<1>1. /\ UNCHANGED <<up, client>> /\ Typed' /\ runtime'.life = "retired" /\ DOMAIN runtime'.subs = {}
      /\ Tells(Farewells(runtime)) \/ Untold
  BY ConfirmedAbsenceIs
<1>2. PICK t : Tells(t) /\ \A i \in 1..Len(t) : t[i].kind \notin Answers
  <2>1. \A i \in 1..Len(Farewells(runtime)) : Farewells(runtime)[i].kind \in {"snapshot", "exit"}
    BY FarewellsLive DEF Typed, Channels
  <2>2. CASE Tells(Farewells(runtime))
    BY <2>1, <2>2 DEF Answers
  <2>3. CASE Untold
    <3>1. Tells(<<>>) /\ \A i \in 1..Len(<<>>) : <<>>[i].kind \notin Answers
      BY <2>3, UntoldIs
    <3> QED
      BY <3>1
  <2> QED
    BY <1>1, <2>2, <2>3
<1> QED
  BY <1>1, <1>2, PairsKept

-----------------------------------------------------------------------------
(* The router reads a frame: of a socket that is not the browser's, *)
LEMMA PairsForeign ==
  ASSUME Typed, Owning, Pairs, NEW w \in Sockets, RouterReads(w), ~(Live /\ w = client.ws)
  PROVE  Pairs'
<1>1. PICK f : f = Head(up[w])
  OBVIOUS
<1>2. /\ Takes(w, f) /\ Typed' /\ Steers(runtime, runtime')
      /\ \/ Joining(w, f) \/ Refusing(w)
         \/ Leaving({f.chan} \cap Owned(w)) \/ Leaving(Owned(w))
         \/ f.chan \in Owned(w) /\ Resizing(f)
         \/ runtime' = runtime /\ Untold
  BY <1>1, RouterIs
<1>3. client' = client /\ runtime'.life = runtime.life
  BY <1>2 DEF Takes, Steers
<1>4. Live => up'[client.ws] = up[client.ws]
  BY <1>2, LiveIs DEF Takes
<1> SUFFICES ASSUME Live PROVE Pairs'
  BY <1>3 DEF Pairs, Live
<1>5. w # client.ws /\ ~Reaches(w)
  BY DEF Reaches
<1>6. Untold
  BY <1>2, <1>5 DEF Joining, Refusing, Leaving, Resizing
<1>7. Tells(<<>>) /\ \A i \in 1..Len(<<>>) : <<>>[i].kind \notin Answers
  BY <1>6, UntoldIs
<1>8. /\ \A c \in Channels : runtime.subs[c].ws = client.ws =>
            /\ c \in DOMAIN runtime'.subs /\ runtime'.subs[c].ws = client.ws
            /\ runtime'.subs[c].surf = runtime.subs[c].surf /\ runtime'.subs[c].mount = runtime.subs[c].mount
      /\ \A c \in DOMAIN runtime'.subs : runtime'.subs[c].ws = client.ws =>
            c \in Channels /\ runtime.subs[c].ws = client.ws
  <2>1. CASE Joining(w, f)
    BY <1>5, <2>1 DEF Joining
  <2>2. CASE Refusing(w)
    BY <2>2 DEF Refusing, Channels
  <2>3. ASSUME NEW C, C \subseteq Owned(w), Leaving(C)
        PROVE  /\ \A c \in Channels : runtime.subs[c].ws = client.ws =>
                    /\ c \in DOMAIN runtime'.subs /\ runtime'.subs[c] = runtime.subs[c]
               /\ \A c \in DOMAIN runtime'.subs : c \in Channels /\ runtime'.subs[c] = runtime.subs[c]
    BY <1>5, <2>3 DEF Leaving, Owned
  <2>4. CASE Leaving({f.chan} \cap Owned(w)) \/ Leaving(Owned(w))
    BY <2>3, <2>4
  <2>5. CASE f.chan \in Owned(w) /\ Resizing(f)
    <3>1. DOMAIN runtime'.subs = Channels
      BY <2>5 DEF Resizing
    <3>2. ASSUME NEW c \in Channels
          PROVE  /\ runtime'.subs[c].ws = runtime.subs[c].ws
                 /\ runtime'.subs[c].surf = runtime.subs[c].surf /\ runtime'.subs[c].mount = runtime.subs[c].mount
      BY <2>5, RuntimeIs DEF Resizing, Sub
    <3> QED
      BY <3>1, <3>2
  <2>6. CASE runtime' = runtime
    BY <2>6 DEF Channels
  <2> QED
    BY <1>2, <2>1, <2>2, <2>4, <2>5, <2>6
<1>9. Stays
  BY <1>3, <1>8 DEF Stays
<1> QED
  BY <1>2, <1>3, <1>4, <1>7, <1>8, <1>9, PairsTold

(* or of the browser's: a request is answered, *)
LEMMA PairsServes ==
  ASSUME Typed, Typed', Fresh, Pairs, Live, Takes(client.ws, Head(Up)), Head(Up).kind = "subscribe",
         NEW t, Tells(t), t # <<>>, t[1].kind \in Answers,
         \A i \in 1..Len(t) : i # 1 => t[i].kind \notin Answers,
         Stays,
         NEW n, n = runtime.next,
         t[1].kind = "ack" =>
             /\ t[1] = Ack(n) /\ DOMAIN runtime'.subs = Channels \cup {n}
             /\ \A a \in Ask : Fitting(a, Head(Up)) => Serves(n, a)',
         t[1].kind # "ack" => DOMAIN runtime'.subs = Channels,
         \A c \in Channels : runtime'.subs[c].ws = runtime.subs[c].ws
  PROVE  Pairs'
<1>1. Matching /\ Holding /\ Giving /\ Having
  BY DEF Pairs
<1>2. /\ client.ws \in 1..Len(up) /\ Up \in Seq(UpFrame) /\ client.acks \in Seq(Ask) /\ down \in Seq(DownFrame)
      /\ Len(down) \in Nat
  BY LiveIs
<1>3. /\ Up # <<>> /\ Up' = Tail(Up) /\ client' = client
  BY <1>2 DEF Takes, Up
<1>4. t \in Seq(DownFrame) /\ down' = down \o t /\ Len(t) \in Nat
  BY DEF Tells
<1>5. n \in Nat /\ n # None /\ n = runtime.next
  BY RuntimeIs DEF None
<1>6. Matching'
  <2>1. \A i \in 1..Len(down), a \in Ask :
           down[i].kind = "ack" /\ <<down[i].chan, a>> \in Serving => <<down[i].chan, a>> \in Serving'
    <3> TAKE i \in 1..Len(down), a \in Ask
    <3> HAVE down[i].kind = "ack" /\ <<down[i].chan, a>> \in Serving
    <3>1. PICK c : c = down[i].chan
      OBVIOUS
    <3>2. c \in Nat
      BY <3>1 DEF Serving
    <3>3. Serves(c, a)'
      BY <1>3, <3>1, <3>2, ServingIs, StaysServes
    <3> QED
      BY <3>1, <3>2, <3>3, ServingNext
  <2>2. t[1].kind = "ack" => \A a \in Ask : Fitting(a, Head(Up)) => <<t[1].chan, a>> \in Serving'
    <3>1. ASSUME t[1].kind = "ack" PROVE t[1].chan = n
      BY <3>1 DEF Ack
    <3> QED
      BY <1>5, <3>1, ServingNext
  <2>3. Matches(Serving, down, Up, client.acks)
    BY <1>1 DEF Matching
  <2>4. Matches(Serving', down \o t, Tail(Up), client.acks)
    BY <1>2, <1>3, <1>4, <2>1, <2>2, <2>3, MatchServe
  <2> QED
    BY <1>3, <1>4, <2>4 DEF Matching
<1>7. Holding'
  BY <1>1, <1>3, StaysHolding
<1>8. \A c : (Viewed(c)' <=> Viewed(c)) /\ (Given(c)' <=> Given(c))
  <2> TAKE c
  <2>1. /\ \A i \in 1..Len(Up') : i + 1 \in 1..Len(Up) /\ Up'[i] = Up[i + 1]
        /\ \A i \in 1..Len(Up) : i = 1 \/ \E k \in 1..Len(Up') : i = k + 1 /\ Up[i] = Up'[k]
        /\ Up[1] = Head(Up)
    BY <1>2, <1>3, TailAt
  <2>2. Given(c)' <=> \E i \in 1..Len(Up') : Up'[i].kind = "unsubscribe" /\ Up'[i].chan = c
    BY DEF Given
  <2>3. Given(c)' => Given(c)
    BY <2>1, <2>2 DEF Given
  <2>4. Given(c) => Given(c)'
    BY <2>1, <2>2 DEF Given
  <2> QED
    BY <1>3, <2>3, <2>4 DEF Viewed
<1>9. \A c : c # n => (Opened(c)' <=> Opened(c))
  <2> TAKE c
  <2> HAVE c # n
  <2>1. \A i \in 1..Len(t) : t[i] # Ack(c)
    <3> TAKE i \in 1..Len(t)
    <3>1. CASE i = 1
      BY <3>1 DEF Ack
    <3>2. CASE i # 1
      BY <3>2 DEF Ack, Answers
    <3> QED
      BY <3>1, <3>2
  <2> QED
    BY <2>1, ToldOpened
<1>10. Giving'
  <2> SUFFICES ASSUME NEW c \in Nat, Given(c)' PROVE Opened(c)' /\ ~Viewed(c)'
    BY DEF Giving
  <2>1. Given(c)
    BY <1>8
  <2>2. c # n
    <3>1. c \in 1..(n - 1)
      BY <1>2, <1>5, <2>1 DEF Given, Fresh, Up
    <3> QED
      BY <1>5, <3>1
  <2> QED
    BY <1>1, <1>8, <1>9, <2>1, <2>2 DEF Giving
<1>11. Having'
  <2> SUFFICES ASSUME NEW c \in Owned(client.ws)' PROVE Viewed(c)' \/ ~Opened(c)' \/ Given(c)'
    BY DEF Having
  <2>1. c \in DOMAIN runtime'.subs /\ runtime'.subs[c].ws = client.ws
    BY <1>3 DEF Owned, Channels
  <2>2. CASE c \in Channels
    <3>1. c \in Owned(client.ws) /\ c # n
      <4>1. c \in 1..(n - 1)
        BY <1>5, <2>2, RuntimeIs
      <4> QED
        BY <1>5, <2>1, <2>2, <4>1 DEF Owned
    <3> QED
      BY <1>1, <1>8, <1>9, <3>1 DEF Having
  <2>3. CASE c \notin Channels
    <3>1. t[1] = Ack(c)
      BY <2>1, <2>3
    <3>2. 1 \in 1..Len(t)
      BY <1>4
    <3>3. Len(down) + 1 \in 1..Len(down') /\ down'[Len(down) + 1] = Ack(c)
      <4>1. PICK d, q : d = down /\ q = down'
        OBVIOUS
      <4>2. d \in Seq(DownFrame) /\ t \in Seq(DownFrame) /\ q = d \o t
        BY <1>2, <1>4, <4>1
      <4>3. \A i \in 1..Len(t) : Len(d) + i \in 1..Len(q) /\ q[Len(d) + i] = t[i]
        BY <4>2, JoinedAt
      <4> QED
        BY <3>1, <3>2, <4>1, <4>3
    <3> QED
      BY <3>3 DEF Opened, Ack
  <2> QED
    BY <2>2, <2>3
<1> QED
  BY <1>6, <1>7, <1>10, <1>11 DEF Pairs

(* a channel is given back, or a size is told. *)
LEMMA PairsTakes ==
  ASSUME Typed, Typed', Fresh, Pairs, Live, Takes(client.ws, Head(Up)), Head(Up).kind # "subscribe", Untold,
         NEW C, C \subseteq Nat, C = {} \/ (Head(Up).kind = "unsubscribe" /\ C = {Head(Up).chan}),
         runtime'.life = runtime.life,
         \A c \in Channels \ C : runtime.subs[c].ws = client.ws =>
             /\ c \in DOMAIN runtime'.subs /\ runtime'.subs[c].ws = client.ws
             /\ runtime'.subs[c].surf = runtime.subs[c].surf /\ runtime'.subs[c].mount = runtime.subs[c].mount,
         \A c \in DOMAIN runtime'.subs : runtime'.subs[c].ws = client.ws =>
             c \in Channels /\ runtime.subs[c].ws = client.ws,
         Head(Up).kind = "unsubscribe" => Head(Up).chan \notin Owned(client.ws)'
  PROVE  Pairs'
<1>1. Matching /\ Holding /\ Giving /\ Having
  BY DEF Pairs
<1>2. /\ client.ws \in 1..Len(up) /\ Up \in Seq(UpFrame) /\ client.acks \in Seq(Ask) /\ down \in Seq(DownFrame)
      /\ Len(down) \in Nat
  BY LiveIs
<1>3. /\ Up # <<>> /\ Up' = Tail(Up) /\ client' = client /\ down' = down
  BY <1>2 DEF Takes, Up, Untold
<1>4. /\ \A i \in 1..Len(Up') : i + 1 \in 1..Len(Up) /\ Up'[i] = Up[i + 1]
      /\ \A i \in 1..Len(Up) : i = 1 \/ \E k \in 1..Len(Up') : i = k + 1 /\ Up[i] = Up'[k]
      /\ Up[1] = Head(Up) /\ 1 \in 1..Len(Up)
  BY <1>2, <1>3, TailAt
<1>5. \A c \in C : Opened(c) /\ ~Viewed(c)
  <2>1. \A c \in C : Given(c)
    BY <1>4 DEF Given
  <2> QED
    BY <1>1, <2>1 DEF Giving
<1>6. \A c \in Nat \ C, a \in Ask : Serves(c, a) => Serves(c, a)'
  BY <1>3 DEF Serves, Channels
<1>7. Matching'
  <2>1. Matches(Serving, down, Tail(Up), client.acks)
    BY <1>1, <1>2, <1>3, MatchTake DEF Matching
  <2>2. \A i \in 1..Len(down), a \in Ask :
           down[i].kind = "ack" /\ <<down[i].chan, a>> \in Serving => <<down[i].chan, a>> \in Serving'
    <3> TAKE i \in 1..Len(down), a \in Ask
    <3> HAVE down[i].kind = "ack" /\ <<down[i].chan, a>> \in Serving
    <3>1. PICK c : c = down[i].chan
      OBVIOUS
    <3>2. c \in Nat /\ Serves(c, a) /\ down[i] = Ack(c)
      BY <3>1, ServingIs, AckNamed
    <3>3. c \notin C
      BY <1>5, <3>2 DEF Opened
    <3>4. Serves(c, a)'
      BY <1>6, <3>2, <3>3
    <3> QED
      BY <3>1, <3>2, <3>4, ServingNext
  <2>3. Tail(Up) \in Seq(UpFrame)
    BY <1>2, <1>3, TailAt
  <2>4. Count(Tail(Up), Asks) \in Nat
    BY <2>3, CountNat
  <2>5. Matches(Serving', down, Tail(Up), client.acks)
    BY <1>2, <2>1, <2>2, <2>4, MatchServed
  <2> QED
    BY <1>3, <2>5 DEF Matching
<1>8. Holding'
  <2>1. ASSUME NEW c \in Nat, NEW a \in Ask, Holds(c, a)' PROVE Serves(c, a)'
    <3>1. Holds(c, a) /\ Viewed(c)
      BY <1>3, <2>1 DEF Holds, Viewed, Ask
    <3> QED
      BY <1>1, <1>5, <1>6, <3>1 DEF Holding
  <2> QED
    BY <2>1 DEF Holding
<1>9. \A c : (Viewed(c)' <=> Viewed(c)) /\ (Opened(c)' <=> Opened(c))
  BY <1>3 DEF Viewed, Opened, Ack
<1>10. \A c : /\ Given(c)' => Given(c)
              /\ Given(c) => Given(c)' \/ (Head(Up).kind = "unsubscribe" /\ Head(Up).chan = c)
  <2> TAKE c
  <2>1. Given(c)' <=> \E i \in 1..Len(Up') : Up'[i].kind = "unsubscribe" /\ Up'[i].chan = c
    BY DEF Given
  <2>2. Given(c)' => Given(c)
    BY <1>4, <2>1 DEF Given
  <2>3. Given(c) => Given(c)' \/ (Head(Up).kind = "unsubscribe" /\ Head(Up).chan = c)
    BY <1>4, <2>1 DEF Given
  <2> QED
    BY <2>2, <2>3
<1>11. Giving'
  BY <1>1, <1>9, <1>10 DEF Giving
<1>12. Having'
  <2> SUFFICES ASSUME NEW c \in Owned(client.ws)' PROVE Viewed(c)' \/ ~Opened(c)' \/ Given(c)'
    BY DEF Having
  <2>1. c \in DOMAIN runtime'.subs /\ runtime'.subs[c].ws = client.ws
    BY <1>3 DEF Owned, Channels
  <2>2. c \in Owned(client.ws)
    BY <2>1 DEF Owned
  <2> QED
    BY <1>1, <1>9, <1>10, <2>2 DEF Having
<1> QED
  BY <1>7, <1>8, <1>11, <1>12 DEF Pairs

LEMMA PairsRouter ==
  ASSUME Typed, Owning, Socketed, Fresh, Pairs, NEW w \in Sockets, RouterReads(w)
  PROVE  Pairs'
<1>1. CASE ~(Live /\ w = client.ws)
  BY <1>1, PairsForeign
<1> SUFFICES ASSUME Live, w = client.ws PROVE Pairs'
  BY <1>1
<1>2. PICK f : f = Head(Up)
  OBVIOUS
<1>3. /\ Takes(w, f) /\ Typed' /\ Steers(runtime, runtime')
      /\ \/ f \in SubscribeFrame /\ (Joining(w, f) \/ Refusing(w))
         \/ f \in UnsubscribeFrame /\ Leaving({f.chan} \cap Owned(w))
         \/ /\ f \in ResizeFrame
            /\ IF f.chan \in Owned(w) /\ runtime.life = "running" THEN Resizing(f)
               ELSE runtime' = runtime /\ Untold
         \/ f \in CloseFrame
  BY <1>2, RouterIs DEF Up
<1>4. client' = client /\ runtime'.life = runtime.life /\ Reaches(w)
  BY <1>3, LiveIs DEF Takes, Steers
<1>5. runtime.next \in Nat /\ runtime.next \notin Channels /\ Channels \subseteq Nat
  BY RuntimeIs
<1>6. CASE f \in SubscribeFrame /\ Joining(w, f)
  <2>0. PICK c : c = runtime.next
    OBVIOUS
  <2> DEFINE t == IF Drained(runtime) THEN <<Ack(c), Snapshot(runtime', c)>> ELSE <<Ack(c)>>
  <2>1. /\ Tells(t) /\ runtime.life = "running"
        /\ DOMAIN runtime'.subs = Channels \cup {c} /\ \A d \in Channels : runtime'.subs[d] = runtime.subs[d]
        /\ runtime'.subs[c].surf = f.surf /\ runtime'.subs[c].mount = f.mount /\ runtime'.subs[c].ws = w
    BY <1>4, <1>6, <2>0 DEF Joining
  <2>2. t # <<>> /\ t[1] = Ack(c) /\ t[1].kind = "ack" /\ \A i \in 1..Len(t) : i # 1 => t[i].kind = "snapshot"
    BY DEF Ack, Snapshot
  <2>3. t[1].kind \in Answers /\ \A i \in 1..Len(t) : i # 1 => t[i].kind \notin Answers
    BY <2>2 DEF Answers
  <2>4. Stays
    BY <1>4, <2>1 DEF Stays
  <2>5. f.kind = "subscribe"
    BY <1>6 DEF SubscribeFrame
  <2>6. \A a \in Ask : Fitting(a, f) => Serves(c, a)'
    BY <1>4, <2>1 DEF Fitting, Serves, Channels
  <2> HIDE DEF t
  <2>7. \A d \in Channels : runtime'.subs[d].ws = runtime.subs[d].ws
    BY <2>1
  <2> QED
    BY <1>2, <1>3, <2>0, <2>1, <2>2, <2>3, <2>4, <2>5, <2>6, <2>7, PairsServes
<1>7. CASE f \in SubscribeFrame /\ Refusing(w)
  <2> DEFINE t == <<BadChannel>>
  <2>1. Tells(t) /\ runtime'.subs = runtime.subs
    BY <1>4, <1>7 DEF Refusing
  <2>2. t # <<>> /\ t[1].kind \in Answers /\ t[1].kind # "ack" /\ \A i \in 1..Len(t) : i # 1 => t[i].kind \notin Answers
    BY DEF BadChannel, Answers
  <2>3. Stays
    BY <1>4, <2>1 DEF Stays, Channels
  <2>4. f.kind = "subscribe"
    BY <1>7 DEF SubscribeFrame
  <2> HIDE DEF t
  <2>5. DOMAIN runtime'.subs = Channels /\ \A c \in Channels : runtime'.subs[c].ws = runtime.subs[c].ws
    BY <2>1 DEF Channels
  <2>6. PICK n : n = runtime.next
    OBVIOUS
  <2> QED
    BY <1>2, <1>3, <2>1, <2>2, <2>3, <2>4, <2>5, <2>6, PairsServes
<1>8. CASE f \in UnsubscribeFrame /\ Leaving({f.chan} \cap Owned(w))
  <2>1. f.kind = "unsubscribe" /\ f.chan \in Nat
    BY <1>8 DEF UnsubscribeFrame
  <2>2. /\ DOMAIN runtime'.subs = Channels \ ({f.chan} \cap Owned(w)) /\ Untold
        /\ \A c \in Channels \ ({f.chan} \cap Owned(w)) : runtime'.subs[c] = runtime.subs[c]
    BY <1>8 DEF Leaving
  <2>3. f.chan \notin Owned(client.ws)'
    BY <1>4, <2>2 DEF Owned, Channels
  <2>4. {f.chan} \subseteq Nat
    BY <2>1
  <2>5. \A c \in Channels \ {f.chan} : c \in DOMAIN runtime'.subs /\ runtime'.subs[c] = runtime.subs[c]
    BY <2>2
  <2>6. \A c \in DOMAIN runtime'.subs : c \in Channels /\ runtime'.subs[c] = runtime.subs[c]
    BY <2>2
  <2> QED
    BY <1>2, <1>3, <1>4, <2>1, <2>2, <2>3, <2>4, <2>5, <2>6, PairsTakes
<1>9. CASE /\ f \in ResizeFrame
           /\ IF f.chan \in Owned(w) /\ runtime.life = "running" THEN Resizing(f)
              ELSE runtime' = runtime /\ Untold
  <2>1. f.kind = "resize"
    BY <1>9 DEF ResizeFrame
  <2>2. Untold /\ DOMAIN runtime'.subs = Channels
    BY <1>9 DEF Resizing, Channels
  <2>3. \A c \in Channels : /\ runtime'.subs[c].ws = runtime.subs[c].ws
                            /\ runtime'.subs[c].surf = runtime.subs[c].surf
                            /\ runtime'.subs[c].mount = runtime.subs[c].mount
    <3>1. CASE Resizing(f)
      BY <3>1, RuntimeIs DEF Resizing, Sub
    <3>2. CASE runtime' = runtime
      BY <3>2
    <3> QED
      BY <1>9, <3>1, <3>2
  <2>4. PICK C : C = {}
    OBVIOUS
  <2>5. C \subseteq Nat
    BY <2>4
  <2>6. \A c \in Channels \ C : runtime.subs[c].ws = client.ws =>
             /\ c \in DOMAIN runtime'.subs /\ runtime'.subs[c].ws = client.ws
             /\ runtime'.subs[c].surf = runtime.subs[c].surf /\ runtime'.subs[c].mount = runtime.subs[c].mount
    BY <2>2, <2>3
  <2>7. \A c \in DOMAIN runtime'.subs : runtime'.subs[c].ws = client.ws =>
             c \in Channels /\ runtime.subs[c].ws = client.ws
    BY <2>2, <2>3
  <2>8. Head(Up).kind # "subscribe" /\ Head(Up).kind # "unsubscribe"
    BY <1>2, <2>1
  <2> QED
    BY <1>2, <1>3, <1>4, <2>2, <2>4, <2>5, <2>6, <2>7, <2>8, PairsTakes
<1>10. CASE f \in CloseFrame
  <2>1. f.kind = "close" /\ Up # <<>> /\ Up \in Seq(UpFrame)
    BY <1>3, <1>10, LiveIs DEF CloseFrame, Takes, Up
  <2>2. 1 \in 1..Len(Up) /\ Up[1] = f
    BY <1>2, <2>1, TailAt
  <2> QED
    BY <2>1, <2>2 DEF Socketed, Closes, Up
<1> QED
  BY <1>3, <1>6, <1>7, <1>8, <1>9, <1>10

-----------------------------------------------------------------------------
(* What the browser sends: its requests are in the frames, one by one. *)
Requests(o, b) ==
  /\ b \in Seq(Ask) /\ Len(b) = Count(o, Asks)
  /\ \A i \in 1..Len(o) : o[i].kind = "subscribe" => Fitting(b[Rank(o, Asks, i)], o[i])

LEMMA RequestsNone ==
  ASSUME NEW o \in Seq(UpFrame), \A i \in 1..Len(o) : o[i].kind # "subscribe"
  PROVE  Requests(o, <<>>)
<1>1. Count(o, Asks) = 0
  BY CountNone DEF Asks
<1>2. <<>> \in Seq(Ask) /\ Len(<<>>) = 0
  OBVIOUS
<1> QED
  BY <1>1, <1>2 DEF Requests

LEMMA RequestsJoin ==
  ASSUME NEW o \in Seq(UpFrame), NEW t \in Seq(UpFrame), NEW q, q = o \o t, NEW b
  PROVE  /\ \A i \in 1..Len(o) : o[i].kind # "subscribe"
         /\ Len(t) = 1 /\ t[1].kind = "subscribe" /\ b \in Seq(Ask) /\ Len(b) = 1 /\ Fitting(b[1], t[1])
         => Requests(q, b)
<1>1. \A i \in 1..Len(q) : \/ i \in 1..Len(o) /\ q[i] = o[i]
                           \/ \E k \in 1..Len(t) : i = Len(o) + k /\ q[i] = t[k]
  BY JoinedAt
<1>2. \A i \in 0..Len(t) : Rank(q, Asks, Len(o) + i) = Count(o, Asks) + Rank(t, Asks, i)
  <2>1. \A i \in 0..Len(t) : Rank(o \o t, Asks, Len(o) + i) = Count(o, Asks) + Rank(t, Asks, i)
    BY RankAppend
  <2> QED
    BY <2>1
<1>3. Count(q, Asks) = Count(o, Asks) + Count(t, Asks)
  BY RankAppend
<1> HAVE /\ \A i \in 1..Len(o) : o[i].kind # "subscribe"
         /\ Len(t) = 1 /\ t[1].kind = "subscribe" /\ b \in Seq(Ask) /\ Len(b) = 1 /\ Fitting(b[1], t[1])
<1>4. Count(o, Asks) = 0
  BY CountNone DEF Asks
<1>5. Rank(t, Asks, 1) = 1
  <2>1. Rank(t, Asks, 0 + 1) = Rank(t, Asks, 0) + (IF t[0 + 1].kind \in Asks THEN 1 ELSE 0)
    BY RankStep
  <2>2. Rank(t, Asks, 0) = 0
    BY RankZero
  <2> QED
    BY <2>1, <2>2 DEF Asks
<1>6. Count(t, Asks) = 1
  BY <1>5, CountIs
<1>7. Rank(q, Asks, Len(o) + 1) = 1 /\ Count(q, Asks) = 1
  <2>1. 1 \in 0..Len(t)
    OBVIOUS
  <2>2. Rank(q, Asks, Len(o) + 1) = Count(o, Asks) + Rank(t, Asks, 1)
    BY <1>2, <2>1
  <2> QED
    BY <1>3, <1>4, <1>5, <1>6, <2>2
<1>8. \A i \in 1..Len(q) : q[i].kind = "subscribe" => i = Len(o) + 1 /\ q[i] = t[1]
  <2>1. \A k \in 1..Len(t) : k = 1
    OBVIOUS
  <2> QED
    BY <1>1, <2>1
<1> QED
  BY <1>7, <1>8 DEF Requests

LEMMA RequestsOne ==
  ASSUME NEW o \in Seq(UpFrame), \A i \in 1..Len(o) : o[i].kind # "subscribe", NEW s \in Surfaces, NEW v \in View
  PROVE  Requests(o \o <<SubscribeOf(s, v)>>, <<AskOf(s, v)>>)
<1>1. PICK f, a : f = SubscribeOf(s, v) /\ a = AskOf(s, v)
  OBVIOUS
<1>2. f \in UpFrame /\ a \in Ask
  BY <1>1, SubscribeIn
<1>3. f.kind = "subscribe" /\ Fitting(a, f)
  BY <1>1 DEF SubscribeOf, AskOf, Fitting
<1>4. PICK t, b, q : t = <<f>> /\ b = <<a>> /\ q = o \o t
  OBVIOUS
<1>5. t \in Seq(UpFrame) /\ Len(t) = 1 /\ t[1] = f /\ b \in Seq(Ask) /\ Len(b) = 1 /\ b[1] = a
  BY <1>2, <1>4
<1>6. Requests(q, b)
  BY <1>3, <1>4, <1>5, RequestsJoin
<1> QED
  BY <1>1, <1>4, <1>6

Returns(o, c) == \E i \in 1..Len(o) : o[i].kind = "unsubscribe" /\ o[i].chan = c

LEMMA GivenJoins ==
  ASSUME Typed, Live, NEW o \in Seq(UpFrame), Up' = Up \o o, NEW c
  PROVE  Given(c)' <=> Given(c) \/ Returns(o, c)
<1>1. Up \in Seq(UpFrame)
  BY LiveIs
<1>2. /\ \A i \in 1..Len(Up) : i \in 1..Len(Up') /\ Up'[i] = Up[i]
      /\ \A i \in 1..Len(o) : Len(Up) + i \in 1..Len(Up') /\ Up'[Len(Up) + i] = o[i]
      /\ \A i \in 1..Len(Up') : \/ i \in 1..Len(Up) /\ Up'[i] = Up[i]
                                \/ \E k \in 1..Len(o) : i = Len(Up) + k /\ Up'[i] = o[k]
  <2>1. PICK u, q : u = Up /\ q = Up'
    OBVIOUS
  <2>2. u \in Seq(UpFrame) /\ o \in Seq(UpFrame) /\ q = u \o o
    BY <1>1, <2>1
  <2>3. \A i \in 1..Len(u) : i \in 1..Len(q) /\ q[i] = u[i]
    BY <2>2, JoinedFirst
  <2>4. \A i \in 1..Len(o) : Len(u) + i \in 1..Len(q) /\ q[Len(u) + i] = o[i]
    BY <2>2, JoinedLast
  <2>5. \A i \in 1..Len(q) : \/ i \in 1..Len(u) /\ q[i] = u[i]
                             \/ \E k \in 1..Len(o) : i = Len(u) + k /\ q[i] = o[k]
    BY <2>2, JoinedFrom
  <2> QED
    BY <2>1, <2>3, <2>4, <2>5
<1>3. Given(c)' <=> \E i \in 1..Len(Up') : Up'[i].kind = "unsubscribe" /\ Up'[i].chan = c
  BY DEF Given
<1>4. Given(c)' => Given(c) \/ Returns(o, c)
  BY <1>2, <1>3 DEF Given, Returns
<1>5. Given(c) => Given(c)'
  BY <1>2, <1>3 DEF Given
<1>6. Returns(o, c) => Given(c)'
  BY <1>2, <1>3 DEF Returns
<1> QED
  BY <1>4, <1>5, <1>6

LEMMA TakenOpened ==
  ASSUME Typed, down # <<>>, down' = Tail(down), NEW c
  PROVE  /\ Opened(c) => Opened(c)'
         /\ Head(down) # Ack(c) => (Opened(c)' <=> Opened(c))
<1>1. down \in Seq(DownFrame)
  BY DEF Typed
<1>2. /\ \A i \in 1..Len(down') : i + 1 \in 1..Len(down) /\ down'[i] = down[i + 1]
      /\ \A i \in 1..Len(down) : i = 1 \/ \E k \in 1..Len(down') : i = k + 1 /\ down[i] = down'[k]
      /\ Head(down) = down[1]
  BY <1>1, TailAt
<1>3. Opened(c)' <=> \A i \in 1..Len(down') : down'[i] # Ack(c)
  BY DEF Opened, Ack
<1>4. Opened(c) => Opened(c)'
  BY <1>2, <1>3 DEF Opened
<1>5. Head(down) # Ack(c) /\ Opened(c)' => Opened(c)
  BY <1>2, <1>3 DEF Opened
<1> QED
  BY <1>4, <1>5

LEMMA MovesUp ==
  ASSUME Typed, Typed', Live, NEW s, NEW n, NEW a, NEW o, Moves(s, n, a, o), runtime' = runtime
  PROVE  /\ Live' /\ client'.ws = client.ws /\ Up' = Up \o o /\ client'.acks = a
         /\ \A t \in Surfaces : client'.view[t] = IF t = s THEN n ELSE client.view[t]
         /\ Serving' = Serving /\ \A c, x : Serves(c, x)' <=> Serves(c, x)
<1>1. client.ws \in 1..Len(up) /\ Reaches(client.ws)
  BY LiveIs
<1>2. up'[client.ws] = up[client.ws] \o o
  BY <1>1 DEF Moves, Appends
<1>3. client'.ws = client.ws /\ client'.broken = client.broken
  BY DEF Moves
<1>4. \A c, x : Serves(c, x)' <=> Serves(c, x)
  BY <1>3 DEF Serves, Channels
<1>5. Serving' = Serving
  BY <1>3 DEF Serving, Serves, Channels
<1> QED
  BY <1>2, <1>3, <1>4, <1>5 DEF Up, Live, Moves

(* A surface keeps its channel, or parts with it and gives it back. *)
Shifts(s, n, o) ==
  LET v == client.view[s] IN
  \/ n.chan = v.chan /\ n.mount = v.mount /\ \A c : ~Returns(o, c)
  \/ /\ n.chan = None
     /\ \A c : Returns(o, c) <=> c = v.chan /\ v.chan # None

LEMMA PairsMoves ==
  ASSUME Typed, Typed', Fresh, AckFirst, Pairs,
         NEW s, NEW n, NEW b, NEW o, Moves(s, n, client.acks \o b, o), s \in Surfaces \/ \A c : ~Returns(o, c),
         o \in Seq(UpFrame), Requests(o, b), Shifts(s, n, o), runtime' = runtime,
         \/ down' = down
         \/ down # <<>> /\ down' = Tail(down) /\ Head(down).kind \notin Answers
  PROVE  Pairs'
<1> SUFFICES ASSUME Live PROVE Pairs'
  BY DEF Moves, Pairs, Live
<1>1. Matching /\ Holding /\ Giving /\ Having
  BY DEF Pairs
<1>2. /\ Up \in Seq(UpFrame) /\ client.acks \in Seq(Ask) /\ down \in Seq(DownFrame) /\ down' \in Seq(DownFrame)
  BY LiveIs DEF Typed
<1>3. /\ client'.ws = client.ws /\ Up' = Up \o o /\ client'.acks = client.acks \o b
      /\ \A t \in Surfaces : client'.view[t] = IF t = s THEN n ELSE client.view[t]
      /\ Serving' = Serving /\ \A c, x : Serves(c, x)' <=> Serves(c, x)
  <2>1. PICK a : a = client.acks \o b
    OBVIOUS
  <2>2. Moves(s, n, a, o)
    BY <2>1
  <2>3. /\ client'.ws = client.ws /\ Up' = Up \o o /\ client'.acks = a
        /\ \A t \in Surfaces : client'.view[t] = IF t = s THEN n ELSE client.view[t]
        /\ Serving' = Serving /\ \A c, x : Serves(c, x)' <=> Serves(c, x)
    BY <2>2, MovesUp
  <2> QED
    BY <2>1, <2>3
<1>4. Matching'
  <2>1. Matches(Serving, down', Up, client.acks)
    <3>1. CASE down' = down
      BY <1>1, <3>1 DEF Matching
    <3>2. CASE down # <<>> /\ down' = Tail(down) /\ Head(down).kind \notin Answers
      BY <1>1, <1>2, <3>2, MatchRead DEF Matching
    <3> QED
      BY <3>1, <3>2
  <2>2. Matches(Serving, down', Up \o o, client.acks \o b)
    BY <1>2, <2>1, MatchUp DEF Requests
  <2> QED
    BY <1>3, <2>2 DEF Matching
<1>5. \A c : Opened(c)' <=> Opened(c)
  <2>1. CASE down' = down
    BY <2>1 DEF Opened, Ack
  <2>2. CASE down # <<>> /\ down' = Tail(down) /\ Head(down).kind \notin Answers
    <3>1. \A c : Head(down) # Ack(c)
      BY <2>2 DEF Ack, Answers
    <3> QED
      BY <2>2, <3>1, TakenOpened
  <2> QED
    BY <2>1, <2>2
<1>6. \A c : Given(c)' <=> Given(c) \/ Returns(o, c)
  BY <1>3, GivenJoins
<1>7. \A c : c # None /\ Viewed(c)' => Viewed(c) /\ ~Returns(o, c)
  <2> TAKE c
  <2> HAVE c # None /\ Viewed(c)'
  <2>1. PICK t \in Surfaces : client'.view[t].chan = c
    BY DEF Viewed
  <2>2. client.view[t].chan = c
    <3>1. CASE t = s
      BY <1>3, <2>1, <3>1 DEF Shifts
    <3>2. CASE t # s
      BY <1>3, <2>1, <3>2
    <3> QED
      BY <3>1, <3>2
  <2>3. Viewed(c)
    BY <2>2 DEF Viewed
  <2>4. ASSUME Returns(o, c) PROVE FALSE
    <3>1. n.chan = None /\ c = client.view[s].chan
      BY <2>4 DEF Shifts
    <3>2. s \in Surfaces
      BY <2>4
    <3>3. t = s
      BY <2>2, <3>1, <3>2 DEF AckFirst
    <3> QED
      BY <1>3, <2>1, <3>1, <3>3
  <2> QED
    BY <2>3, <2>4
<1>8. \A c : Viewed(c) => Viewed(c)' \/ Returns(o, c) \/ c = None
  <2> TAKE c
  <2> HAVE Viewed(c)
  <2>1. PICK t \in Surfaces : client.view[t].chan = c
    BY DEF Viewed
  <2>2. CASE client'.view[t].chan = c
    BY <2>2 DEF Viewed
  <2>3. CASE client'.view[t].chan # c
    <3>1. t = s /\ n.chan # client.view[s].chan
      BY <1>3, <2>1, <2>3
    <3>2. \A x : Returns(o, x) <=> x = client.view[s].chan /\ client.view[s].chan # None
      BY <3>1 DEF Shifts
    <3> QED
      BY <2>1, <3>1, <3>2
  <2> QED
    BY <2>2, <2>3
<1>9. \A c : Returns(o, c) => c # None /\ Opened(c)
  <2> TAKE c
  <2> HAVE Returns(o, c)
  <2>1. c = client.view[s].chan /\ c # None
    BY DEF Shifts
  <2>2. ASSUME NEW i \in 1..Len(down), down[i] = Ack(c) PROVE FALSE
    <3>1. down[i].kind = "ack" /\ down[i].chan = c
      BY <2>2 DEF Ack
    <3> QED
      BY <2>1, <3>1 DEF AckFirst
  <2> QED
    BY <2>1, <2>2 DEF Opened
<1>10. Holding'
  <2>1. ASSUME NEW c \in Nat, NEW a \in Ask, Holds(c, a)' PROVE Serves(c, a)
    <3>1. c # None /\ a.surf \in Surfaces /\ client'.view[a.surf].chan = c /\ client'.view[a.surf].mount = a.mount
      BY <2>1 DEF Holds, Ask
    <3>2. client.view[a.surf].chan = c /\ client.view[a.surf].mount = a.mount
      <4>1. CASE a.surf = s
        BY <1>3, <3>1, <4>1 DEF Shifts
      <4>2. CASE a.surf # s
        BY <1>3, <3>1, <4>2
      <4> QED
        BY <4>1, <4>2
    <3> QED
      BY <1>1, <3>1, <3>2 DEF Holding, Holds
  <2> QED
    BY <1>3, <2>1 DEF Holding
<1>11. Giving'
  <2> SUFFICES ASSUME NEW c \in Nat, Given(c)' PROVE Opened(c)' /\ ~Viewed(c)'
    BY DEF Giving
  <2>1. Given(c) => c # None
    BY LiveIs DEF Given, Fresh, Up, None
  <2> QED
    BY <1>1, <1>5, <1>6, <1>7, <1>9, <2>1 DEF Giving
<1>12. Having'
  <2> SUFFICES ASSUME NEW c \in Owned(client.ws)' PROVE Viewed(c)' \/ ~Opened(c)' \/ Given(c)'
    BY DEF Having
  <2>1. c \in Owned(client.ws) /\ c # None
    BY <1>3, RuntimeIs DEF Owned, Channels
  <2> QED
    BY <1>1, <1>5, <1>6, <1>8, <2>1 DEF Having
<1> QED
  BY <1>4, <1>10, <1>11, <1>12 DEF Pairs

(* The answer to a request opens a channel, is turned down, or gives the      *)
(* channel back at once.                                                      *)
Settles(s, n, o, f) ==
  LET v == client.view[s] IN
  \/ /\ f.kind = "ack" /\ v.chan = None /\ n.chan = f.chan /\ n.mount = Head(client.acks).mount
     /\ \A c : ~Returns(o, c)
  \/ /\ f.kind = "ack" /\ n.chan = v.chan /\ n.mount = v.mount
     /\ \A c : Returns(o, c) <=> c = f.chan
  \/ /\ f.kind = "error" /\ n.chan = v.chan /\ n.mount = v.mount
     /\ \A c : ~Returns(o, c)

LEMMA PairsSettles ==
  ASSUME Typed, Typed', Fresh, AckFirst, Pairs, down # <<>>, down' = Tail(down), NEW f, f = Head(down),
         NEW s \in Surfaces, s = Head(client.acks).surf, NEW n, NEW o, Moves(s, n, Tail(client.acks), o),
         o \in Seq(UpFrame), \A i \in 1..Len(o) : o[i].kind # "subscribe",
         Settles(s, n, o, f), runtime' = runtime
  PROVE  Pairs'
<1> SUFFICES ASSUME Live PROVE Pairs'
  BY DEF Moves, Pairs, Live
<1>1. Matching /\ Holding /\ Giving /\ Having
  BY DEF Pairs
<1>2. /\ Up \in Seq(UpFrame) /\ client.acks \in Seq(Ask) /\ down \in Seq(DownFrame) /\ down' \in Seq(DownFrame)
  BY LiveIs DEF Typed
<1>3. /\ client'.ws = client.ws /\ Up' = Up \o o /\ client'.acks = Tail(client.acks)
      /\ \A t \in Surfaces : client'.view[t] = IF t = s THEN n ELSE client.view[t]
      /\ Serving' = Serving /\ \A c, x : Serves(c, x)' <=> Serves(c, x)
  BY MovesUp
<1>4. f.kind \in Answers /\ f.kind \in {"ack", "error"}
  BY DEF Settles, Answers
<1>5. /\ client.acks # <<>> /\ (f.kind = "ack" => <<f.chan, Head(client.acks)>> \in Serving)
      /\ Matches(Serving, down', Up, Tail(client.acks))
  BY <1>1, <1>2, <1>4, MatchAnswer DEF Matching
<1>6. Head(client.acks) \in Ask /\ Tail(client.acks) \in Seq(Ask)
  BY <1>2, <1>5, TailAt
<1>7. Matching'
  <2>1. Requests(o, <<>>)
    BY RequestsNone
  <2>2. Matches(Serving, down', Up \o o, Tail(client.acks) \o <<>>)
    BY <1>2, <1>5, <1>6, <2>1, MatchUp DEF Requests
  <2>3. Tail(client.acks) \o <<>> = Tail(client.acks)
    BY <1>6
  <2> QED
    BY <1>3, <2>2, <2>3 DEF Matching
<1>8. /\ \A c : Opened(c) => Opened(c)'
      /\ f.kind = "ack" => /\ f = Ack(f.chan) /\ f.chan \in Nat /\ f.chan # None
                           /\ ~Opened(f.chan) /\ ~Viewed(f.chan)
      /\ \A c : f # Ack(c) => (Opened(c)' <=> Opened(c))
  <2>1. /\ 1 \in 1..Len(down) /\ down[1] = f
        /\ \A c : Opened(c) => Opened(c)'
        /\ \A c : f # Ack(c) => (Opened(c)' <=> Opened(c))
    BY <1>2, TailAt, TakenOpened
  <2>2. ASSUME f.kind = "ack"
        PROVE  f = Ack(f.chan) /\ f.chan \in Nat /\ f.chan # None /\ ~Opened(f.chan) /\ ~Viewed(f.chan)
    <3>1. f = Ack(f.chan)
      BY <2>1, <2>2, AckNamed
    <3>2. f.chan \in Nat /\ f.chan # None
      BY <2>2, HeadNamed DEF Addressed
    <3>3. ~Opened(f.chan)
      BY <2>1, <3>1 DEF Opened
    <3>4. ~Viewed(f.chan)
      BY <2>1, <2>2 DEF AckFirst, Viewed
    <3> QED
      BY <3>1, <3>2, <3>3, <3>4
  <2> QED
    BY <2>1, <2>2
<1>9. \A c : f = Ack(c) => Opened(c)'
  <2> TAKE c
  <2> HAVE f = Ack(c)
  <2>1. f.kind = "ack" /\ f.chan = c
    BY DEF Ack
  <2>2. ASSUME NEW i \in 1..Len(down'), down'[i] = Ack(c) PROVE FALSE
    <3>1. i + 1 \in 1..Len(down) /\ down[i + 1] = Ack(c) /\ 1 \in 1..Len(down) /\ down[1] = f /\ i + 1 # 1
      BY <1>2, <2>2, TailAt
    <3>2. Addressed(down[i + 1]) /\ down[i + 1].chan = c /\ down[i + 1].kind = "ack"
      BY <3>1 DEF Ack, Addressed
    <3> QED
      BY <2>1, <3>1, <3>2 DEF AckFirst
  <2>3. Opened(c)' <=> \A i \in 1..Len(down') : down'[i] # Ack(c)
    BY DEF Opened, Ack
  <2> QED
    BY <2>2, <2>3
<1>10. \A c : Given(c)' <=> Given(c) \/ Returns(o, c)
  BY <1>3, GivenJoins
<1>11. Holding'
  <2>1. ASSUME NEW c \in Nat, NEW a \in Ask, Holds(c, a)' PROVE Serves(c, a)
    <3>1. c # None /\ a.surf \in Surfaces /\ client'.view[a.surf].chan = c /\ client'.view[a.surf].mount = a.mount
      BY <2>1 DEF Holds, Ask
    <3>2. CASE client.view[a.surf].chan = c /\ client.view[a.surf].mount = a.mount
      BY <1>1, <3>1, <3>2 DEF Holding, Holds
    <3>3. CASE a.surf = s /\ f.kind = "ack" /\ n.chan = f.chan /\ n.mount = Head(client.acks).mount
      <4>1. c = f.chan /\ Serves(c, Head(client.acks))
        BY <1>3, <1>5, <1>6, <3>1, <3>3, ServingIs
      <4>2. a.surf = Head(client.acks).surf /\ a.mount = Head(client.acks).mount
        BY <1>3, <3>1, <3>3
      <4> QED
        BY <4>1, <4>2 DEF Serves
    <3>4. a.surf = s /\ n.chan = client.view[s].chan /\ n.mount = client.view[s].mount =>
            client.view[a.surf].chan = c /\ client.view[a.surf].mount = a.mount
      BY <1>3, <3>1
    <3>5. a.surf # s => client.view[a.surf].chan = c /\ client.view[a.surf].mount = a.mount
      BY <1>3, <3>1
    <3> QED
      BY <3>2, <3>3, <3>4, <3>5 DEF Settles
  <2> QED
    BY <1>3, <2>1 DEF Holding
<1>12. \A c : Viewed(c)' /\ c # None => Viewed(c) \/ (f = Ack(c) /\ \A x : ~Returns(o, x))
  <2> TAKE c
  <2> HAVE Viewed(c)' /\ c # None
  <2>1. PICK t \in Surfaces : client'.view[t].chan = c
    BY DEF Viewed
  <2>2. CASE client.view[t].chan = c
    BY <2>2 DEF Viewed
  <2>3. CASE client.view[t].chan # c
    <3>1. t = s /\ n.chan = c /\ n.chan # client.view[s].chan
      BY <1>3, <2>1, <2>3
    <3>2. f.kind = "ack" /\ n.chan = f.chan /\ \A x : ~Returns(o, x)
      BY <3>1 DEF Settles
    <3> QED
      BY <1>8, <3>1, <3>2
  <2> QED
    BY <2>2, <2>3
<1>13. \A c : Viewed(c) => Viewed(c)' \/ c = None
  <2> TAKE c
  <2> HAVE Viewed(c)
  <2>1. PICK t \in Surfaces : client.view[t].chan = c
    BY DEF Viewed
  <2>2. c = None \/ client'.view[t].chan = c
    <3>1. CASE t = s
      BY <1>3, <2>1, <3>1 DEF Settles
    <3>2. CASE t # s
      BY <1>3, <2>1, <3>2
    <3> QED
      BY <3>1, <3>2
  <2> QED
    BY <2>2 DEF Viewed
<1>14. f.kind = "ack" => Viewed(f.chan)' \/ Returns(o, f.chan)
  <2> SUFFICES ASSUME f.kind = "ack", ~Returns(o, f.chan) PROVE client'.view[s].chan = f.chan
    BY DEF Viewed
  <2>1. n.chan = f.chan
    BY DEF Settles
  <2> QED
    BY <1>3, <2>1
<1>15. Giving'
  <2> SUFFICES ASSUME NEW c \in Nat, Given(c)' PROVE Opened(c)' /\ ~Viewed(c)'
    BY DEF Giving
  <2>1. CASE Given(c)
    <3>1. c # None /\ Opened(c) /\ ~Viewed(c)
      BY <1>1, <2>1, LiveIs DEF Given, Fresh, Up, None, Giving
    <3>2. f # Ack(c)
      BY <1>8, <3>1 DEF Ack
    <3> QED
      BY <1>8, <1>12, <3>1, <3>2
  <2>2. CASE Returns(o, c)
    <3>1. f.kind = "ack" /\ c = f.chan
      BY <2>2 DEF Settles
    <3>2. c # None /\ ~Viewed(c) /\ f = Ack(c)
      BY <1>8, <3>1
    <3> QED
      BY <1>9, <1>12, <2>2, <3>2
  <2> QED
    BY <1>10, <2>1, <2>2
<1>16. Having'
  <2> SUFFICES ASSUME NEW c \in Owned(client.ws)' PROVE Viewed(c)' \/ ~Opened(c)' \/ Given(c)'
    BY DEF Having
  <2>1. c \in Owned(client.ws) /\ c # None
    BY <1>3, RuntimeIs DEF Owned, Channels
  <2>2. CASE f = Ack(c)
    <3>1. f.kind = "ack" /\ f.chan = c
      BY <2>2 DEF Ack
    <3> QED
      BY <1>10, <1>14, <3>1
  <2>3. CASE f # Ack(c)
    BY <1>1, <1>8, <1>10, <1>13, <2>1, <2>3 DEF Having
  <2> QED
    BY <2>2, <2>3
<1> QED
  BY <1>7, <1>11, <1>15, <1>16 DEF Pairs

-----------------------------------------------------------------------------
(* The browser's own steps.                                                  *)
LEMMA PairsSends ==
  ASSUME Typed, Typed', Fresh, AckFirst, Pairs,
         NEW s, NEW n, NEW o, Moves(s, n, client.acks, o), s \in Surfaces \/ \A c : ~Returns(o, c),
         o \in Seq(UpFrame), \A i \in 1..Len(o) : o[i].kind # "subscribe", Shifts(s, n, o), runtime' = runtime,
         \/ down' = down
         \/ down # <<>> /\ down' = Tail(down) /\ Head(down).kind \notin Answers
  PROVE  Pairs'
<1>1. PICK b : b = <<>>
  OBVIOUS
<1>2. Requests(o, b)
  BY <1>1, RequestsNone
<1>3. client.acks \o b = client.acks
  BY <1>1 DEF Typed, Client
<1>4. Moves(s, n, client.acks \o b, o)
  BY <1>3
<1> QED
  BY <1>2, <1>4, PairsMoves

LEMMA PairsAsks ==
  ASSUME Typed, Typed', Fresh, AckFirst, Pairs,
         NEW s \in Surfaces, NEW u \in View, NEW n, NEW p \in Seq(UpFrame), NEW o, o = p \o <<SubscribeOf(s, u)>>,
         Moves(s, n, Append(client.acks, AskOf(s, u)), o),
         \A i \in 1..Len(p) : p[i].kind # "subscribe", Shifts(s, n, o), runtime' = runtime,
         \/ down' = down
         \/ down # <<>> /\ down' = Tail(down) /\ Head(down).kind \notin Answers
  PROVE  Pairs'
<1>1. PICK f, a : f = SubscribeOf(s, u) /\ a = AskOf(s, u)
  OBVIOUS
<1>2. f \in UpFrame /\ a \in Ask
  BY <1>1, SubscribeIn
<1>3. PICK b : b = <<a>>
  OBVIOUS
<1>4. Requests(o, b)
  BY <1>1, <1>3, RequestsOne
<1>5. o \in Seq(UpFrame)
  BY <1>1, <1>2
<1>6. Append(client.acks, a) = client.acks \o b
  <2>1. PICK k : k = client.acks
    OBVIOUS
  <2>2. k \in Seq(Ask)
    BY <2>1 DEF Typed, Client
  <2>3. Append(k, a) = k \o <<a>>
    BY <1>2, <2>2
  <2> QED
    BY <1>3, <2>1, <2>3
<1>7. Moves(s, n, client.acks \o b, o)
  BY <1>1, <1>6
<1> QED
  BY <1>4, <1>5, <1>7, PairsMoves

(* What the frames a surface sends give back. *)
LEMMA ReturnsNone ==
  ASSUME NEW s \in Surfaces, NEW v \in View
  PROVE  /\ \A c : ~Returns(<<>>, c)
         /\ \A c : ~Returns(<<ResizeOf(v)>>, c)
         /\ \A c : ~Returns(<<SubscribeOf(s, v)>>, c)
         /\ <<>> \in Seq(UpFrame) /\ \A i \in 1..Len(<<>>) : <<>>[i].kind # "subscribe"
         /\ \A i \in 1..Len(<<ResizeOf(v)>>) : <<ResizeOf(v)>>[i].kind # "subscribe"
<1>1. \A i \in 1..Len(<<>>) : FALSE
  OBVIOUS
<1>2. \A i \in 1..Len(<<ResizeOf(v)>>) : <<ResizeOf(v)>>[i].kind = "resize"
  <2>1. PICK f : f = ResizeOf(v)
    OBVIOUS
  <2>2. f.kind = "resize"
    BY <2>1 DEF ResizeOf
  <2>3. \A i \in 1..Len(<<f>>) : <<f>>[i] = f
    OBVIOUS
  <2> QED
    BY <2>1, <2>2, <2>3
<1>3. \A i \in 1..Len(<<SubscribeOf(s, v)>>) : <<SubscribeOf(s, v)>>[i].kind = "subscribe"
  <2>1. PICK f : f = SubscribeOf(s, v)
    OBVIOUS
  <2>2. f.kind = "subscribe"
    BY <2>1 DEF SubscribeOf
  <2>3. \A i \in 1..Len(<<f>>) : <<f>>[i] = f
    OBVIOUS
  <2> QED
    BY <2>1, <2>2, <2>3
<1>4. <<>> \in Seq(UpFrame)
  OBVIOUS
<1> QED
  BY <1>1, <1>2, <1>3, <1>4 DEF Returns

LEMMA ReturnsChan ==
  ASSUME NEW v \in View
  PROVE  /\ UnsubscribeOf(v) \in Seq(UpFrame)
         /\ \A c : Returns(UnsubscribeOf(v), c) <=> c = v.chan /\ v.chan # None
         /\ \A i \in 1..Len(UnsubscribeOf(v)) : UnsubscribeOf(v)[i].kind # "subscribe"
<1>1. UnsubscribeOf(v) \in Seq(UpFrame)
  BY UnsubscribeIn
<1>2. CASE v.chan = None
  <2>1. PICK o : o = UnsubscribeOf(v)
    OBVIOUS
  <2>2. o = <<>>
    BY <1>2, <2>1 DEF UnsubscribeOf
  <2>3. \A i \in 1..Len(o) : FALSE
    BY <2>2
  <2> QED
    BY <1>1, <1>2, <2>1, <2>3 DEF Returns
<1>3. CASE v.chan # None
  <2>1. PICK f : f = Unsubscribe(v.chan)
    OBVIOUS
  <2>2. f.kind = "unsubscribe" /\ f.chan = v.chan
    BY <2>1 DEF Unsubscribe
  <2>3. PICK o : o = UnsubscribeOf(v)
    OBVIOUS
  <2>4. o = <<f>>
    BY <1>3, <2>1, <2>3 DEF UnsubscribeOf
  <2>5. Len(o) = 1 /\ o[1] = f
    BY <2>4
  <2>6. \A i \in 1..Len(o) : i = 1
    BY <2>5
  <2>7. \A c : Returns(o, c) <=> c = v.chan
    BY <2>2, <2>5, <2>6 DEF Returns
  <2> QED
    BY <1>1, <1>3, <2>2, <2>3, <2>5, <2>6, <2>7
<1> QED
  BY <1>2, <1>3

LEMMA ReturnsJoin ==
  ASSUME NEW o \in Seq(UpFrame), NEW p \in Seq(UpFrame), NEW q, q = o \o p, NEW c
  PROVE  Returns(q, c) <=> Returns(o, c) \/ Returns(p, c)
<1>1. \A i \in 1..Len(o) : i \in 1..Len(q) /\ q[i] = o[i]
  BY JoinedAt
<1>2. \A i \in 1..Len(p) : Len(o) + i \in 1..Len(q) /\ q[Len(o) + i] = p[i]
  BY JoinedAt
<1>3. \A i \in 1..Len(q) : \/ i \in 1..Len(o) /\ q[i] = o[i]
                           \/ \E k \in 1..Len(p) : i = Len(o) + k /\ q[i] = p[k]
  BY JoinedAt
<1> QED
  BY <1>1, <1>2, <1>3 DEF Returns

-----------------------------------------------------------------------------
(* A surface is looked at.                                                   *)
LEMMA PairsGone ==
  ASSUME \/ client'.ws = None
         \/ client'.broken
  PROVE  Pairs'
BY DEF Pairs, Live

LEMMA PairsLook ==
  ASSUME Base, Base', Screens, Pairs, NEW s \in Surfaces, Looks(s)
  PROVE  Pairs'
<1> DEFINE v == client.view[s]
<1>1. Typed /\ Typed' /\ Socketed /\ Awaited /\ Fresh /\ AckFirst
  BY DEF Base, Screens
<1>2. v \in View /\ (v.mount = 0 => v.chan = None)
  BY <1>1, ViewsAre DEF Awaited
<1>3. runtime' = runtime
  BY <1>1, LookIs
<1>4. v.chan # None => client.ws # None
  BY <1>1 DEF Socketed
<1>5. \A n : n.chan = v.chan /\ n.mount = v.mount => Shifts(s, n, <<>>)
  BY <1>2, ReturnsNone DEF Shifts
<1>6. CASE SetVisibility(s)
  <2>1. down' = down
    BY <1>6 DEF SetVisibility
  <2>2. CASE v.visible
    <3>1. PICK n, o : n = Shut([v EXCEPT !.visible = FALSE]) /\ o = UnsubscribeOf(v)
      OBVIOUS
    <3>2. Moves(s, n, client.acks, o)
      BY <1>1, <1>6, <2>2, <3>1, HideIs, ActsMoves
    <3>3. n.chan = None
      BY <1>2, <3>1 DEF Shut, View
    <3>4. Shifts(s, n, o)
      BY <1>2, <3>1, <3>3, ReturnsChan DEF Shifts
    <3>5. o \in Seq(UpFrame) /\ \A i \in 1..Len(o) : o[i].kind # "subscribe"
      BY <1>2, <3>1, ReturnsChan
    <3> QED
      BY <1>1, <1>3, <2>1, <3>2, <3>4, <3>5, PairsSends
  <2>3. CASE ~v.visible
    <3>1. PICK u : u = [v EXCEPT !.visible = TRUE]
      OBVIOUS
    <3>2. u \in View /\ u.chan = v.chan /\ u.mount = v.mount
      BY <1>2, <3>1 DEF View
    <3>3. CASE client.ws # None /\ v.chan = None /\ ~v.awaiting
      <4>1. PICK n, o : n = Asking(u) /\ o = <<SubscribeOf(s, u)>>
        OBVIOUS
      <4>2. Moves(s, n, Append(client.acks, AskOf(s, u)), o)
        BY <1>1, <1>6, <2>3, <3>1, <3>3, <4>1, ShowIs, ActsMoves
      <4>3. n.chan = v.chan /\ n.mount = v.mount
        BY <3>2, <4>1 DEF Asking, View
      <4>4. Shifts(s, n, o)
        BY <3>2, <4>1, <4>3, ReturnsNone DEF Shifts
      <4>5. PICK p : p = <<>>
        OBVIOUS
      <4>6. o = p \o <<SubscribeOf(s, u)>> /\ p \in Seq(UpFrame)
        BY <4>1, <4>5
      <4>7. \A i \in 1..Len(p) : p[i].kind # "subscribe"
        BY <4>5
      <4> QED
        BY <1>1, <1>3, <2>1, <3>2, <4>2, <4>4, <4>6, <4>7, PairsAsks
    <3>4. CASE ~(client.ws # None /\ v.chan = None /\ ~v.awaiting)
      <4>1. Moves(s, u, client.acks, <<>>)
        BY <1>1, <1>6, <2>3, <3>1, <3>4, ShowIs, ActsMoves
      <4>2. Shifts(s, u, <<>>)
        BY <1>5, <3>2
      <4>3. <<>> \in Seq(UpFrame) /\ \A i \in 1..Len(<<>>) : <<>>[i].kind # "subscribe"
        BY <1>2, ReturnsNone
      <4> QED
        BY <1>1, <1>3, <2>1, <4>1, <4>2, <4>3, PairsSends
    <3> QED
      BY <3>3, <3>4
  <2> QED
    BY <2>2, <2>3
<1>7. CASE Mount(s)
  <2>1. down' = down /\ v.mount = 0 /\ v.chan = None
    BY <1>2, <1>7 DEF Mount, Mounted
  <2>2. PICK u : u = NewSurface(client.mounts + 1, FirstSize[s])
    OBVIOUS
  <2>3. u \in View /\ u.chan = None
    BY <1>1, <1>7, <2>2, MountIs DEF NewSurface
  <2>4. CASE client.ws # None
    <3>1. PICK n, o : n = Asking(u) /\ o = <<SubscribeOf(s, u)>>
      OBVIOUS
    <3>2. Moves(s, n, Append(client.acks, AskOf(s, u)), o)
      BY <1>1, <1>7, <2>2, <2>4, <3>1, MountIs
    <3>3. n.chan = None
      BY <2>3, <3>1 DEF Asking, View
    <3>4. Shifts(s, n, o)
      BY <2>1, <2>3, <3>1, <3>3, ReturnsNone DEF Shifts
    <3>5. PICK p : p = <<>>
      OBVIOUS
    <3>6. o = p \o <<SubscribeOf(s, u)>> /\ p \in Seq(UpFrame)
      BY <3>1, <3>5
    <3>7. \A i \in 1..Len(p) : p[i].kind # "subscribe"
      BY <3>5
    <3> QED
      BY <1>1, <1>3, <2>1, <2>3, <3>2, <3>4, <3>6, <3>7, PairsAsks
  <2>5. CASE client.ws = None
    <3>1. client'.ws = None
      BY <1>1, <1>7, <2>5, MountIs DEF Moves
    <3> QED
      BY <3>1, PairsGone
  <2> QED
    BY <2>4, <2>5
<1>8. CASE Unmount(s)
  <2>1. ASSUME NEW o, Leaves(s, o) PROVE Pairs'
    BY <2>1, PairsGone DEF Leaves
  <2>2. ASSUME Acts(s, NoSurface(s), client.acks, UnsubscribeOf(v)), down' = down PROVE Pairs'
    <3>1. PICK n, o : n = NoSurface(s) /\ o = UnsubscribeOf(v)
      OBVIOUS
    <3>2. Moves(s, n, client.acks, o)
      BY <2>2, <3>1, ActsMoves
    <3>3. n.chan = None
      BY <3>1 DEF NoSurface, NewSurface
    <3>4. Shifts(s, n, o)
      BY <1>2, <3>1, <3>3, ReturnsChan DEF Shifts
    <3>5. o \in Seq(UpFrame) /\ \A i \in 1..Len(o) : o[i].kind # "subscribe"
      BY <1>2, <3>1, ReturnsChan
    <3> QED
      BY <1>1, <1>3, <2>2, <3>2, <3>4, <3>5, PairsSends
  <2> QED
    BY <1>1, <1>8, <2>1, <2>2, UnmountIs
<1>9. ASSUME NEW size \in Sizes, SendResize(s, size) PROVE Pairs'
  <2>1. down' = down
    BY <1>9 DEF SendResize
  <2>2. PICK u : u = [v EXCEPT !.size = size, !.want = size]
    OBVIOUS
  <2>3. u \in View /\ u.chan = v.chan /\ u.mount = v.mount
    BY <1>2, <2>2 DEF View
  <2>4. \/ \E o : Moves(s, FlushedView(u), client.acks, o) /\ (o = <<>> \/ o = <<ResizeOf(u)>>)
        \/ Moves(s, u, client.acks, <<>>)
    BY <1>1, <1>9, <2>2, SendResizeIs, ActsMoves
  <2>5. FlushedView(u).chan = v.chan /\ FlushedView(u).mount = v.mount
    BY <2>3 DEF FlushedView, View
  <2>6. PICK n, o : Moves(s, n, client.acks, o) /\ (o = <<>> \/ o = <<ResizeOf(u)>>) /\ n.chan = v.chan /\ n.mount = v.mount
    BY <2>3, <2>4, <2>5
  <2>7. o \in Seq(UpFrame)
    <3>1. CASE o = <<>>
      BY <3>1
    <3>2. CASE o = <<ResizeOf(u)>>
      <4>1. ResizeOf(u) \in UpFrame \/ u.want = None
        BY <2>3 DEF ResizeOf, ResizeFrame, UpFrame, View
      <4>2. u.want = size /\ size # None
        BY <1>2, <2>2, ViewAssumption DEF View, None
      <4> QED
        BY <3>2, <4>1, <4>2
    <3> QED
      BY <2>6, <3>1, <3>2
  <2>8. \A i \in 1..Len(o) : o[i].kind # "subscribe"
    BY <2>3, <2>6, ReturnsNone
  <2>9. Shifts(s, n, o)
    BY <2>3, <2>6, ReturnsNone DEF Shifts
  <2> QED
    BY <1>1, <1>3, <2>1, <2>6, <2>7, <2>8, <2>9, PairsSends
<1> QED
  BY <1>6, <1>7, <1>8, <1>9 DEF Looks

-----------------------------------------------------------------------------
(* The browser reads a frame.                                                *)
LEMMA AwaitsAnswer ==
  ASSUME Base, Pairs, Live, down # <<>>, Head(down).kind \in Answers
  PROVE  client.acks # <<>>
<1>1. Typed /\ Matches(Serving, down, Up, client.acks)
  BY DEF Base, Pairs, Matching
<1>2. Up \in Seq(UpFrame) /\ client.acks \in Seq(Ask) /\ down \in Seq(DownFrame)
  BY <1>1, LiveIs
<1> QED
  BY <1>1, <1>2, MatchAnswer

LEMMA PairsDead ==
  ASSUME ~Live, Rests
  PROVE  Pairs'
BY DEF Live, Rests, Pairs

LEMMA HeadAwaited ==
  ASSUME Base, client.acks # <<>>
  PROVE  Current(Head(client.acks)) => client.view[Head(client.acks).surf].chan = None
<1>1. client.acks \in Seq(Ask)
  BY DEF Base, Typed, Client
<1>2. 1 \in 1..Len(client.acks) /\ Head(client.acks) = client.acks[1]
  BY <1>1, TailAt
<1> QED
  BY <1>2 DEF Base, Awaited

LEMMA PairsAck ==
  ASSUME Base, Base', Screens, Pairs, ClientReads, NEW f, f = Head(down), f.kind = "ack"
  PROVE  Pairs'
<1>1. Typed /\ Typed' /\ Fresh /\ AckFirst
  BY DEF Base, Screens
<1>2. down # <<>> /\ down' = Tail(down) /\ runtime' = runtime
  BY DEF ClientReads
<1>3. CASE client.acks = <<>> /\ Rests
  BY <1>2, <1>3, AwaitsAnswer, PairsDead DEF Answers
<1> DEFINE a == Head(client.acks)
           s == a.surf
           v == client.view[s]
           u == OpenedView(v, f.chan)
<1>4. ASSUME client.acks # <<>> /\ a \in Ask,
             IF v.mount # a.mount
             THEN Acts(s, v, Tail(client.acks), <<Unsubscribe(f.chan)>>)
             ELSE IF ~v.visible
             THEN Acts(s, Shut(u), Tail(client.acks), UnsubscribeOf(u))
             ELSE IF u.chan # None /\ u.want # None /\ client.ws # None
             THEN Acts(s, FlushedView(u), Tail(client.acks),
                       IF v.sent = v.want THEN <<>> ELSE <<ResizeOf(u)>>)
             ELSE Acts(s, u, Tail(client.acks), <<>>)
      PROVE  Pairs'
  <2>1. s \in Surfaces
    BY <1>4 DEF Ask
  <2>2. v \in View
    BY <1>1, <2>1, ViewsAre
  <2>3. f.chan \in Nat /\ f.chan # None
    BY <1>1, <1>2, HeadNamed DEF Addressed
  <2>4. u \in View /\ u.chan = f.chan /\ u.mount = v.mount /\ u.want = v.want
    BY <2>2, <2>3 DEF OpenedView, View
  <2>5. v.mount = a.mount => v.chan = None
    BY <1>4, HeadAwaited DEF Current
  <2>6. UnsubscribeOf(u) = <<Unsubscribe(f.chan)>>
    BY <2>3, <2>4 DEF UnsubscribeOf
  <2>7. /\ UnsubscribeOf(u) \in Seq(UpFrame)
        /\ \A c : Returns(UnsubscribeOf(u), c) <=> c = f.chan
        /\ \A i \in 1..Len(UnsubscribeOf(u)) : UnsubscribeOf(u)[i].kind # "subscribe"
    BY <2>3, <2>4, ReturnsChan
  <2>8. /\ Shut(u).chan = None /\ Shut(u).mount = v.mount
        /\ FlushedView(u).chan = f.chan /\ FlushedView(u).mount = v.mount
    BY <2>4 DEF Shut, FlushedView, View
  <2>9. PICK k, p : k = Tail(client.acks) /\ p = UnsubscribeOf(u)
    OBVIOUS
  <2>10. ASSUME NEW n, NEW o, Moves(s, n, Tail(client.acks), o), o \in Seq(UpFrame),
                \A i \in 1..Len(o) : o[i].kind # "subscribe", Settles(s, n, o, f)
         PROVE  Pairs'
    BY <1>1, <1>2, <2>1, <2>10, PairsSettles
  <2>11. CASE v.mount # a.mount
    <3>1. Moves(s, v, k, p)
      BY <1>4, <2>6, <2>9, <2>11, ActsMoves
    <3>2. Settles(s, v, p, f)
      BY <2>7, <2>9 DEF Settles
    <3> QED
      BY <2>7, <2>9, <2>10, <3>1, <3>2
  <2>12. CASE v.mount = a.mount /\ ~v.visible
    <3>1. PICK n : n = Shut(u)
      OBVIOUS
    <3>2. Moves(s, n, k, p)
      BY <1>4, <2>9, <2>12, <3>1, ActsMoves
    <3>3. Settles(s, n, p, f)
      BY <2>5, <2>7, <2>8, <2>9, <2>12, <3>1 DEF Settles
    <3> QED
      BY <2>7, <2>9, <2>10, <3>2, <3>3
  <2>13. CASE v.mount = a.mount /\ v.visible
    <3>1. PICK r : r = ResizeOf(u)
      OBVIOUS
    <3>2. \/ Moves(s, FlushedView(u), k, <<>>)
          \/ Moves(s, FlushedView(u), k, <<r>>) /\ u.want # None
          \/ Moves(s, u, k, <<>>)
      <4>1. CASE u.chan # None /\ u.want # None /\ client.ws # None
        <5>1. PICK n, o : n = FlushedView(u) /\ o = IF v.sent = v.want THEN <<>> ELSE <<ResizeOf(u)>>
          OBVIOUS
        <5>2. Moves(s, n, k, o)
          BY <1>4, <2>9, <2>13, <4>1, <5>1, ActsMoves
        <5> QED
          BY <3>1, <4>1, <5>1, <5>2
      <4>2. CASE ~(u.chan # None /\ u.want # None /\ client.ws # None)
        <5>1. PICK o : o = <<>>
          OBVIOUS
        <5>2. Moves(s, u, k, o)
          BY <1>4, <2>9, <2>13, <4>2, <5>1, ActsMoves
        <5> QED
          BY <5>1, <5>2
      <4> QED
        BY <4>1, <4>2
    <3>3. PICK n, o : Moves(s, n, k, o) /\ n.chan = f.chan /\ n.mount = v.mount
                      /\ (o = <<>> \/ (o = <<ResizeOf(u)>> /\ u.want # None))
      BY <2>4, <2>8, <3>1, <3>2
    <3>4. o \in Seq(UpFrame)
      <4>1. u.want # None => ResizeOf(u) \in UpFrame
        BY <2>4 DEF ResizeOf, ResizeFrame, UpFrame, View
      <4>2. CASE o = <<>>
        BY <4>2
      <4>3. CASE o = <<ResizeOf(u)>> /\ u.want # None
        BY <4>1, <4>3
      <4> QED
        BY <3>3, <4>2, <4>3
    <3>5. \A i \in 1..Len(o) : o[i].kind # "subscribe"
      BY <2>1, <2>4, <3>3, ReturnsNone
    <3>6. \A c : ~Returns(o, c)
      BY <2>1, <2>4, <3>3, ReturnsNone
    <3>7. Settles(s, n, o, f)
      BY <2>5, <2>13, <3>3, <3>6 DEF Settles
    <3> QED
      BY <2>9, <2>10, <3>3, <3>4, <3>5, <3>7
  <2> QED
    BY <2>11, <2>12, <2>13
<1> QED
  BY <1>1, <1>3, <1>4, AckIs

LEMMA PairsError ==
  ASSUME Base, Base', Screens, Pairs, ClientReads, NEW f, f = Head(down), f.kind = "error"
  PROVE  Pairs'
<1>1. Typed /\ Typed' /\ Fresh /\ AckFirst
  BY DEF Base, Screens
<1>2. down # <<>> /\ down' = Tail(down) /\ runtime' = runtime
  BY DEF ClientReads
<1>3. CASE client.acks = <<>> /\ Rests
  BY <1>2, <1>3, AwaitsAnswer, PairsDead DEF Answers
<1> DEFINE a == Head(client.acks)
           s == a.surf
           v == client.view[s]
           w == IF v.mount # a.mount THEN v ELSE [v EXCEPT !.awaiting = FALSE]
<1>4. ASSUME client.acks # <<>> /\ a \in Ask, Acts(s, w, Tail(client.acks), <<>>)
      PROVE  Pairs'
  <2>1. s \in Surfaces
    BY <1>4 DEF Ask
  <2>2. v \in View
    BY <1>1, <2>1, ViewsAre
  <2>3. w.chan = v.chan /\ w.mount = v.mount
    BY <2>2 DEF View
  <2>4. PICK n, o, k : n = w /\ o = <<>> /\ k = Tail(client.acks)
    OBVIOUS
  <2>5. Moves(s, n, k, o)
    BY <1>4, <2>4, ActsMoves
  <2>6. o \in Seq(UpFrame) /\ (\A i \in 1..Len(o) : o[i].kind # "subscribe") /\ \A c : ~Returns(o, c)
    BY <2>1, <2>2, <2>4, ReturnsNone
  <2>7. Settles(s, n, o, f)
    BY <2>3, <2>4, <2>6 DEF Settles
  <2> QED
    BY <1>1, <1>2, <2>1, <2>4, <2>5, <2>6, <2>7, PairsSettles
<1> QED
  BY <1>1, <1>3, <1>4, ErrorIs

LEMMA PairsRests ==
  ASSUME Base, Base', Screens, Pairs, Rests, runtime' = runtime,
         down # <<>>, down' = Tail(down), Head(down).kind \notin Answers
  PROVE  Pairs'
<1>1. Typed /\ Typed' /\ Fresh /\ AckFirst
  BY DEF Base, Screens
<1>2. PICK s : TRUE
  OBVIOUS
<1>3. PICK n, o : n = client.view[s] /\ o = <<>>
  OBVIOUS
<1>4. (\A c : ~Returns(o, c)) /\ o \in Seq(UpFrame) /\ \A i \in 1..Len(o) : o[i].kind # "subscribe"
  <2>1. \A i \in 1..Len(o) : FALSE
    BY <1>3
  <2>2. o \in Seq(UpFrame)
    BY <1>3
  <2> QED
    BY <2>1, <2>2 DEF Returns
<1>5. Appends(o)
  <2>1. up \in Seq(Seq(UpFrame)) /\ up' = up
    BY <1>1 DEF Typed, Rests
  <2>2. \A w \in 1..Len(up) : up[w] \o o = up[w]
    <3> TAKE w \in 1..Len(up)
    <3>1. up[w] \in Seq(UpFrame)
      BY <2>1
    <3> QED
      BY <1>3, <3>1
  <2> QED
    BY <2>1, <2>2 DEF Appends
<1>6. Moves(s, n, client.acks, o)
  BY <1>1, <1>3, <1>5 DEF Moves, Rests, Typed
<1>7. Shifts(s, n, o)
  BY <1>3, <1>4 DEF Shifts
<1> QED
  BY <1>1, <1>4, <1>6, <1>7, PairsSends

LEMMA PairsSame ==
  ASSUME Base, Base', Screens, Pairs, NEW s \in Surfaces, NEW n, Acts(s, n, client.acks, <<>>),
         n.chan = client.view[s].chan, n.mount = client.view[s].mount, runtime' = runtime,
         down # <<>>, down' = Tail(down), Head(down).kind \notin Answers
  PROVE  Pairs'
<1>1. Typed /\ Typed' /\ Fresh /\ AckFirst
  BY DEF Base, Screens
<1>2. PICK o : o = <<>>
  OBVIOUS
<1>3. (\A c : ~Returns(o, c)) /\ o \in Seq(UpFrame) /\ \A i \in 1..Len(o) : o[i].kind # "subscribe"
  BY <1>1, <1>2, ViewsAre, ReturnsNone
<1>4. Moves(s, n, client.acks, o)
  BY <1>2, ActsMoves
<1>5. Shifts(s, n, o)
  BY <1>3 DEF Shifts
<1> QED
  BY <1>1, <1>3, <1>4, <1>5, PairsSends

LEMMA PairsShuts ==
  ASSUME Base, Base', Screens, Pairs, NEW s \in Surfaces, NEW v, v = client.view[s], runtime' = runtime,
         \/ Acts(s, Shut(v), client.acks, UnsubscribeOf(v))
         \/ Acts(s, Asking(Shut(v)), Append(client.acks, AskOf(s, v)), UnsubscribeOf(v) \o <<SubscribeOf(s, v)>>),
         down # <<>>, down' = Tail(down), Head(down).kind \notin Answers
  PROVE  Pairs'
<1>1. Typed /\ Typed' /\ Fresh /\ AckFirst
  BY DEF Base, Screens
<1>2. v \in View
  BY <1>1, ViewsAre
<1>3. PICK p : p = UnsubscribeOf(v)
  OBVIOUS
<1>4. /\ p \in Seq(UpFrame)
      /\ \A c : Returns(p, c) <=> c = v.chan /\ v.chan # None
      /\ \A i \in 1..Len(p) : p[i].kind # "subscribe"
  BY <1>2, <1>3, ReturnsChan
<1>5. CASE Acts(s, Shut(v), client.acks, UnsubscribeOf(v))
  <2>1. PICK n : n = Shut(v)
    OBVIOUS
  <2>2. Moves(s, n, client.acks, p)
    BY <1>3, <1>5, <2>1, ActsMoves
  <2>3. n.chan = None
    BY <1>2, <2>1 DEF Shut, View
  <2>4. Shifts(s, n, p)
    BY <1>4, <2>3 DEF Shifts
  <2> QED
    BY <1>1, <1>4, <2>2, <2>4, PairsSends
<1>6. CASE Acts(s, Asking(Shut(v)), Append(client.acks, AskOf(s, v)), UnsubscribeOf(v) \o <<SubscribeOf(s, v)>>)
  <2>1. PICK n, o : n = Asking(Shut(v)) /\ o = p \o <<SubscribeOf(s, v)>>
    OBVIOUS
  <2>2. Moves(s, n, Append(client.acks, AskOf(s, v)), o)
    BY <1>3, <1>6, <2>1, ActsMoves
  <2>3. n.chan = None
    BY <1>2, <2>1 DEF Shut, Asking, View
  <2>4. PICK t : t = <<SubscribeOf(s, v)>>
    OBVIOUS
  <2>5. t \in Seq(UpFrame) /\ o = p \o t
    <3>1. PICK g : g = SubscribeOf(s, v)
      OBVIOUS
    <3>2. g \in UpFrame
      BY <1>2, <3>1, SubscribeIn
    <3>3. t = <<g>>
      BY <2>4, <3>1
    <3> QED
      BY <2>1, <2>4, <3>2, <3>3
  <2>6. \A c : ~Returns(t, c)
    BY <1>2, <2>4, ReturnsNone
  <2>7. \A c : Returns(o, c) <=> Returns(p, c)
    BY <1>4, <2>5, <2>6, ReturnsJoin
  <2>8. Shifts(s, n, o)
    BY <1>4, <2>3, <2>7 DEF Shifts
  <2> QED
    BY <1>1, <1>2, <1>4, <2>1, <2>2, <2>8, PairsAsks
<1> QED
  BY <1>5, <1>6

LEMMA PairsRead ==
  ASSUME Base, Base', Screens, Pairs, ClientReads
  PROVE  Pairs'
<1>1. Typed /\ Typed'
  BY DEF Base
<1>2. down # <<>> /\ down' = Tail(down) /\ runtime' = runtime
  BY DEF ClientReads
<1>3. PICK f : f = Head(down)
  OBVIOUS
<1>4. f \in DownFrame
  BY <1>1, <1>3, ReadsIs
<1>5. CASE f.kind = "ack"
  BY <1>3, <1>5, PairsAck
<1>6. CASE f.kind = "error"
  BY <1>3, <1>6, PairsError
<1>7. CASE f.kind = "closed"
  <2>1. client'.ws = None
    BY <1>1, <1>3, <1>7, ClosedIs DEF Forgets
  <2> QED
    BY <2>1, PairsGone
<1>8. ASSUME f.kind \in {"snapshot", "output", "exit"}, Rests PROVE Pairs'
  <2>1. Head(down).kind \notin Answers
    BY <1>3, <1>8 DEF Answers
  <2> QED
    BY <1>2, <1>8, <2>1, PairsRests
<1>9. ASSUME f.kind \in {"snapshot", "output", "exit"}, NEW s \in Surfaces, NEW n, Acts(s, n, client.acks, <<>>),
             n.chan = client.view[s].chan, n.mount = client.view[s].mount
      PROVE  Pairs'
  <2>1. Head(down).kind \notin Answers
    BY <1>3, <1>9 DEF Answers
  <2> QED
    BY <1>2, <1>9, <2>1, PairsSame
<1>10. CASE f.kind = "snapshot"
  <2>1. ASSUME NEW s \in Surfaces, Acts(s, TakenView(client.view[s], f), client.acks, <<>>) PROVE Pairs'
    <3>1. client.view[s] \in View
      BY <1>1, ViewsAre
    <3>2. PICK n : n = TakenView(client.view[s], f)
      OBVIOUS
    <3>3. n.chan = client.view[s].chan /\ n.mount = client.view[s].mount
      BY <3>1, <3>2 DEF TakenView, View
    <3> QED
      BY <1>9, <1>10, <2>1, <3>2, <3>3
  <2> QED
    BY <1>1, <1>3, <1>8, <1>10, <2>1, SnapshotIs
<1>11. CASE f.kind = "exit"
  <2>1. ASSUME NEW s \in Surfaces, Acts(s, [client.view[s] EXCEPT !.ended = TRUE], client.acks, <<>>) PROVE Pairs'
    <3>1. client.view[s] \in View
      BY <1>1, ViewsAre
    <3>2. PICK n : n = [client.view[s] EXCEPT !.ended = TRUE]
      OBVIOUS
    <3>3. n.chan = client.view[s].chan /\ n.mount = client.view[s].mount
      BY <3>1, <3>2 DEF View
    <3> QED
      BY <1>9, <1>11, <2>1, <3>2, <3>3
  <2> QED
    BY <1>1, <1>3, <1>8, <1>11, <2>1, ExitIs
<1>12. CASE f.kind = "output"
  <2>1. ASSUME NEW s \in Surfaces, Acts(s, WrittenView(client.view[s], f), client.acks, <<>>) PROVE Pairs'
    <3>1. client.view[s] \in View
      BY <1>1, ViewsAre
    <3>2. PICK n : n = WrittenView(client.view[s], f)
      OBVIOUS
    <3>3. n.chan = client.view[s].chan /\ n.mount = client.view[s].mount
      BY <3>1, <3>2 DEF WrittenView, View
    <3> QED
      BY <1>9, <1>12, <2>1, <3>2, <3>3
  <2>2. ASSUME NEW s \in Surfaces, NEW v, v = client.view[s],
               \/ Acts(s, Shut(v), client.acks, UnsubscribeOf(v))
               \/ Acts(s, Asking(Shut(v)), Append(client.acks, AskOf(s, v)), UnsubscribeOf(v) \o <<SubscribeOf(s, v)>>)
        PROVE  Pairs'
    <3>1. Head(down).kind \notin Answers
      BY <1>3, <1>12 DEF Answers
    <3> QED
      BY <1>2, <2>2, <3>1, PairsShuts
  <2> QED
    BY <1>1, <1>3, <1>8, <1>12, <2>1, <2>2, OutputIs
<1>13. f.kind \in {"ack", "error", "output", "snapshot", "exit", "closed"}
  BY <1>4, KindIs
<1> QED
  BY <1>5, <1>6, <1>7, <1>10, <1>11, <1>12, <1>13

-----------------------------------------------------------------------------
(* A socket opens.                                                           *)
LEMMA PairsOpens ==
  ASSUME Base, Connect
  PROVE  Pairs'
<1> DEFINE w == client.made + 1
<1>1. Typed /\ Socketed /\ Awaited /\ Typed'
  BY OpensBase DEF Base
<1>2. down' = down /\ runtime' = runtime
  BY OpensBase
<1>3. PICK q : Lists(q) /\ Opens(q)
  BY <1>1, ConnectIs
<1>4. Len(q) \in Nat /\ client.made \in Nat /\ w \in 1..Len(up)
  BY <1>1, <1>3 DEF Lists, Opens, Typed, Client
<1>5. PICK k, o : /\ k = [i \in 1..Len(q) |-> AskOf(q[i], client.view[q[i]])]
                  /\ o = [i \in 1..Len(q) |-> SubscribeOf(q[i], client.view[q[i]])]
  OBVIOUS
<1>6. /\ client.ws = None /\ client'.ws = w /\ k \in Seq(Ask) /\ client'.acks = k /\ o \in Seq(UpFrame)
      /\ up'[w] = up[w] \o o
      /\ \A s \in Surfaces : client'.view[s] = IF s \in Visible THEN Asking(client.view[s]) ELSE client.view[s]
  BY <1>3, <1>4, <1>5 DEF Opens
<1>7. /\ down = <<>> /\ up[w] = <<>> /\ \A s \in Surfaces : client.view[s].chan = None
      /\ \A c \in Channels : runtime.subs[c].ws # w
  <2>1. w > client.made /\ \A x \in 1..client.made : x # w
    BY <1>4
  <2> QED
    BY <1>1, <1>4, <1>6, <2>1 DEF Socketed
<1>8. /\ Len(k) = Len(q) /\ Len(o) = Len(q)
      /\ \A i \in 1..Len(q) : o[i].kind = "subscribe" /\ Fitting(k[i], o[i])
  BY <1>4, <1>5 DEF SubscribeOf, AskOf, Fitting
<1>9. Up' = o
  BY <1>6, <1>7 DEF Up
<1>10. Matching'
  <2>1. Count(o, Asks) = Len(o) /\ \A i \in 1..Len(o) : Rank(o, Asks, i) = i
    <3>1. \A i \in 1..Len(o) : o[i].kind \in Asks
      BY <1>8 DEF Asks
    <3>2. Count(o, Asks) = Len(o) /\ \A i \in 0..Len(o) : Rank(o, Asks, i) = i
      BY <1>6, <3>1, CountAll
    <3>3. \A i \in 1..Len(o) : i \in 0..Len(o)
      BY <1>4, <1>8
    <3> QED
      BY <3>2, <3>3
  <2>2. PICK d : d = <<>>
    OBVIOUS
  <2>3. d \in Seq(DownFrame) /\ \A i \in 1..Len(d) : FALSE
    BY <2>2
  <2>4. Count(d, Answers) = 0
    BY <2>3, CountNone
  <2>5. \A T : Matches(T, d, o, k)
    <3> TAKE T
    <3>1. Len(k) = Count(d, Answers) + Count(o, Asks)
      BY <1>4, <1>8, <2>1, <2>4
    <3>2. \A i \in 1..Len(o) : Count(d, Answers) + Rank(o, Asks, i) = i
      BY <1>4, <1>8, <2>1, <2>4
    <3> QED
      BY <1>8, <2>3, <3>1, <3>2 DEF Matches
  <2>6. down' = d
    BY <1>2, <1>7, <2>2
  <2>7. PICK T : T = Serving'
    OBVIOUS
  <2>8. Matches(T, d, o, k)
    BY <2>5
  <2> QED
    BY <1>6, <1>9, <2>6, <2>7, <2>8 DEF Matching
<1>11. \A s \in Surfaces : client'.view[s].chan = None
  <2> TAKE s \in Surfaces
  <2>1. client.view[s] \in View
    BY <1>1, ViewsAre
  <2>2. Asking(client.view[s]).chan = client.view[s].chan
    BY <2>1 DEF Asking, View
  <2> QED
    BY <1>6, <1>7, <2>2
<1>12. Holding'
  BY <1>11 DEF Holding, Holds, Ask
<1>13. Giving'
  <2>1. ASSUME NEW c, Given(c)' PROVE FALSE
    <3>1. PICK i \in 1..Len(o) : o[i].kind = "unsubscribe"
      BY <1>9, <2>1 DEF Given
    <3> QED
      BY <1>8, <3>1
  <2> QED
    BY <2>1 DEF Giving
<1>14. Having'
  <2>1. ASSUME NEW c \in Owned(client.ws)' PROVE FALSE
    <3>1. c \in Channels /\ runtime.subs[c].ws = w
      BY <1>2, <1>6 DEF Owned, Channels
    <3> QED
      BY <1>7, <3>1
  <2> QED
    BY <2>1 DEF Having
<1> QED
  BY <1>10, <1>12, <1>13, <1>14 DEF Pairs

-----------------------------------------------------------------------------
(* The invariant of the pairing, step by step.                               *)
PairsInv == ScreensInv /\ Pairs

LEMMA PairsTelling ==
  ASSUME PairsInv, Telling
  PROVE  Pairs'
<1>1. Base /\ Linked /\ Screens /\ Typed /\ Typed' /\ Owning /\ Socketed /\ Fresh /\ AckFirst /\ Pairs
  BY TellingBase DEF PairsInv, ScreensInv, Base, Screens
<1>2. CASE ReceiveOutput
  BY <1>1, <1>2, PairsReceive
<1>3. CASE Parse
  BY <1>1, <1>3, PairsParse
<1>4. CASE ExitObserved
  BY <1>1, <1>4, PairsExit
<1>5. CASE ConfirmedAbsence
  BY <1>1, <1>5, PairsAbsence
<1>6. ASSUME NEW w \in Sockets, RouterReads(w) PROVE Pairs'
  BY <1>1, <1>6, PairsRouter
<1> QED
  BY <1>2, <1>3, <1>4, <1>5, <1>6 DEF Telling

LEMMA PairsBrowsing ==
  ASSUME PairsInv, Browsing
  PROVE  Pairs'
<1>1. Base /\ Screens /\ Pairs
  BY DEF PairsInv, ScreensInv
<1>2. Base'
  BY ScreensBrowsing DEF PairsInv, ScreensInv
<1>3. CASE Connect
  BY <1>1, <1>3, PairsOpens
<1>4. CASE ClientReads
  BY <1>1, <1>2, <1>4, PairsRead
<1>5. ASSUME NEW n \in 0..Len(down), NEW w \in Sockets, NEW m \in 0..Len(up[w]), SocketBreaks(w, m, n)
      PROVE  Pairs'
  <2>1. client'.broken
    BY <1>1, <1>5, BreaksBase DEF Breaks
  <2> QED
    BY <2>1, PairsGone
<1>6. ASSUME NEW s \in Surfaces, Looks(s) PROVE Pairs'
  BY <1>1, <1>2, <1>6, PairsLook
<1> QED
  BY <1>3, <1>4, <1>5, <1>6 DEF Browsing

LEMMA PairsStutters ==
  ASSUME Pairs, UNCHANGED vars
  PROVE  Pairs'
<1>1. client' = client /\ up' = up /\ down' = down /\ runtime' = runtime
  BY DEF vars
<1>2. Serving' = Serving /\ Up' = Up /\ (Live' <=> Live)
  BY <1>1 DEF Serving, Serves, Channels, Up, Live
<1>3. Matching => Matching'
  BY <1>1, <1>2 DEF Matching
<1>4. Holding => Holding'
  BY <1>1 DEF Holding, Holds, Serves, Channels
<1>5. Giving => Giving'
  BY <1>1, <1>2 DEF Giving, Given, Opened, Ack, Viewed
<1>6. Having => Having'
  BY <1>1, <1>2 DEF Having, Given, Opened, Ack, Viewed, Owned, Channels
<1> QED
  BY <1>2, <1>3, <1>4, <1>5, <1>6 DEF Pairs

LEMMA PairsStep ==
  ASSUME PairsInv, [Next]_vars
  PROVE  PairsInv'
<1>1. ScreensInv' /\ Pairs
  BY ScreensStep DEF PairsInv
<1>2. CASE Quiet
  <2>1. Typed /\ Typed'
    BY <1>1 DEF PairsInv, ScreensInv, Base
  <2> QED
    BY <1>1, <1>2, <2>1, PairsQuiet DEF PairsInv
<1>3. CASE Telling
  BY <1>1, <1>3, PairsTelling DEF PairsInv
<1>4. CASE Browsing
  BY <1>1, <1>4, PairsBrowsing DEF PairsInv
<1>5. CASE UNCHANGED vars
  BY <1>1, <1>5, PairsStutters DEF PairsInv
<1> QED
  BY <1>2, <1>3, <1>4, <1>5, NextIs

(* Who asked and who has each channel, throughout: the answers on their way   *)
(* to the browser and the SUBSCRIBEs on their way to the router are, in this  *)
(* order, the requests the browser awaits; every channel acknowledged or      *)
(* taken serves the mount that asked; one being given back nobody has; and    *)
(* one that nobody has is being acknowledged or given back.                   *)
THEOREM PairsInvariant == Spec => []PairsInv
<1>1. Init => PairsInv
  <2>1. Init => ~Live
    BY DEF Init, Live
  <2> QED
    BY <2>1, InitScreens DEF PairsInv, Pairs
<1>2. PairsInv /\ [Next]_vars => PairsInv'
  BY PairsStep
<1> QED
  BY <1>1, <1>2, PTL DEF Spec

LEMMA PairedNow ==
  ASSUME PairsInv
  PROVE  ChannelsPaired
<1>1. Typed /\ Socketed /\ Pairs
  BY DEF PairsInv, ScreensInv, Base
<1>2. ASSUME Live
      PROVE  /\ Len(client.acks) = Count(down, {"ack", "error"}) + Count(up[client.ws], {"subscribe"})
             /\ \A s \in Surfaces :
                   LET c == client.view[s].chan IN
                   c # None /\ runtime.life # "retired" =>
                       /\ c \in Channels /\ runtime.subs[c].surf = s
                       /\ runtime.subs[c].mount = client.view[s].mount
  <2>1. Matching /\ Holding
    BY <1>1, <1>2 DEF Pairs
  <2>2. Len(client.acks) = Count(down, {"ack", "error"}) + Count(up[client.ws], {"subscribe"})
    BY <2>1 DEF Matching, Matches, Up, Answers, Asks
  <2>3. ASSUME NEW s \in Surfaces, client.view[s].chan # None, runtime.life # "retired"
        PROVE  LET c == client.view[s].chan IN
               c \in Channels /\ runtime.subs[c].surf = s /\ runtime.subs[c].mount = client.view[s].mount
    <3>1. PICK c, a : c = client.view[s].chan /\ a = AskOf(s, client.view[s])
      OBVIOUS
    <3>2. client.view[s] \in View
      BY <1>1, ViewsAre
    <3>3. c \in Nat /\ a \in Ask /\ a.surf = s /\ a.mount = client.view[s].mount
      BY <3>1, <3>2 DEF View, AskOf, Ask
    <3>4. Serves(c, a)
      BY <2>1, <2>3, <3>1, <3>3 DEF Holding, Holds
    <3> QED
      BY <2>3, <3>1, <3>3, <3>4 DEF Serves
  <2> QED
    BY <2>2, <2>3
<1>3. ASSUME NEW c \in Channels
      PROVE  LET w == runtime.subs[c].ws IN
             \/ \E s \in Surfaces : client.view[s].chan = c
             \/ \E i \in 1..Len(down) : down[i] = Ack(c)
             \/ \E i \in 1..Len(up[w]) :
                   up[w][i] \in {[kind |-> "close"], [kind |-> "unsubscribe", chan |-> c]}
  <2>1. PICK w : w = runtime.subs[c].ws
    OBVIOUS
  <2>2. w \in 1..Len(up) /\ c \in Owned(w)
    <3>1. w \in 1..client.made /\ client.made \in Nat /\ client.made <= Len(up) /\ Len(up) \in Nat
      BY <1>1, <2>1 DEF Socketed, Typed, Client
    <3>2. w \in 1..Len(up)
      BY <3>1
    <3> QED
      BY <2>1, <3>2 DEF Owned
  <2>3. up[w] \in Seq(UpFrame)
    BY <1>1, <2>2 DEF Typed
  <2>4. ASSUME NEW i \in 1..Len(up[w])
        PROVE  /\ up[w][i].kind = "close" => up[w][i] = [kind |-> "close"]
               /\ up[w][i].kind = "unsubscribe" /\ up[w][i].chan = c => up[w][i] = [kind |-> "unsubscribe", chan |-> c]
    <3>1. PICK f : f = up[w][i]
      OBVIOUS
    <3>2. f \in UpFrame
      BY <2>3, <3>1
    <3>3. f.kind = "close" => f = [kind |-> "close"]
      BY <3>2 DEF UpFrame, SubscribeFrame, UnsubscribeFrame, ResizeFrame, CloseFrame
    <3>4. f.kind = "unsubscribe" /\ f.chan = c => f = [kind |-> "unsubscribe", chan |-> c]
      BY <3>2 DEF UpFrame, SubscribeFrame, UnsubscribeFrame, ResizeFrame, CloseFrame
    <3> QED
      BY <3>1, <3>3, <3>4
  <2>5. CASE Closes(w)
    BY <2>1, <2>4, <2>5 DEF Closes
  <2>6. CASE Reaches(w)
    <3>1. Live /\ w = client.ws
      BY <2>2, <2>6 DEF Reaches, Live, None
    <3>2. Viewed(c) \/ ~Opened(c) \/ Given(c)
      BY <1>1, <2>2, <3>1 DEF Pairs, Having
    <3>3. Given(c) => \E i \in 1..Len(up[w]) : up[w][i] = [kind |-> "unsubscribe", chan |-> c]
      BY <2>4, <3>1 DEF Given, Up
    <3> QED
      BY <2>1, <3>2, <3>3 DEF Viewed, Opened
  <2> QED
    BY <1>1, <2>1, <2>2, <2>5, <2>6 DEF Socketed
<1> QED
  BY <1>2, <1>3 DEF ChannelsPaired, Live

(* As long as the socket lives, requests and answers pair up, and every       *)
(* channel a surface has serves that very mount; a channel of the runtime is  *)
(* had by a surface, announced to it, or being given back: none is left open  *)
(* behind a surface that hid, was mounted anew or lost its socket             *)
(* (binaryTerminalBrokerClient.ts and terminalWsRouter.ts).                   *)
THEOREM ChannelsArePaired == Spec => []ChannelsPaired
<1>1. PairsInv => ChannelsPaired
  BY PairedNow
<1> QED
  BY <1>1, PairsInvariant, PTL
=============================================================================
