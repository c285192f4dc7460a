----------------------- MODULE TerminalViewBase_proofs -----------------------
(* What the invariant of TerminalView rests on, for any surfaces, sizes and  *)
(* budgets: the types, who owns the size, what the sockets hold, and which   *)
(* mounts wait for an answer.  The definitions come first, then the lemmas   *)
(* about sequences and helpers, then one lemma per step and part.            *)
EXTENDS TerminalView, FiniteSetTheorems, TLAPS

-----------------------------------------------------------------------------
(* Types.  A runtime's subscribers are a function on the channels in use.    *)
Sub == [surf : Surfaces, mount : Nat, ws : Nat, size : Sizes, ready : BOOLEAN]
SubsOf == UNION {[S -> Sub] : S \in SUBSET Nat}
Lives == {"running", "draining", "exited", "retired"}
Runtime ==
    [screen : SUBSET Nat, inbox : Seq(Nat), offset : Nat, subs : SubsOf, next : Nat,
     owner : Nat, commanded : Sizes \cup {None}, rev : Nat, life : Lives]
Holder == [emitted : Nat, exited : BOOLEAN, gone : BOOLEAN, pty : Sizes \cup {None}]
Link ==
    [state : {"down", "attaching", "up", "closed"}, slot : BOOLEAN,
     pend : Sizes \cup {None}, out : Seq(Nat), in : Seq(Sizes), lost : BOOLEAN]

AckFrame == [kind : {"ack"}, chan : Nat]
ErrorFrame == [kind : {"error"}]
OutputFrame == [kind : {"output"}, chan : Nat, rev : Nat, chunk : Nat]
SnapshotFrame == [kind : {"snapshot"}, chan : Nat, rev : Nat, offset : Nat, screen : SUBSET Nat]
ExitFrame == [kind : {"exit"}, chan : Nat]
ClosedFrame == [kind : {"closed"}]
DownFrame ==
    AckFrame \cup ErrorFrame \cup OutputFrame \cup SnapshotFrame \cup ExitFrame \cup ClosedFrame

SubscribeFrame == [kind : {"subscribe"}, surf : Surfaces, mount : Nat, size : Sizes]
UnsubscribeFrame == [kind : {"unsubscribe"}, chan : Nat]
ResizeFrame == [kind : {"resize"}, chan : Nat, size : Sizes]
CloseFrame == [kind : {"close"}]
UpFrame == SubscribeFrame \cup UnsubscribeFrame \cup ResizeFrame \cup CloseFrame

View ==
    [mount : Nat, visible : BOOLEAN, size : Sizes, chan : Nat, awaiting : BOOLEAN,
     want : Sizes \cup {None}, sent : Sizes \cup {None}, phase : {"none", "baseline", "live"},
     rev : Nat, expected : Nat, shown : SUBSET Nat, ended : BOOLEAN]
Ask == [surf : Surfaces, mount : Nat]
Client ==
    [ws : Nat, made : Nat, broken : BOOLEAN, acks : Seq(Ask), out : Seq(UpFrame),
     mounts : Nat, view : [Surfaces -> View]]
Left ==
    [outputs : Nat, exits : Nat, cuts : Nat, drops : Nat, looks : Nat, resizes : Nat]

(* Channels are finitely many, numbered below the next. *)
Sound(r) == r \in Runtime /\ DOMAIN r.subs \subseteq 1..(r.next - 1) /\ r.next >= 1

Typed ==
    /\ holder \in Holder
    /\ link \in Link
    /\ Sound(runtime)
    /\ up \in Seq(Seq(UpFrame))
    /\ down \in Seq(DownFrame)
    /\ client \in Client /\ client.out = <<>>
    /\ client.ws \in {None, client.made} /\ client.made <= Len(up)
    /\ left \in Left

-----------------------------------------------------------------------------
(* The holder's link and the screen: what was told was emitted, what is on   *)
(* the link continues it, and a session that ended has nothing left to parse. *)
Over == runtime.life \in {"exited", "retired"}
Linked ==
    /\ ToldChunks \subseteq 1..runtime.offset /\ None \notin runtime.screen
    /\ runtime.offset <= holder.emitted
    /\ IF link.state \in {"attaching", "up"}
       THEN /\ Len(link.out) = holder.emitted - runtime.offset
            /\ \A i \in 1..Len(link.out) : link.out[i] = runtime.offset + i
       ELSE link.out = <<>>
    /\ Over => link.state = "closed" /\ ~link.slot /\ Drained(runtime)
    /\ holder.gone \/ runtime.life # "running" => holder.exited
    /\ runtime.life = "retired" => Channels = {}

(* The owner of the size is the longest-standing channel, and its size the    *)
(* one commanded.                                                            *)
Owns(r) ==
    IF DOMAIN r.subs = {} THEN r.owner = None
    ELSE /\ r.owner \in DOMAIN r.subs
         /\ \A c \in DOMAIN r.subs : r.owner <= c
         /\ r.commanded = r.subs[r.owner].size
Owning == Owns(runtime)

-----------------------------------------------------------------------------
(* Sockets. *)
Live == client.ws # None /\ ~client.broken
Closes(w) == \E i \in 1..Len(up[w]) : up[w][i].kind = "close"
Socketed ==
    /\ client.broken => client.ws # None
    /\ client.ws = None => /\ down = <<>> /\ client.acks = <<>>
                           /\ \A s \in Surfaces : client.view[s].chan = None
    /\ client.broken <=> \E i \in 1..Len(down) : down[i].kind = "closed"
    /\ \A i \in 1..Len(down) : down[i].kind = "closed" => i = Len(down)
    /\ \A w \in 1..Len(up) : \A i \in 1..Len(up[w]) : up[w][i].kind = "close" => i = Len(up[w])
    /\ Live => ~Closes(client.ws)
    /\ \A w \in 1..Len(up) :
          Reaches(w) \/ Closes(w) \/ (up[w] = <<>> /\ Owned(w) = {})
    /\ \A w \in 1..Len(up) : w > client.made => up[w] = <<>>
    /\ \A c \in Channels : runtime.subs[c].ws \in 1..client.made

-----------------------------------------------------------------------------
(* Screens *)
Shows(f) == f.kind \in {"snapshot", "output"}
Pos(f) == IF f.kind = "snapshot" THEN f.offset ELSE f.chunk
UpTo(e) == {k \in ToldChunks : k <= e}

Shown ==
    /\ \A s \in Surfaces :
          LET v == client.view[s] IN
          /\ v.expected <= runtime.offset /\ v.rev <= runtime.rev
          /\ v.phase = "live" => v.shown = UpTo(v.expected)
          /\ v.ended => v.shown = runtime.screen
    /\ \A i \in 1..Len(down) :
          LET f == down[i] IN
          /\ Shows(f) => Pos(f) <= runtime.offset /\ f.rev <= runtime.rev
          /\ f.kind = "snapshot" => f.screen = UpTo(f.offset)
          /\ f.kind = "output" => f.chunk \in ToldChunks

Ascending ==
    /\ \A i, j \in 1..Len(down) :
          i < j /\ Shows(down[i]) /\ Shows(down[j]) =>
              Pos(down[i]) <= Pos(down[j]) /\ down[i].rev <= down[j].rev
    /\ \A s \in Surfaces, i \in 1..Len(down) :
          Shows(down[i]) =>
              client.view[s].expected <= Pos(down[i]) /\ client.view[s].rev <= down[i].rev

(* Channels. *)
Addressed(f) == f.kind \in {"ack", "snapshot", "output", "exit"}
Fresh ==
    /\ \A i \in 1..Len(down) : Addressed(down[i]) => down[i].chan \in 1..(runtime.next - 1)
    /\ \A w \in 1..Len(up) : \A i \in 1..Len(up[w]) :
          up[w][i].kind \in {"unsubscribe", "resize"} => up[w][i].chan \in 1..(runtime.next - 1)
    /\ \A s \in Surfaces : client.view[s].chan \in 0..(runtime.next - 1)

AckFirst ==
    /\ \A i \in 1..Len(down) : down[i].kind = "ack" =>
          /\ \A j \in 1..Len(down) :
                j # i /\ Addressed(down[j]) /\ down[j].chan = down[i].chan => i < j /\ down[j].kind # "ack"
          /\ \A s \in Surfaces : client.view[s].chan # down[i].chan
    /\ \A s, t \in Surfaces :
          client.view[s].chan = client.view[t].chan /\ client.view[s].chan # None => s = t

Opened(c) == \A i \in 1..Len(down) : down[i] # Ack(c)
Based(c, i) ==
    \/ \E j \in 1..Len(down) : j < i /\ down[j].kind = "snapshot" /\ down[j].chan = c
    \/ Opened(c) /\ \A s \in Surfaces : client.view[s].chan = c => client.view[s].phase = "live"
Heard(c, k, i) ==
    \/ \E j \in 1..Len(down) :
          /\ j < i /\ Shows(down[j]) /\ down[j].chan = c
          /\ IF down[j].kind = "snapshot" THEN k <= down[j].offset ELSE k = down[j].chunk
    \/ Opened(c) /\ \A s \in Surfaces : client.view[s].chan = c => k <= client.view[s].expected
Story ==
    /\ \A i \in 1..Len(down) : down[i].kind = "output" => Based(down[i].chan, i)
    /\ \A i \in 1..Len(down) : down[i].kind = "exit" =>
          Based(down[i].chan, i) /\ \A k \in ToldChunks : Heard(down[i].chan, k, i)
    /\ \A c \in Channels : runtime.subs[c].ready /\ Reaches(runtime.subs[c].ws) =>
          Based(c, Len(down) + 1) /\ \A k \in ToldChunks : Heard(c, k, Len(down) + 1)

Final == {"exit", "error", "closed"}
Ended ==
    /\ \A i \in 1..Len(down) : down[i].kind = "exit" =>
          Over /\ \A j \in 1..Len(down) : i < j => down[j].kind \in Final
    /\ \A s \in Surfaces : client.view[s].ended =>
          Over /\ \A j \in 1..Len(down) : down[j].kind \in Final

-----------------------------------------------------------------------------
(* Awaited answers: a mount that waits is asked for once and has no channel.  *)
Rank(frames, kinds, i) == Cardinality({j \in 1..i : frames[j].kind \in kinds})

Current(a) == client.view[a.surf].mount = a.mount
Awaited ==
    /\ \A i \in 1..Len(client.acks) :
          /\ client.acks[i].mount \in 1..client.mounts
          /\ Current(client.acks[i]) =>
                /\ client.view[client.acks[i].surf].awaiting
                /\ client.view[client.acks[i].surf].chan = None
                /\ \A j \in 1..Len(client.acks) : client.acks[j] = client.acks[i] => j = i
    /\ \A s \in Surfaces :
          /\ client.view[s].mount \in 0..client.mounts
          /\ client.view[s].mount = 0 => client.view[s].chan = None /\ ~client.view[s].visible
    /\ \A s, t \in Surfaces : client.view[s].mount = client.view[t].mount /\ client.view[s].mount # 0 => s = t

-----------------------------------------------------------------------------
(* Finite sets: an induction over a family F of subsets, and enumerations.   *)

LEMMA FiniteGrowth ==
  ASSUME NEW S, IsFiniteSet(S), NEW F, {} \in F,
         \A T \in SUBSET S : \A x \in S \ T : T \in F => T \cup {x} \in F
  PROVE  S \in F
<1> DEFINE Bad == {T \in SUBSET S : T \notin F}
<1>1. SUFFICES ASSUME S \notin F PROVE FALSE
  OBVIOUS
<1>2. Bad \subseteq FiniteSubsetsOf(S) /\ Bad # {}
  BY <1>1, FS_Subset DEF FiniteSubsetsOf
<1>3. PICK T \in Bad : \A U \in Bad : <<U, T>> \notin StrictSubsetOrdering(S)
  BY <1>2, FS_StrictSubsetOrderingWellFounded, WFMin
<1>4. PICK x \in T : TRUE
  BY <1>3
<1>5. T \ {x} \in F
  <2>1. T \ {x} \in SUBSET S /\ <<T \ {x}, T>> \in StrictSubsetOrdering(S)
    BY <1>3, <1>4 DEF StrictSubsetOrdering
  <2> QED
    BY <2>1, <1>3
<1>6. (T \ {x}) \cup {x} \in F
  BY <1>3, <1>4, <1>5
<1> QED
  BY <1>3, <1>4, <1>6

LEMMA Greatest ==
  ASSUME NEW S, IsFiniteSet(S), S # {}, NEW key, \A x \in S : key[x] \in Nat
  PROVE  \E x \in S : \A y \in S : key[y] <= key[x]
<1> DEFINE F == {T \in SUBSET S : T = {} \/ \E x \in T : \A y \in T : key[y] <= key[x]}
<1>1. {} \in F
  OBVIOUS
<1>2. ASSUME NEW T \in SUBSET S, NEW x \in S \ T, T \in F
      PROVE  T \cup {x} \in F
  <2>1. CASE T = {}
    BY <2>1
  <2>2. CASE T # {}
    <3>1. PICK z \in T : \A y \in T : key[y] <= key[z]
      BY <1>2, <2>2
    <3>2. CASE key[x] <= key[z]
      <4>1. z \in T \cup {x} /\ \A y \in T \cup {x} : key[y] <= key[z]
        BY <3>1, <3>2
      <4> QED  BY <4>1
    <3>3. CASE ~(key[x] <= key[z])
      <4>1. key[x] \in Nat /\ key[z] \in Nat /\ key[z] <= key[x]
        BY <3>1, <3>3
      <4>2. \A y \in T \cup {x} : key[y] <= key[x]
        BY <3>1, <4>1
      <4> QED  BY <4>2
    <3> QED  BY <3>2, <3>3
  <2> QED  BY <2>1, <2>2
<1> HIDE DEF F
<1>3. S \in F
  BY <1>1, <1>2, FiniteGrowth
<1> QED
  BY <1>3 DEF F

(* InOrder enumerates a finite set whose members have keys of their own.      *)
Enumerates(q, S, key) ==
  /\ q \in [1..Cardinality(S) -> S]
  /\ \A i, j \in 1..Cardinality(S) : i < j => key[q[i]] < key[q[j]]

LEMMA EnumerationExists ==
  ASSUME NEW S, IsFiniteSet(S), NEW key, \A x \in S : key[x] \in Nat,
         \A x, y \in S : key[x] = key[y] => x = y
  PROVE  \E q : Enumerates(q, S, key)
<1> DEFINE Good(T) == \E q : Enumerates(q, T, key)
           n == Cardinality(S)
           F == {T \in SUBSET S : Good(T)}
<1> SUFFICES ASSUME S \notin F PROVE FALSE
  OBVIOUS
<1> DEFINE Bad == {T \in SUBSET S : T \notin F}
<1>2. Bad \subseteq FiniteSubsetsOf(S) /\ Bad # {}
  BY FS_Subset DEF FiniteSubsetsOf
<1>3. PICK T \in Bad : \A U \in Bad : <<U, T>> \notin StrictSubsetOrdering(S)
  BY <1>2, FS_StrictSubsetOrderingWellFounded, WFMin
<1>4. IsFiniteSet(T) /\ T \subseteq S /\ ~Good(T)
  BY <1>3, FS_Subset
<1>5. T # {}
  <2> SUFFICES ASSUME T = {} PROVE FALSE
    OBVIOUS
  <2>1. Cardinality(T) = 0
    BY FS_EmptySet
  <2>2. Enumerates([i \in 1..0 |-> 0], T, key)
    BY <2>1 DEF Enumerates
  <2> QED
    BY <2>2, <1>4
<1>6. PICK x \in T : \A y \in T : key[y] <= key[x]
  BY <1>4, <1>5, Greatest
<1> DEFINE U == T \ {x}
           k == Cardinality(U)
<1>7. IsFiniteSet(U) /\ k \in Nat /\ Cardinality(T) = k + 1
  <2>1. IsFiniteSet(U) /\ k = Cardinality(T) - 1
    BY <1>4, <1>6, FS_RemoveElement
  <2>2. k \in Nat /\ Cardinality(T) \in Nat
    BY <2>1, <1>4, FS_CardinalityType
  <2> QED
    BY <2>1, <2>2
<1>8. Good(U)
  <2>1. U \in SUBSET S /\ <<U, T>> \in StrictSubsetOrdering(S)
    BY <1>4, <1>6 DEF StrictSubsetOrdering
  <2> QED
    BY <2>1, <1>3
<1>9. PICK q : Enumerates(q, U, key)
  BY <1>8
<1> DEFINE p == [i \in 1..(k + 1) |-> IF i = k + 1 THEN x ELSE q[i]]
<1>13. q \in [1..k -> U] /\ U \subseteq T
  BY <1>9 DEF Enumerates
<1> HIDE DEF U, k
<1>10. p \in [1..(k + 1) -> T]
  <2> SUFFICES ASSUME NEW i \in 1..(k + 1) PROVE p[i] \in T
    OBVIOUS
  <2>1. CASE i = k + 1
    BY <2>1, <1>6
  <2>2. CASE i # k + 1
    <3>1. i \in 1..k
      BY <2>2, <1>7
    <3> QED
      BY <2>2, <3>1, <1>13
  <2> QED
    BY <2>1, <2>2
<1>11. ASSUME NEW i \in 1..(k + 1), NEW j \in 1..(k + 1), i < j
       PROVE  key[p[i]] < key[p[j]]
  <2>1. i \in 1..k /\ p[i] = q[i] /\ q[i] \in U
    BY <1>7, <1>11, <1>13
  <2>2. CASE j = k + 1
    <3>1. p[j] = x
      BY <2>2
    <3>2. key[q[i]] \in Nat /\ key[x] \in Nat /\ key[q[i]] <= key[x] /\ key[q[i]] # key[x]
      BY <2>1, <1>4, <1>6, <1>13 DEF U
    <3> QED
      BY <2>1, <3>1, <3>2
  <2>3. CASE j # k + 1
    <3>1. j \in 1..k /\ p[j] = q[j]
      BY <2>3, <1>7
    <3> QED
      BY <2>1, <3>1, <1>9, <1>11 DEF Enumerates, k
  <2> QED
    BY <2>2, <2>3
<1>12. Enumerates(p, T, key)
  BY <1>7, <1>10, <1>11 DEF Enumerates
<1> QED
  BY <1>12, <1>4

LEMMA InOrderIs ==
  ASSUME NEW S, IsFiniteSet(S), NEW key, \A x \in S : key[x] \in Nat,
         \A x, y \in S : key[x] = key[y] => x = y
  PROVE  /\ InOrder(S, key) \in Seq(S)
         /\ Len(InOrder(S, key)) = Cardinality(S)
         /\ Enumerates(InOrder(S, key), S, key)
         /\ \A x \in S : \E i \in 1..Len(InOrder(S, key)) : InOrder(S, key)[i] = x
<1> DEFINE q == InOrder(S, key)
           n == Cardinality(S)
<1>1. Enumerates(q, S, key)
  BY EnumerationExists DEF Enumerates, InOrder
<1> HIDE DEF q
<1>2. n \in Nat /\ IsFiniteSet(1..n) /\ Cardinality(1..n) = n
  BY FS_CardinalityType, FS_Interval
<1>3. q \in Seq(S) /\ Len(q) = n
  BY <1>1, <1>2 DEF Enumerates
<1>4. q \in Injection(1..n, S)
  <2>1. ASSUME NEW i \in 1..n, NEW j \in 1..n, i # j PROVE q[i] # q[j]
    <3>1. key[q[i]] \in Nat /\ key[q[j]] \in Nat /\ i \in Nat /\ j \in Nat
      BY <1>1, <1>2, <2>1 DEF Enumerates
    <3>2. CASE i < j
      BY <3>1, <3>2, <1>1 DEF Enumerates
    <3>3. CASE j < i
      BY <3>1, <3>3, <1>1 DEF Enumerates
    <3> QED
      BY <2>1, <3>1, <3>2, <3>3
  <2>2. q \in [1..n -> S]
    BY <1>1 DEF Enumerates
  <2> QED
    BY <2>1, <2>2 DEF Injection, IsInjective
<1>5. q \in Surjection(1..n, S)
  BY <1>2, <1>4, FS_Injection
<1> QED
  BY <1>1, <1>3, <1>5 DEF Surjection, q
-----------------------------------------------------------------------------
(* Ranks: how many frames of some kinds stand at or before a position.       *)
Hits(s, K, i) == {j \in 1..i : s[j].kind \in K}

LEMMA RankNat ==
  ASSUME NEW s, NEW K, NEW i \in Nat
  PROVE  /\ Rank(s, K, i) \in 0..i
         /\ Rank(s, K, i) = Cardinality(Hits(s, K, i))
         /\ IsFiniteSet(Hits(s, K, i))
<1>1. Hits(s, K, i) \in SUBSET (1..i)
  BY DEF Hits
<1>2. IsFiniteSet(1..i) /\ Cardinality(1..i) = i
  BY FS_Interval
<1>3. IsFiniteSet(Hits(s, K, i)) /\ Cardinality(Hits(s, K, i)) <= i
  BY <1>1, <1>2, FS_Subset
<1>4. Cardinality(Hits(s, K, i)) \in Nat
  BY <1>3, FS_CardinalityType
<1> QED
  BY <1>3, <1>4 DEF Rank, Hits

LEMMA RankZero ==
  ASSUME NEW s, NEW K
  PROVE  Rank(s, K, 0) = 0
BY RankNat

LEMMA RankStep ==
  ASSUME NEW s, NEW K, NEW i \in Nat
  PROVE  Rank(s, K, i + 1) = Rank(s, K, i) + (IF s[i + 1].kind \in K THEN 1 ELSE 0)
<1>1. IsFiniteSet(Hits(s, K, i)) /\ i + 1 \notin Hits(s, K, i)
  <2>1. i + 1 \notin Hits(s, K, i)
    BY DEF Hits
  <2> QED
    BY <2>1, RankNat
<1>2. CASE s[i + 1].kind \in K
  <2>1. Hits(s, K, i + 1) = Hits(s, K, i) \cup {i + 1}
    BY <1>2 DEF Hits
  <2>2. Cardinality(Hits(s, K, i + 1)) = Cardinality(Hits(s, K, i)) + 1
    BY <1>1, <2>1, FS_AddElement
  <2> QED
    BY <1>2, <2>2, RankNat
<1>3. CASE s[i + 1].kind \notin K
  <2>1. Hits(s, K, i + 1) = Hits(s, K, i)
    BY <1>3 DEF Hits
  <2> QED
    BY <1>3, <2>1, RankNat
<1> QED
  BY <1>2, <1>3

LEMMA RankEq ==
  ASSUME NEW s, NEW t, NEW K, NEW i \in Nat,
         \A j \in 1..i : s[j].kind \in K <=> t[j].kind \in K
  PROVE  Rank(s, K, i) = Rank(t, K, i)
BY DEF Rank

LEMMA RankLess ==
  ASSUME NEW s, NEW K, NEW i \in Nat, NEW j \in Nat, i <= j
  PROVE  /\ Rank(s, K, i) <= Rank(s, K, j)
         /\ i < j /\ s[j].kind \in K => Rank(s, K, i) < Rank(s, K, j)
<1>1. Hits(s, K, i) \in SUBSET Hits(s, K, j) /\ IsFiniteSet(Hits(s, K, j))
  <2>1. Hits(s, K, i) \in SUBSET Hits(s, K, j)
    BY DEF Hits
  <2> QED
    BY <2>1, RankNat
<1>2. Cardinality(Hits(s, K, i)) <= Cardinality(Hits(s, K, j))
  BY <1>1, FS_Subset
<1>3. ASSUME i < j, s[j].kind \in K, Rank(s, K, i) = Rank(s, K, j) PROVE FALSE
  <2>1. Hits(s, K, i) = Hits(s, K, j)
    BY <1>1, <1>3, RankNat, FS_Subset
  <2>2. j \in Hits(s, K, j) /\ j \notin Hits(s, K, i)
    BY <1>3 DEF Hits
  <2> QED
    BY <2>1, <2>2
<1>4. Rank(s, K, i) <= Rank(s, K, j) /\ Rank(s, K, i) \in Nat /\ Rank(s, K, j) \in Nat
  BY <1>2, RankNat
<1> QED
  BY <1>3, <1>4

(* The frame of rank 1 or more is within the rank of the whole.               *)
LEMMA RankIn ==
  ASSUME NEW s, NEW K, NEW n \in Nat, NEW i \in 1..n, s[i].kind \in K
  PROVE  Rank(s, K, i) \in 1..Rank(s, K, n)
<1>1. Rank(s, K, 0) = 0 /\ Rank(s, K, 0) < Rank(s, K, i)
  BY RankZero, RankLess
<1>2. Rank(s, K, i) <= Rank(s, K, n)
  BY RankLess
<1>3. Rank(s, K, i) \in Nat /\ Rank(s, K, n) \in Nat
  BY RankNat
<1> QED
  BY <1>1, <1>2, <1>3

(* The frames past position n of s are those of t.                            *)
Continues(s, t, n, i) == \A j \in 1..i : s[n + j] = t[j]

LEMMA RankShift ==
  ASSUME NEW s, NEW t, NEW K, NEW n \in Nat, NEW i \in Nat, Continues(s, t, n, i)
  PROVE  Rank(s, K, n + i) = Rank(s, K, n) + Rank(t, K, i)
<1> DEFINE A == Hits(s, K, n)
           B == Hits(t, K, i)
           C == {j \in (n + 1)..(n + i) : s[j].kind \in K}
           f == [j \in B |-> n + j]
<1>1. Hits(s, K, n + i) = A \cup C /\ A \cap C = {}
  BY DEF Hits
<1>2. IsFiniteSet(A) /\ IsFiniteSet(B)
  BY RankNat
<1>3. f \in Bijection(B, C)
  <2>1. \A j \in B : n + j \in C
    BY DEF Hits, Continues
  <2>2. \A k \in C : k - n \in B /\ n + (k - n) = k
    <3> TAKE k \in C
    <3>1. k - n \in 1..i /\ n + (k - n) = k
      OBVIOUS
    <3>2. s[k] = t[k - n]
      BY <3>1 DEF Continues
    <3> QED
      BY <3>1, <3>2 DEF Hits
  <2>3. f \in [B -> C]
    BY <2>1
  <2>4. \A j, k \in B : f[j] = f[k] => j = k
    BY DEF Hits
  <2>5. \A k \in C : \E j \in B : f[j] = k
    BY <2>2
  <2> HIDE DEF f
  <2> QED
    BY <2>3, <2>4, <2>5 DEF Bijection, Injection, Surjection, IsInjective
<1>4. ExistsBijection(B, C)
  BY <1>3 DEF ExistsBijection
<1>5. IsFiniteSet(C) /\ Cardinality(C) = Cardinality(B)
  BY <1>2, <1>4, FS_Bijection
<1>6. Cardinality(A \cap C) = 0
  BY <1>1, FS_EmptySet
<1>7. Cardinality(A \cup C) = Cardinality(A) + Cardinality(C) - Cardinality(A \cap C)
  BY <1>2, <1>5, FS_Union
<1>8. Cardinality(A) \in Nat /\ Cardinality(B) \in Nat
  BY <1>2, FS_CardinalityType
<1>9. /\ Rank(s, K, n + i) = Cardinality(A \cup C)
      /\ Rank(s, K, n) = Cardinality(A) /\ Rank(t, K, i) = Cardinality(B)
  <2>1. n + i \in Nat
    OBVIOUS
  <2>2. Rank(s, K, n + i) = Cardinality(Hits(s, K, n + i))
    BY <2>1, RankNat
  <2>3. Rank(s, K, n) = Cardinality(A) /\ Rank(t, K, i) = Cardinality(B)
    BY RankNat
  <2> HIDE DEF A, B, C
  <2> QED
    BY <1>1, <2>2, <2>3
<1> HIDE DEF A, B, C
<1> QED
  BY <1>5, <1>6, <1>7, <1>8, <1>9

LEMMA CountIs ==
  ASSUME NEW s, NEW K
  PROVE  Count(s, K) = Rank(s, K, Len(s))
BY DEF Count, Rank

(* Frames appended leave the ranks of the others alone. *)
LEMMA RankAppend ==
  ASSUME NEW F, NEW s \in Seq(F), NEW t \in Seq(F), NEW K
  PROVE  /\ \A i \in 0..Len(s) : Rank(s \o t, K, i) = Rank(s, K, i)
         /\ \A i \in 0..Len(t) : Rank(s \o t, K, Len(s) + i) = Count(s, K) + Rank(t, K, i)
         /\ Count(s \o t, K) = Count(s, K) + Count(t, K)
         /\ Count(s, K) \in Nat /\ Count(t, K) \in Nat
<1>1. Len(s) \in Nat /\ Len(t) \in Nat /\ Len(s \o t) = Len(s) + Len(t)
  OBVIOUS
<1>2. \A i \in 0..Len(s) : Rank(s \o t, K, i) = Rank(s, K, i)
  <2> TAKE i \in 0..Len(s)
  <2>1. i \in Nat /\ \A j \in 1..i : (s \o t)[j] = s[j]
    OBVIOUS
  <2> QED
    BY <2>1, RankEq
<1>3. \A i \in 0..Len(t) : Rank(s \o t, K, Len(s) + i) = Rank(s, K, Len(s)) + Rank(t, K, i)
  <2> TAKE i \in 0..Len(t)
  <2>1. i \in Nat /\ Continues(s \o t, t, Len(s), i)
    BY DEF Continues
  <2>2. Rank(s \o t, K, Len(s) + i) = Rank(s \o t, K, Len(s)) + Rank(t, K, i)
    BY <1>1, <2>1, RankShift
  <2> QED
    BY <1>1, <1>2, <2>2
<1>4. Rank(s \o t, K, Len(s) + Len(t)) = Rank(s, K, Len(s)) + Rank(t, K, Len(t))
  BY <1>1, <1>3
<1>5. Count(s, K) \in Nat /\ Count(t, K) \in Nat
  BY <1>1, RankNat, CountIs
<1> QED
  BY <1>1, <1>2, <1>3, <1>4, <1>5, CountIs

(* Taking the first frame away shifts the ranks by it. *)
LEMMA RankTail ==
  ASSUME NEW F, NEW s \in Seq(F), s # <<>>, NEW K
  PROVE  LET d == IF Head(s).kind \in K THEN 1 ELSE 0
         IN  /\ \A i \in 0..Len(Tail(s)) : Rank(s, K, i + 1) = d + Rank(Tail(s), K, i)
             /\ Count(s, K) = d + Count(Tail(s), K)
             /\ Count(Tail(s), K) \in Nat
<1> DEFINE d == IF Head(s).kind \in K THEN 1 ELSE 0
<1>1. Len(s) \in Nat /\ Len(Tail(s)) \in Nat /\ Len(s) = Len(Tail(s)) + 1 /\ Head(s) = s[1]
  OBVIOUS
<1>2. Rank(s, K, 1) = d
  <2>1. Rank(s, K, 0 + 1) = Rank(s, K, 0) + (IF s[0 + 1].kind \in K THEN 1 ELSE 0)
    BY RankStep
  <2> QED
    BY <1>1, <2>1, RankZero
<1>3. \A i \in 0..Len(Tail(s)) : Rank(s, K, i + 1) = d + Rank(Tail(s), K, i)
  <2> TAKE i \in 0..Len(Tail(s))
  <2>1. i \in Nat /\ Continues(s, Tail(s), 1, i)
    BY DEF Continues
  <2>2. Rank(s, K, 1 + i) = Rank(s, K, 1) + Rank(Tail(s), K, i)
    BY <2>1, RankShift
  <2> HIDE DEF d
  <2> QED
    BY <1>2, <2>2
<1>4. Rank(s, K, Len(s)) = d + Rank(Tail(s), K, Len(Tail(s)))
  BY <1>1, <1>3
<1>5. Count(Tail(s), K) \in Nat
  BY <1>1, RankNat, CountIs
<1> HIDE DEF d
<1>6. Count(s, K) = d + Count(Tail(s), K)
  BY <1>4, CountIs
<1> QED
  BY <1>3, <1>5, <1>6 DEF d

LEMMA CountNone ==
  ASSUME NEW F, NEW t \in Seq(F), NEW K, \A i \in 1..Len(t) : t[i].kind \notin K
  PROVE  Count(t, K) = 0 /\ \A i \in 0..Len(t) : Rank(t, K, i) = 0
<1>1. \A i \in 0..Len(t) : Rank(t, K, i) = 0
  <2> TAKE i \in 0..Len(t)
  <2>1. Hits(t, K, i) = {}
    BY DEF Hits
  <2>2. Cardinality({}) = 0
    BY FS_EmptySet
  <2>3. i \in Nat /\ Rank(t, K, i) = Cardinality(Hits(t, K, i))
    BY RankNat
  <2> QED
    BY <2>1, <2>2, <2>3
<1> QED
  BY <1>1, CountIs

LEMMA CountAll ==
  ASSUME NEW F, NEW t \in Seq(F), NEW K, \A i \in 1..Len(t) : t[i].kind \in K
  PROVE  Count(t, K) = Len(t) /\ \A i \in 0..Len(t) : Rank(t, K, i) = i
<1>1. \A i \in 0..Len(t) : Rank(t, K, i) = i
  <2> TAKE i \in 0..Len(t)
  <2>1. Hits(t, K, i) = 1..i
    BY DEF Hits
  <2>2. Cardinality(1..i) = i
    BY FS_Interval
  <2>3. i \in Nat /\ Rank(t, K, i) = Cardinality(Hits(t, K, i))
    BY RankNat
  <2> QED
    BY <2>1, <2>2, <2>3
<1> QED
  BY <1>1, CountIs
-----------------------------------------------------------------------------
(* The operations of the runtime.                                            *)

LEMMA SubsIn ==
  ASSUME NEW S, S \subseteq Nat, NEW f, f = [c \in S |-> f[c]], \A c \in S : f[c] \in Sub
  PROVE  f \in SubsOf /\ DOMAIN f = S
<1>1. f \in [S -> Sub]
  OBVIOUS
<1>2. S \in SUBSET Nat /\ DOMAIN f = S
  OBVIOUS
<1> QED
  BY <1>1, <1>2 DEF SubsOf

LEMMA SubsAre ==
  ASSUME NEW f \in SubsOf
  PROVE  /\ DOMAIN f \subseteq Nat /\ f = [c \in DOMAIN f |-> f[c]]
         /\ \A c \in DOMAIN f : f[c] \in Sub
BY DEF SubsOf

(* A step may steer the size: command another, under a new revision.         *)
Steers(r, q) ==
  /\ q.screen = r.screen /\ q.inbox = r.inbox /\ q.offset = r.offset /\ q.life = r.life
  /\ q.rev >= r.rev
  /\ IF q.rev = r.rev THEN q.commanded = r.commanded ELSE q.commanded \in Sizes

LEMMA CommandedIs ==
  ASSUME NEW r, Sound(r), NEW size \in Sizes
  PROVE  LET q == Commanded(r, size)
         IN  /\ Sound(q) /\ Steers(r, q) /\ q.commanded = size
             /\ q.subs = r.subs /\ q.next = r.next /\ q.owner = r.owner
<1>1. r \in Runtime
  BY DEF Sound
<1>2. CASE r.commanded = size
  BY <1>1, <1>2 DEF Commanded, Steers, Runtime, Sound
<1>3. CASE r.commanded # size
  <2> DEFINE q == [r EXCEPT !.commanded = size, !.rev = @ + 1]
  <2>1. Commanded(r, size) = q
    BY <1>3 DEF Commanded
  <2>4. r.rev + 1 \in Nat /\ size \in Sizes \cup {None}
    BY <1>1 DEF Runtime
  <2>5. q = [r EXCEPT !.commanded = size, !.rev = r.rev + 1]
    BY <1>1 DEF Runtime
  <2>2. q \in Runtime /\ q.subs = r.subs /\ q.next = r.next /\ q.owner = r.owner /\ q.commanded = size
    BY <1>1, <2>4, <2>5 DEF Runtime
  <2>3. Steers(r, q)
    BY <1>1 DEF Runtime, Steers
  <2> HIDE DEF q
  <2> QED
    BY <2>1, <2>2, <2>3 DEF Sound
<1> QED
  BY <1>2, <1>3

LEMMA ChannelsFinite ==
  ASSUME NEW r, Sound(r), NEW S, S \subseteq DOMAIN r.subs
  PROVE  IsFiniteSet(S)
<1> DEFINE n == r.next - 1
<1>1. n \in Int /\ S \in SUBSET (1..n)
  BY DEF Sound, Runtime
<1> HIDE DEF n
<1>2. IsFiniteSet(1..n)
  BY <1>1, FS_Interval
<1> QED
  BY <1>1, <1>2, FS_Subset

LEMMA LeastChannel ==
  ASSUME NEW r, Sound(r), DOMAIN r.subs # {}
  PROVE  \E c \in DOMAIN r.subs : \A d \in DOMAIN r.subs : c <= d
<1> DEFINE S == DOMAIN r.subs
           key == [c \in S |-> r.next - c]
<1>1. S \subseteq 1..(r.next - 1) /\ r.next \in Nat
  BY DEF Sound, Runtime
<1>2. IsFiniteSet(S)
  BY ChannelsFinite
<1>3. \A c \in S : key[c] \in Nat
  BY <1>1
<1>4. PICK c \in S : \A d \in S : key[d] <= key[c]
  BY <1>2, <1>3, Greatest
<1>5. \A d \in S : c <= d
  <2> TAKE d \in S
  <2>1. c \in 1..(r.next - 1) /\ d \in 1..(r.next - 1) /\ r.next \in Nat
    BY <1>1
  <2>2. key[d] <= key[c] /\ key[d] = r.next - d /\ key[c] = r.next - c
    BY <1>4
  <2> HIDE DEF S, key
  <2> QED
    BY <2>1, <2>2
<1> QED
  BY <1>5

LEMMA ElectedIs ==
  ASSUME NEW r, Sound(r)
  PROVE  LET q == Elected(r)
         IN  Sound(q) /\ Steers(r, q) /\ Owns(q) /\ q.subs = r.subs /\ q.next = r.next
<1>1. r \in Runtime
  BY DEF Sound
<1>2. CASE DOMAIN r.subs = {}
  <2> DEFINE q == [r EXCEPT !.owner = None]
  <2>1. Elected(r) = q
    BY <1>2 DEF Elected
  <2>2. q \in Runtime /\ q.subs = r.subs /\ q.next = r.next /\ q.owner = None /\ Steers(r, q)
    BY <1>1 DEF Runtime, Steers, None
  <2> HIDE DEF q
  <2> QED
    BY <1>2, <2>1, <2>2 DEF Sound, Owns
<1>3. CASE DOMAIN r.subs # {}
  <2> DEFINE first == CHOOSE c \in DOMAIN r.subs : \A d \in DOMAIN r.subs : c <= d
             e == [r EXCEPT !.owner = first]
             size == r.subs[first].size
  <2>1. first \in DOMAIN r.subs /\ \A d \in DOMAIN r.subs : first <= d
    BY <1>3, LeastChannel
  <2>2. Elected(r) = Commanded(e, size)
    BY <1>3 DEF Elected
  <2> HIDE DEF first
  <2>3. first \in Nat /\ size \in Sizes
    BY <1>1, <2>1, SubsAre DEF Runtime, Sub
  <2>4. e \in Runtime /\ e.subs = r.subs /\ e.next = r.next /\ e.owner = first /\ Steers(r, e)
    BY <1>1, <2>3 DEF Runtime, Steers
  <2>5. Sound(e)
    BY <2>4 DEF Sound
  <2> HIDE DEF e, size
  <2>6. LET q == Commanded(e, size)
        IN  /\ Sound(q) /\ Steers(e, q) /\ q.commanded = size
            /\ q.subs = e.subs /\ q.next = e.next /\ q.owner = e.owner
    BY <2>3, <2>5, CommandedIs
  <2>7. Steers(r, Commanded(e, size))
    BY <1>1, <2>4, <2>6, <2>5 DEF Steers, Sound, Runtime
  <2>8. Owns(Commanded(e, size))
    BY <1>3, <2>1, <2>4, <2>6 DEF Owns, size
  <2> QED
    BY <2>2, <2>4, <2>6, <2>7, <2>8
<1> QED
  BY <1>2, <1>3

LEMMA UnsubscribedIs ==
  ASSUME NEW r, Sound(r), Owns(r), NEW chans
  PROVE  LET q == Unsubscribed(r, chans)
         IN  /\ Sound(q) /\ Steers(r, q) /\ Owns(q) /\ q.next = r.next
             /\ DOMAIN q.subs = DOMAIN r.subs \ chans
             /\ \A c \in DOMAIN q.subs : q.subs[c] = r.subs[c]
<1> DEFINE S == DOMAIN r.subs \ chans
           rest == [r EXCEPT !.subs = [c \in S |-> r.subs[c]]]
<1>1. r \in Runtime /\ S \subseteq Nat /\ \A c \in S : r.subs[c] \in Sub
  BY SubsAre DEF Sound, Runtime
<1>2. [c \in S |-> r.subs[c]] \in SubsOf
  BY <1>1, SubsIn
<1> HIDE DEF S
<1>3. /\ rest \in Runtime /\ rest.subs = [c \in S |-> r.subs[c]] /\ rest.next = r.next
      /\ rest.owner = r.owner /\ rest.commanded = r.commanded /\ Steers(r, rest)
  <2>1. rest \in Runtime
    BY <1>1, <1>2 DEF Runtime
  <2>2. /\ rest.subs = [c \in S |-> r.subs[c]] /\ rest.next = r.next
        /\ rest.owner = r.owner /\ rest.commanded = r.commanded
    BY <1>1 DEF Runtime
  <2>3. Steers(r, rest)
    BY <1>1 DEF Runtime, Steers
  <2> QED
    BY <2>1, <2>2, <2>3
<1>4. Unsubscribed(r, chans) = IF r.owner \in chans THEN Elected(rest) ELSE rest
  BY DEF Unsubscribed, S
<1> HIDE DEF rest
<1>5. DOMAIN rest.subs = S /\ \A c \in S : rest.subs[c] = r.subs[c]
  BY <1>3
<1>6. Sound(rest)
  BY <1>3, <1>5 DEF Sound, S
<1>7. CASE r.owner \in chans
  <2>1. LET q == Elected(rest)
        IN  Sound(q) /\ Steers(rest, q) /\ Owns(q) /\ q.subs = rest.subs /\ q.next = rest.next
    BY <1>6, ElectedIs
  <2>2. Steers(r, Elected(rest))
    BY <1>1, <1>3, <2>1 DEF Steers, Runtime, Sound
  <2> QED
    BY <1>3, <1>4, <1>5, <1>7, <2>1, <2>2 DEF S
<1>8. CASE r.owner \notin chans
  <2>1. Owns(rest)
    <3>1. CASE DOMAIN r.subs = {}
      BY <3>1, <1>3, <1>5 DEF Owns, S
    <3>2. CASE DOMAIN r.subs # {}
      BY <3>2, <1>3, <1>5, <1>8 DEF Owns, S
    <3> QED
      BY <3>1, <3>2
  <2> QED
    BY <1>3, <1>4, <1>5, <1>6, <1>8, <2>1 DEF S
<1> QED
  BY <1>7, <1>8

LEMMA ReadyIs ==
  ASSUME NEW r, Sound(r)
  PROVE  LET q == Ready(r)
         IN  /\ Sound(q) /\ Steers(r, q) /\ q.next = r.next /\ q.owner = r.owner /\ q.rev = r.rev
             /\ q.commanded = r.commanded
             /\ DOMAIN q.subs = DOMAIN r.subs
             /\ \A c \in DOMAIN q.subs : q.subs[c] = [r.subs[c] EXCEPT !.ready = TRUE]
             /\ Owns(r) => Owns(q)
<1> DEFINE f == [c \in DOMAIN r.subs |-> [r.subs[c] EXCEPT !.ready = TRUE]]
           q == [r EXCEPT !.subs = f]
<1>1. r \in Runtime /\ DOMAIN r.subs \subseteq Nat /\ \A c \in DOMAIN r.subs : r.subs[c] \in Sub
  BY SubsAre DEF Sound, Runtime
<1>2. DOMAIN f = DOMAIN r.subs /\ \A c \in DOMAIN r.subs : f[c] = [r.subs[c] EXCEPT !.ready = TRUE]
  OBVIOUS
<1>3. \A c \in DOMAIN r.subs : f[c] \in Sub /\ f[c].size = r.subs[c].size
  BY <1>1 DEF Sub
<1>4. f \in SubsOf
  BY <1>1, <1>2, <1>3, SubsIn
<1>5. Ready(r) = q
  BY DEF Ready
<1> HIDE DEF f
<1>6. /\ q \in Runtime /\ q.subs = f /\ q.next = r.next /\ q.owner = r.owner /\ q.rev = r.rev
      /\ q.commanded = r.commanded /\ Steers(r, q)
  BY <1>1, <1>4 DEF Runtime, Steers
<1> HIDE DEF q
<1>7. Sound(q) /\ (Owns(r) => Owns(q))
  BY <1>2, <1>3, <1>6 DEF Sound, Owns
<1> QED
  BY <1>2, <1>5, <1>6, <1>7
LEMMA SeqIn ==
  ASSUME NEW S, NEW T, S \subseteq T, NEW q \in Seq(S)
  PROVE  q \in Seq(T) /\ Len(q) \in Nat /\ \A i \in 1..Len(q) : q[i] \in S
OBVIOUS

LEMMA JoinIs ==
  ASSUME NEW T, NEW s \in Seq(T), NEW t \in Seq(T)
  PROVE  /\ s \o t \in Seq(T) /\ Len(s \o t) = Len(s) + Len(t)
         /\ \A i \in 1..Len(s) : (s \o t)[i] = s[i]
         /\ \A i \in 1..Len(t) : (s \o t)[Len(s) + i] = t[i]
OBVIOUS

LEMMA TwoIs ==
  ASSUME NEW T, NEW t \in Seq(T), Len(t) = 2
  PROVE  t = <<t[1], t[2]>>
OBVIOUS

LEMMA OneAndOne ==
  ASSUME NEW T, NEW x \in T, NEW y \in T
  PROVE  <<x>> \o <<y>> = <<x, y>>
<1> DEFINE t == <<x>> \o <<y>>
<1>1. <<x>> \in Seq(T) /\ <<y>> \in Seq(T) /\ Len(<<x>>) = 1 /\ Len(<<y>>) = 1
  OBVIOUS
<1>2. t \in Seq(T) /\ Len(t) = 2 /\ t[1] = x /\ t[2] = y
  BY <1>1, JoinIs
<1> HIDE DEF t
<1>3. t = <<t[1], t[2]>>
  BY <1>2, TwoIs
<1> QED
  BY <1>2, <1>3 DEF t

LEMMA ReachedIs ==
  ASSUME NEW r, Sound(r), NEW chans, chans \subseteq DOMAIN r.subs
  PROVE  LET q == Reached(r, chans)
         IN  /\ q \in Seq(Nat) /\ Len(q) \in Nat
             /\ \A i \in 1..Len(q) : q[i] \in chans /\ Reaches(r.subs[q[i]].ws)
             /\ \A c \in chans : Reaches(r.subs[c].ws) => \E i \in 1..Len(q) : q[i] = c
<1> DEFINE S == {c \in chans : Reaches(r.subs[c].ws)}
           key == [c \in chans |-> c]
           q == InOrder(S, key)
<1>1. S \subseteq Nat
  BY DEF Sound, Runtime
<1>2. IsFiniteSet(S)
  BY ChannelsFinite
<1>3. \A x \in S : key[x] \in Nat /\ key[x] = x
  BY <1>1
<1>4. Reached(r, chans) = q
  BY DEF Reached
<1>5. S \subseteq chans /\ \A c \in chans : c \in S <=> Reaches(r.subs[c].ws)
  OBVIOUS
<1>6. S \subseteq Nat
  BY <1>1
<1> HIDE DEF S, key
<1>7. /\ q \in Seq(S) /\ Len(q) = Cardinality(S)
      /\ \A x \in S : \E i \in 1..Len(q) : q[i] = x
  BY <1>2, <1>3, InOrderIs
<1> HIDE DEF q
<1>8. q \in Seq(Nat) /\ Len(q) \in Nat /\ \A i \in 1..Len(q) : q[i] \in S
  BY <1>6, <1>7, SeqIn
<1> QED
  BY <1>4, <1>5, <1>7, <1>8

LEMMA BaselinesIs ==
  ASSUME NEW r, Sound(r)
  PROVE  LET b == Baselines(r)
         IN  /\ b \in Seq(SnapshotFrame) /\ Len(b) \in Nat
             /\ \A i \in 1..Len(b) : \E c \in Waiting(r) : b[i] = Snapshot(r, c) /\ Reaches(r.subs[c].ws)
             /\ \A c \in Waiting(r) : Reaches(r.subs[c].ws) => \E i \in 1..Len(b) : b[i] = Snapshot(r, c)
<1> DEFINE q == Reached(r, Waiting(r))
           b == [i \in 1..Len(q) |-> Snapshot(r, q[i])]
<1>1. /\ q \in Seq(Nat) /\ Len(q) \in Nat
      /\ \A i \in 1..Len(q) : q[i] \in Waiting(r) /\ Reaches(r.subs[q[i]].ws)
      /\ \A c \in Waiting(r) : Reaches(r.subs[c].ws) => \E i \in 1..Len(q) : q[i] = c
  <2>1. Waiting(r) \subseteq DOMAIN r.subs
    BY DEF Waiting
  <2> QED
    BY <2>1, ReachedIs
<1>2. Baselines(r) = b
  BY DEF Baselines
<1> HIDE DEF q
<1>3. \A i \in 1..Len(q) : Snapshot(r, q[i]) \in SnapshotFrame
  <2>1. \A i \in 1..Len(q) : q[i] \in Nat
    BY <1>1
  <2> QED
    BY <2>1 DEF Snapshot, SnapshotFrame, Sound, Runtime
<1>4. b \in Seq(SnapshotFrame) /\ Len(b) = Len(q) /\ \A i \in 1..Len(q) : b[i] = Snapshot(r, q[i])
  BY <1>1, <1>3
<1> HIDE DEF b
<1> QED
  BY <1>1, <1>2, <1>4

LEMMA FarewellsIs ==
  ASSUME NEW r, Sound(r)
  PROVE  LET f == Farewells(r)
         IN  /\ f \in Seq(DownFrame) /\ Len(f) \in Nat
             /\ \A i \in 1..Len(f) :
                   \/ \E c \in Waiting(r) : f[i] = Snapshot(r, c) /\ Reaches(r.subs[c].ws)
                   \/ \E c \in DOMAIN r.subs :
                         /\ f[i] = Exit(c) /\ Reaches(r.subs[c].ws)
                         /\ c \in Waiting(r) => \E j \in 1..Len(f) : j < i /\ f[j] = Snapshot(r, c)
                         /\ \A j \in 1..Len(f) : i < j => f[j].kind = "exit"
<1> DEFINE b == Baselines(r)
           q == Reached(r, DOMAIN r.subs)
           e == [i \in 1..Len(q) |-> Exit(q[i])]
           f == b \o e
<1>1. /\ b \in Seq(SnapshotFrame) /\ Len(b) \in Nat
      /\ \A i \in 1..Len(b) : \E c \in Waiting(r) : b[i] = Snapshot(r, c) /\ Reaches(r.subs[c].ws)
      /\ \A c \in Waiting(r) : Reaches(r.subs[c].ws) => \E i \in 1..Len(b) : b[i] = Snapshot(r, c)
  BY BaselinesIs
<1>2. /\ q \in Seq(Nat) /\ Len(q) \in Nat
      /\ \A i \in 1..Len(q) : q[i] \in DOMAIN r.subs /\ Reaches(r.subs[q[i]].ws)
  BY ReachedIs
<1>3. Farewells(r) = f
  BY DEF Farewells
<1> HIDE DEF b, q
<1>4. e \in Seq(ExitFrame) /\ Len(e) = Len(q) /\ \A i \in 1..Len(q) : e[i] = Exit(q[i])
  BY <1>2 DEF Exit, ExitFrame
<1> HIDE DEF e
<1>5. SnapshotFrame \subseteq DownFrame /\ ExitFrame \subseteq DownFrame
  BY DEF DownFrame
<1>6. /\ f \in Seq(DownFrame) /\ Len(f) = Len(b) + Len(q)
      /\ \A i \in 1..Len(b) : f[i] = b[i]
      /\ \A i \in 1..Len(q) : f[Len(b) + i] = Exit(q[i])
  <2>1. b \in Seq(DownFrame) /\ e \in Seq(DownFrame)
    BY <1>1, <1>4, <1>5, SeqIn
  <2>2. /\ f \in Seq(DownFrame) /\ Len(f) = Len(b) + Len(e)
        /\ \A i \in 1..Len(b) : f[i] = b[i]
        /\ \A i \in 1..Len(e) : f[Len(b) + i] = e[i]
    BY <2>1, JoinIs
  <2> HIDE DEF f
  <2> QED
    BY <2>2, <1>4
<1> HIDE DEF f
<1>7. ASSUME NEW i \in 1..Len(f)
      PROVE  \/ \E c \in Waiting(r) : f[i] = Snapshot(r, c) /\ Reaches(r.subs[c].ws)
             \/ \E c \in DOMAIN r.subs :
                   /\ f[i] = Exit(c) /\ Reaches(r.subs[c].ws)
                   /\ c \in Waiting(r) => \E j \in 1..Len(f) : j < i /\ f[j] = Snapshot(r, c)
                   /\ \A j \in 1..Len(f) : i < j => f[j].kind = "exit"
  <2>1. CASE i <= Len(b)
    BY <2>1, <1>1, <1>6
  <2>2. CASE ~(i <= Len(b))
    <3>1. PICK k \in 1..Len(q) : i = Len(b) + k
      <4>1. i - Len(b) \in 1..Len(q) /\ i = Len(b) + (i - Len(b))
        BY <2>2, <1>1, <1>2, <1>6
      <4> QED
        BY <4>1
    <3> DEFINE c == q[k]
    <3>2. c \in DOMAIN r.subs /\ f[i] = Exit(c) /\ Reaches(r.subs[c].ws)
      BY <3>1, <1>2, <1>6
    <3>3. c \in Waiting(r) => \E j \in 1..Len(f) : j < i /\ f[j] = Snapshot(r, c)
      <4> SUFFICES ASSUME c \in Waiting(r) PROVE \E j \in 1..Len(f) : j < i /\ f[j] = Snapshot(r, c)
        OBVIOUS
      <4>1. PICK j \in 1..Len(b) : b[j] = Snapshot(r, c)
        BY <3>2, <1>1
      <4>2. j \in 1..Len(f) /\ j < i /\ f[j] = b[j]
        BY <3>1, <1>1, <1>2, <1>6
      <4> QED
        BY <4>1, <4>2
    <3>4. ASSUME NEW j \in 1..Len(f), i < j PROVE f[j].kind = "exit"
      <4>1. j - Len(b) \in 1..Len(q) /\ j = Len(b) + (j - Len(b))
        BY <3>1, <3>4, <1>1, <1>2, <1>6
      <4>2. f[j] = Exit(q[j - Len(b)])
        BY <4>1, <1>6
      <4> QED
        BY <4>2 DEF Exit
    <3> HIDE DEF c
    <3> QED
      BY <3>2, <3>3, <3>4
  <2> QED
    BY <2>1, <2>2
<1> QED
  BY <1>1, <1>2, <1>3, <1>6, <1>7

(* A subscription adds one channel, with its baseline if the screen is drained. *)
LEMMA SubscribedIs ==
  ASSUME NEW w \in Nat, NEW f \in SubscribeFrame, Sound(runtime), Owns(runtime)
  PROVE  LET c == runtime.next
             q == Subscribed(w, f).r
             t == Subscribed(w, f).frames
         IN  /\ Sound(q) /\ Steers(runtime, q) /\ Owns(q) /\ q.next = c + 1
             /\ DOMAIN q.subs = Channels \cup {c} /\ c \notin Channels
             /\ \A d \in Channels : q.subs[d] = runtime.subs[d]
             /\ q.subs[c].surf = f.surf /\ q.subs[c].mount = f.mount /\ q.subs[c].ws = w
             /\ q.subs[c].size = f.size /\ (q.subs[c].ready <=> Drained(runtime))
             /\ t \in Seq(DownFrame)
             /\ IF Drained(runtime) THEN t = <<Ack(c), Snapshot(q, c)>> ELSE t = <<Ack(c)>>
<1> DEFINE c == runtime.next
           S == Channels \cup {c}
           g == [d \in S |-> IF d = c THEN Subscribing(w, f) ELSE runtime.subs[d]]
           in == [runtime EXCEPT !.next = c + 1, !.subs = g]
           own == [in EXCEPT !.owner = c]
           owned == IF in.owner = None THEN Commanded(own, f.size) ELSE in
           q == IF Drained(owned) THEN [owned EXCEPT !.subs[c].ready = TRUE] ELSE owned
           t == <<Ack(c)>> \o (IF Drained(owned) THEN <<Snapshot(owned, c)>> ELSE <<>>)
<1>1. /\ runtime \in Runtime /\ c \in Nat \ {0} /\ Channels \subseteq 1..(c - 1) /\ c \notin Channels
      /\ \A d \in Channels : runtime.subs[d] \in Sub
  BY SubsAre DEF Sound, Runtime, Channels
<1>2. Subscribing(w, f) \in Sub /\ f.size \in Sizes
  BY DEF Subscribing, Sub, SubscribeFrame
<1>3. S \subseteq 1..c /\ S \subseteq Nat
  <2> SUFFICES ASSUME NEW d \in S PROVE d \in 1..c /\ d \in Nat
    OBVIOUS
  <2>1. CASE d = c
    BY <2>1, <1>1
  <2>2. CASE d \in Channels
    <3>1. d \in 1..(c - 1) /\ c \in Nat
      BY <2>2, <1>1
    <3> HIDE DEF c
    <3> QED
      BY <3>1
  <2> QED
    BY <2>1, <2>2
<1>4. \A d \in S : g[d] \in Sub
  BY <1>1, <1>2
<1>5. g = [d \in S |-> g[d]] /\ DOMAIN g = S /\ g[c] = Subscribing(w, f) /\ \A d \in Channels : g[d] = runtime.subs[d]
  <2>1. g = [d \in S |-> g[d]] /\ DOMAIN g = S
    OBVIOUS
  <2>2. g[c] = Subscribing(w, f)
    OBVIOUS
  <2>3. \A d \in Channels : g[d] = runtime.subs[d]
    BY <1>1
  <2> QED
    BY <2>1, <2>2, <2>3
<1>10. Subscribed(w, f) = [r |-> q, frames |-> t]
  BY DEF Subscribed
<1> HIDE DEF g
<1>6. g \in SubsOf
  BY <1>3, <1>4, <1>5, SubsIn
<1>7. in \in Runtime /\ in.subs = g /\ in.next = c + 1 /\ in.owner = runtime.owner /\ in.commanded = runtime.commanded
  <2>1. c + 1 \in Nat
    BY <1>1
  <2>2. in \in Runtime
    BY <1>1, <1>6, <2>1 DEF Runtime
  <2>3. in.subs = g /\ in.next = c + 1 /\ in.owner = runtime.owner /\ in.commanded = runtime.commanded
    BY <1>1 DEF Runtime
  <2> QED
    BY <2>2, <2>3
<1>8. Steers(runtime, in)
  <2>1. /\ in.screen = runtime.screen /\ in.inbox = runtime.inbox /\ in.offset = runtime.offset
        /\ in.life = runtime.life /\ in.rev = runtime.rev
    BY <1>1 DEF Runtime
  <2>2. runtime.rev \in Nat
    BY <1>1 DEF Runtime
  <2> HIDE DEF in
  <2> QED
    BY <2>1, <2>2, <1>7 DEF Steers
<1>9. Sound(in)
  BY <1>1, <1>3, <1>5, <1>7 DEF Sound
<1> HIDE DEF in
<1>11. /\ Sound(owned) /\ Steers(runtime, owned) /\ Owns(owned) /\ owned.subs = g /\ owned.next = c + 1
  <2>1. CASE runtime.owner = None
    <3>1. Channels = {}
      BY <1>1, <2>1 DEF Owns, Channels, None
    <3>2. own \in Runtime /\ own.subs = g /\ own.next = c + 1 /\ own.owner = c
      BY <1>1, <1>7 DEF Runtime
    <3>3. Steers(runtime, own)
      BY <1>7, <1>8 DEF Steers, Runtime
    <3>4. Sound(own)
      BY <1>3, <1>5, <3>2, <1>1 DEF Sound
    <3> HIDE DEF own
    <3>5. LET o == Commanded(own, f.size)
          IN  /\ Sound(o) /\ Steers(own, o) /\ o.commanded = f.size
              /\ o.subs = own.subs /\ o.next = own.next /\ o.owner = own.owner
      BY <1>2, <3>4, CommandedIs
    <3>6. owned = Commanded(own, f.size)
      BY <2>1, <1>7
    <3>7. Steers(runtime, owned)
      BY <1>1, <3>3, <3>5, <3>6, <3>4 DEF Steers, Sound, Runtime
    <3>8. Owns(owned)
      <4>1. DOMAIN owned.subs = {c} /\ owned.owner = c /\ owned.subs[c].size = f.size
        BY <3>1, <3>2, <3>5, <3>6, <1>5 DEF Subscribing
      <4> QED
        BY <4>1, <3>5, <3>6, <1>1 DEF Owns
    <3> QED
      BY <3>2, <3>5, <3>6, <3>7, <3>8
  <2>2. CASE runtime.owner # None
    <3>1. owned = in
      BY <2>2, <1>7
    <3>2. Channels # {} /\ runtime.owner \in Channels /\ runtime.commanded = runtime.subs[runtime.owner].size
          /\ \A d \in Channels : runtime.owner <= d
      BY <2>2 DEF Owns, Channels
    <3>3. \A d \in S : runtime.owner <= d
      <4>1. runtime.owner \in 1..(c - 1)
        BY <1>1, <3>2
      <4>2. runtime.owner <= c
        BY <1>1, <4>1
      <4> QED
        BY <3>2, <4>2
    <3>4. Owns(in)
      BY <1>5, <1>7, <3>2, <3>3 DEF Owns
    <3> QED
      BY <3>1, <3>4, <1>7, <1>8, <1>9
  <2> QED
    BY <2>1, <2>2
<1> HIDE DEF owned
<1>12. owned.inbox = runtime.inbox /\ (Drained(owned) <=> Drained(runtime)) /\ Drained(runtime) \in BOOLEAN
  BY <1>11 DEF Steers, Drained
<1>13. CASE ~Drained(runtime)
  <2>1. q = owned /\ t = <<Ack(c)>>
    <3>1. ~Drained(owned)
      BY <1>12, <1>13
    <3>2. q = owned
      BY <3>1
    <3>3. t = <<Ack(c)>> \o <<>>
      BY <3>1
    <3> HIDE DEF t, q
    <3> QED
      BY <3>2, <3>3
  <2>2. Ack(c) \in DownFrame
    BY <1>1 DEF Ack, AckFrame, DownFrame
  <2>3. g[c].ready = FALSE /\ g[c].surf = f.surf /\ g[c].mount = f.mount /\ g[c].ws = w /\ g[c].size = f.size
    BY <1>5 DEF Subscribing
  <2> HIDE DEF q, t
  <2> QED
    BY <1>1, <1>5, <1>10, <1>11, <1>13, <2>1, <2>2, <2>3
<1>14. CASE Drained(runtime)
  <2> DEFINE h == [g EXCEPT ![c].ready = TRUE]
  <2>1. q = [owned EXCEPT !.subs = h] /\ t = <<Ack(c), Snapshot(owned, c)>>
    <3>1. Drained(owned) /\ owned.subs = g
      BY <1>11, <1>12, <1>14
    <3>2. q = [owned EXCEPT !.subs = h]
      BY <3>1
    <3>3. t = <<Ack(c)>> \o <<Snapshot(owned, c)>>
      BY <3>1
    <3>4. <<Ack(c)>> \o <<Snapshot(owned, c)>> = <<Ack(c), Snapshot(owned, c)>>
      <4>1. Ack(c) \in {Ack(c), Snapshot(owned, c)} /\ Snapshot(owned, c) \in {Ack(c), Snapshot(owned, c)}
        OBVIOUS
      <4> QED
        BY <4>1, OneAndOne
    <3> HIDE DEF t, q, h
    <3> QED
      BY <3>2, <3>3, <3>4
  <2>2. DOMAIN h = S /\ (\A d \in S : h[d] \in Sub) /\ h = [d \in S |-> h[d]]
        /\ (\A d \in Channels : h[d] = g[d]) /\ h[c] = [g[c] EXCEPT !.ready = TRUE]
    BY <1>1, <1>4, <1>5 DEF Sub
  <2> HIDE DEF h
  <2>3. h \in SubsOf
    BY <1>3, <2>2, SubsIn
  <2>4. owned \in Runtime
    BY <1>11 DEF Sound
  <2>5. q \in Runtime /\ q.subs = h /\ q.next = c + 1 /\ q.owner = owned.owner /\ q.commanded = owned.commanded
    BY <1>11, <2>1, <2>3, <2>4 DEF Runtime
  <2>6. Steers(runtime, q) /\ q.rev = owned.rev /\ q.offset = owned.offset /\ q.screen = owned.screen
    BY <1>11, <2>1, <2>3, <2>4 DEF Runtime, Steers
  <2>7. \A d \in S : h[d].size = g[d].size
    BY <2>2, <1>4, <1>5 DEF Sub
  <2>8. /\ h[c].ready = TRUE /\ h[c].surf = f.surf /\ h[c].mount = f.mount
        /\ h[c].ws = w /\ h[c].size = f.size
    BY <2>2, <1>5 DEF Subscribing
  <2>9. Snapshot(q, c) = Snapshot(owned, c)
    BY <2>6 DEF Snapshot
  <2>10. Ack(c) \in DownFrame /\ Snapshot(owned, c) \in DownFrame
    BY <1>1, <2>4 DEF Ack, AckFrame, DownFrame, Snapshot, SnapshotFrame, Runtime
  <2> HIDE DEF q
  <2>11. Owns(q)
    BY <1>11, <1>5, <2>2, <2>5, <2>7 DEF Owns
  <2>12. Sound(q)
    BY <1>3, <1>1, <2>2, <2>5 DEF Sound
  <2>13. t \in Seq(DownFrame)
    BY <2>1, <2>10
  <2>14. DOMAIN q.subs = S /\ c \notin Channels /\ \A d \in Channels : q.subs[d] = runtime.subs[d]
    BY <1>1, <1>5, <2>2, <2>5
  <2>15. t = <<Ack(c), Snapshot(q, c)>>
    BY <2>1, <2>9
  <2>16. Subscribed(w, f).r = q /\ Subscribed(w, f).frames = t
    BY <1>10
  <2> HIDE DEF t
  <2> QED
    BY <1>14, <2>5, <2>6, <2>8, <2>11, <2>12, <2>13, <2>14, <2>15, <2>16
<1> QED
  BY <1>13, <1>14

LEMMA ResizedIs ==
  ASSUME NEW f \in ResizeFrame, Sound(runtime), Owns(runtime), f.chan \in Channels
  PROVE  LET q == Resized(f)
         IN  /\ Sound(q) /\ Steers(runtime, q) /\ Owns(q) /\ q.next = runtime.next
             /\ DOMAIN q.subs = Channels
             /\ \A d \in Channels : q.subs[d] = IF d = f.chan THEN [runtime.subs[d] EXCEPT !.size = f.size]
                                                ELSE runtime.subs[d]
<1> DEFINE c == f.chan
           g == [runtime.subs EXCEPT ![c].size = f.size]
           r == [runtime EXCEPT !.subs = g]
<1>1. /\ runtime \in Runtime /\ Channels \subseteq Nat /\ f.size \in Sizes /\ c \in Channels
      /\ runtime.subs = [d \in Channels |-> runtime.subs[d]]
      /\ \A d \in Channels : runtime.subs[d] \in Sub
  BY SubsAre DEF Sound, Runtime, Channels, ResizeFrame
<1>2. /\ DOMAIN g = Channels /\ g = [d \in Channels |-> g[d]]
      /\ \A d \in Channels : g[d] = IF d = c THEN [runtime.subs[d] EXCEPT !.size = f.size] ELSE runtime.subs[d]
  BY <1>1
<1> HIDE DEF g
<1>3. \A d \in Channels : g[d] \in Sub
  <2> TAKE d \in Channels
  <2>1. CASE d = c
    <3>1. g[d] = [runtime.subs[d] EXCEPT !.size = f.size] /\ runtime.subs[d] \in Sub
      BY <1>1, <1>2, <2>1
    <3> QED
      BY <3>1, <1>1 DEF Sub
  <2>2. CASE d # c
    BY <1>1, <1>2, <2>2
  <2> QED
    BY <2>1, <2>2
<1>4. g \in SubsOf
  BY <1>1, <1>2, <1>3, SubsIn
<1>5. g[c].size = f.size /\ \A d \in Channels : d # c => g[d].size = runtime.subs[d].size
  BY <1>1, <1>2 DEF Sub
<1>6. Resized(f) = IF c = r.owner THEN Commanded(r, f.size) ELSE r
  BY <1>1 DEF Resized, Runtime, g
<1>7. r \in Runtime /\ r.subs = g /\ r.next = runtime.next /\ r.owner = runtime.owner /\ r.commanded = runtime.commanded
  BY <1>1, <1>4 DEF Runtime
<1>8. Steers(runtime, r)
  BY <1>1, <1>4 DEF Runtime, Steers
<1> HIDE DEF r
<1>9. Sound(r)
  BY <1>2, <1>7 DEF Sound, Channels
<1>10. runtime.owner \in Channels /\ runtime.commanded = runtime.subs[runtime.owner].size
       /\ \A d \in Channels : runtime.owner <= d
  BY <1>1 DEF Owns, Channels
<1>11. CASE c = runtime.owner
  <2>1. LET q == Commanded(r, f.size)
        IN  /\ Sound(q) /\ Steers(r, q) /\ q.commanded = f.size
            /\ q.subs = r.subs /\ q.next = r.next /\ q.owner = r.owner
    BY <1>1, <1>9, CommandedIs
  <2>2. Steers(runtime, Commanded(r, f.size))
    BY <1>1, <1>8, <1>7, <2>1 DEF Steers, Runtime, Sound
  <2>3. Owns(Commanded(r, f.size))
    BY <2>1, <1>2, <1>5, <1>7, <1>10, <1>11 DEF Owns
  <2> QED
    BY <1>2, <1>6, <1>7, <1>11, <2>1, <2>2, <2>3
<1>12. CASE c # runtime.owner
  <2>1. Owns(r)
    BY <1>2, <1>5, <1>7, <1>10, <1>12 DEF Owns
  <2> QED
    BY <1>2, <1>6, <1>7, <1>8, <1>9, <1>12, <2>1
<1> QED
  BY <1>11, <1>12
-----------------------------------------------------------------------------
(* The operations of the browser's client.                                   *)

(* A client that differs in its view of s, its requests and its frames. *)
Same(c, q) == q.ws = c.ws /\ q.made = c.made /\ q.broken = c.broken /\ q.mounts = c.mounts
Differs(c, q, s, v) ==
  /\ q \in Client /\ Same(c, q)
  /\ \A t \in Surfaces : q.view[t] = IF t = s THEN v ELSE c.view[t]

LEMMA ViewIs ==
  ASSUME NEW c \in Client, NEW s \in Surfaces, NEW v \in View
  PROVE  LET q == [c EXCEPT !.view[s] = v]
         IN  Differs(c, q, s, v) /\ q.acks = c.acks /\ q.out = c.out
<1> DEFINE g == [c.view EXCEPT ![s] = v]
           p == [c EXCEPT !.view = g]
<1>1. c.view \in [Surfaces -> View]
  BY DEF Client
<1>2. g \in [Surfaces -> View] /\ \A t \in Surfaces : g[t] = IF t = s THEN v ELSE c.view[t]
  BY <1>1
<1>3. [c EXCEPT !.view[s] = v] = p
  BY DEF Client
<1> HIDE DEF g
<1>4. p \in Client /\ p.view = g /\ p.acks = c.acks /\ p.out = c.out /\ Same(c, p)
  BY <1>2 DEF Client, Same
<1> HIDE DEF p
<1> QED
  BY <1>2, <1>3, <1>4 DEF Differs

LEMMA SendIs ==
  ASSUME NEW c \in Client, NEW f \in UpFrame
  PROVE  LET q == Send(c, f)
         IN  /\ q \in Client /\ Same(c, q) /\ q.view = c.view /\ q.acks = c.acks
             /\ q.out = IF c.ws = None THEN c.out ELSE Append(c.out, f)
<1>1. CASE c.ws = None
  BY <1>1 DEF Send, Same
<1>2. CASE c.ws # None
  <2> DEFINE o == Append(c.out, f)
             q == [c EXCEPT !.out = o]
  <2>1. Send(c, f) = q
    BY <1>2 DEF Send, Client
  <2>2. o \in Seq(UpFrame)
    BY DEF Client
  <2> HIDE DEF o
  <2>3. q \in Client /\ Same(c, q) /\ q.view = c.view /\ q.acks = c.acks /\ q.out = o
    BY <2>2 DEF Client, Same
  <2> QED
    BY <1>2, <2>1, <2>3 DEF o
<1> QED
  BY <1>1, <1>2

LEMMA ViewFields ==
  ASSUME NEW c \in Client, NEW s \in Surfaces
  PROVE  c.view[s] \in View
BY DEF Client

LEMMA SubscriptionIn ==
  ASSUME NEW c \in Client, NEW s \in Surfaces
  PROVE  Asked(c, s) \in Ask /\ Subscription(c, s) \in SubscribeFrame /\ Asking(c.view[s]) \in View
<1>1. c.view[s] \in View
  BY ViewFields
<1>2. Asked(c, s) \in Ask /\ Subscription(c, s) \in SubscribeFrame
  BY <1>1 DEF Asked, Ask, Subscription, SubscribeFrame, View
<1>3. Asking(c.view[s]) \in View
  BY <1>1 DEF Asking, View
<1> QED
  BY <1>2, <1>3

LEMMA SendSubscribeIs ==
  ASSUME NEW c \in Client, NEW s \in Surfaces
  PROVE  LET q == SendSubscribe(c, s)
         IN  /\ Differs(c, q, s, Asking(c.view[s]))
             /\ q.acks = Append(c.acks, Asked(c, s))
             /\ q.out = IF c.ws = None THEN c.out ELSE Append(c.out, Subscription(c, s))
<1> DEFINE a == Append(c.acks, Asked(c, s))
           g == [c.view EXCEPT ![s] = Asking(c.view[s])]
           p == [c EXCEPT !.acks = a, !.view = g]
<1>1. c.view \in [Surfaces -> View] /\ Asking(c.view[s]) \in View
  BY SubscriptionIn DEF Client
<1>2. g \in [Surfaces -> View] /\ \A t \in Surfaces : g[t] = IF t = s THEN Asking(c.view[s]) ELSE c.view[t]
  BY <1>1
<1>3. a \in Seq(Ask)
  BY SubscriptionIn DEF Client
<1>4. SendSubscribe(c, s) = Send(p, Subscription(c, s))
  BY DEF SendSubscribe, Client
<1> HIDE DEF g, a
<1>5. p \in Client /\ Same(c, p) /\ p.acks = a /\ p.view = g /\ p.out = c.out
  BY <1>2, <1>3 DEF Client, Same
<1> HIDE DEF p
<1>6. Subscription(c, s) \in UpFrame
  BY SubscriptionIn DEF UpFrame
<1>7. LET q == Send(p, Subscription(c, s))
      IN  /\ q \in Client /\ Same(p, q) /\ q.view = p.view /\ q.acks = p.acks
          /\ q.out = IF p.ws = None THEN p.out ELSE Append(p.out, Subscription(c, s))
  BY <1>5, <1>6, SendIs
<1> QED
  BY <1>2, <1>4, <1>5, <1>7 DEF Differs, Same, a

Shut(v) == [v EXCEPT !.chan = None, !.phase = "none", !.sent = None]
Unsubscribe(c) == [kind |-> "unsubscribe", chan |-> c]

LEMMA CloseChannelIs ==
  ASSUME NEW c \in Client, NEW s \in Surfaces
  PROVE  LET q == CloseChannel(c, s)
             v == c.view[s]
         IN  /\ Differs(c, q, s, Shut(v)) /\ Shut(v) \in View
             /\ q.acks = c.acks
             /\ q.out = IF c.ws = None \/ v.chan = None THEN c.out ELSE Append(c.out, Unsubscribe(v.chan))
<1> DEFINE v == c.view[s]
           told == IF v.chan = None THEN c ELSE Send(c, Unsubscribe(v.chan))
<1>1. v \in View
  BY ViewFields
<1>2. Shut(v) \in View
  BY <1>1 DEF Shut, View, None
<1>3. Unsubscribe(v.chan) \in UpFrame
  BY <1>1 DEF UpFrame, Unsubscribe, UnsubscribeFrame, View
<1>4. /\ told \in Client /\ Same(c, told) /\ told.view = c.view /\ told.acks = c.acks
      /\ told.out = IF c.ws = None \/ v.chan = None THEN c.out ELSE Append(c.out, Unsubscribe(v.chan))
  <2>1. CASE v.chan = None
    BY <2>1 DEF Same
  <2>2. CASE v.chan # None
    BY <2>2, <1>3, SendIs
  <2> QED
    BY <2>1, <2>2
<1>5. CloseChannel(c, s) = [told EXCEPT !.view[s] = Shut(v)]
  BY DEF CloseChannel, Shut, Unsubscribe
<1> HIDE DEF v, told
<1>6. LET q == [told EXCEPT !.view[s] = Shut(v)]
      IN  Differs(told, q, s, Shut(v)) /\ q.acks = told.acks /\ q.out = told.out
  BY <1>2, <1>4, ViewIs
<1> QED
  BY <1>2, <1>4, <1>5, <1>6 DEF Differs, Same, v

Flushes(c, s) ==
  LET v == c.view[s] IN ~(c.ws = None \/ ~v.visible \/ v.chan = None \/ v.want = None)
FlushedView(v) == [v EXCEPT !.want = None, !.sent = v.want]
ResizeOf(v) == [kind |-> "resize", chan |-> v.chan, size |-> v.want]

LEMMA FlushResizeIs ==
  ASSUME NEW c \in Client, NEW s \in Surfaces
  PROVE  LET q == FlushResize(c, s)
             v == c.view[s]
         IN  IF Flushes(c, s)
             THEN /\ Differs(c, q, s, FlushedView(v)) /\ FlushedView(v) \in View
                  /\ q.acks = c.acks
                  /\ q.out = IF v.sent = v.want THEN c.out ELSE Append(c.out, ResizeOf(v))
             ELSE q = c
<1> DEFINE v == c.view[s]
           n == [v EXCEPT !.want = None]
           flushed == [c EXCEPT !.view[s].want = None]
           sent == [flushed EXCEPT !.view[s].sent = v.want]
<1>1. v \in View /\ c.view \in [Surfaces -> View]
  BY ViewFields DEF Client
<1>2. CASE ~Flushes(c, s)
  BY <1>2 DEF Flushes, FlushResize
<1>3. CASE Flushes(c, s)
  <2>1. c.ws # None /\ v.want # None /\ v.want \in Sizes /\ v.chan \in Nat
    BY <1>1, <1>3 DEF Flushes, View
  <2>2. FlushedView(v) \in View /\ ResizeOf(v) \in UpFrame
    <3>1. FlushedView(v) \in View
      BY <1>1, <2>1 DEF FlushedView, View, None
    <3>2. ResizeOf(v) \in UpFrame
      BY <2>1 DEF ResizeOf, ResizeFrame, UpFrame
    <3> QED  BY <3>1, <3>2
  <2>3. n \in View
    BY <1>1 DEF View, None
  <2>4. flushed = [c EXCEPT !.view[s] = n]
    BY <1>1 DEF Client
  <2>5. CASE v.sent = v.want
    <3>1. FlushResize(c, s) = flushed
      BY <1>3, <2>5 DEF Flushes, FlushResize
    <3>2. n = FlushedView(v)
      BY <1>1, <2>5 DEF FlushedView, View
    <3> HIDE DEF n, flushed
    <3>3. LET q == [c EXCEPT !.view[s] = n]
          IN  Differs(c, q, s, n) /\ q.acks = c.acks /\ q.out = c.out
      BY <2>3, ViewIs
    <3> QED
      BY <1>3, <2>2, <2>4, <2>5, <3>1, <3>2, <3>3
  <2>6. CASE v.sent # v.want
    <3>1. FlushResize(c, s) = Send(sent, ResizeOf(v))
      BY <1>3, <2>6 DEF Flushes, FlushResize, ResizeOf
    <3>2. sent = [c EXCEPT !.view[s] = FlushedView(v)]
      BY <1>1 DEF Client, View, FlushedView
    <3> HIDE DEF sent, flushed, n
    <3>3. Differs(c, sent, s, FlushedView(v)) /\ sent.acks = c.acks /\ sent.out = c.out
      BY <2>2, <3>2, ViewIs
    <3>4. LET q == Send(sent, ResizeOf(v))
          IN  /\ q \in Client /\ Same(sent, q) /\ q.view = sent.view /\ q.acks = sent.acks
              /\ q.out = IF sent.ws = None THEN sent.out ELSE Append(sent.out, ResizeOf(v))
      BY <2>2, <3>3, SendIs DEF Differs
    <3> QED
      BY <1>3, <2>1, <2>2, <2>6, <3>1, <3>3, <3>4 DEF Differs, Same
  <2> QED
    BY <2>5, <2>6
<1> QED
  BY <1>2, <1>3

ForgottenView(v) == [v EXCEPT !.chan = None, !.phase = "none", !.awaiting = FALSE,
                              !.sent = None, !.want = v.size]

LEMMA ForgottenIs ==
  ASSUME NEW c \in Client
  PROVE  LET q == Forgotten(c)
         IN  /\ q \in Client /\ q.ws = None /\ q.made = c.made /\ ~q.broken /\ q.mounts = c.mounts
             /\ q.acks = <<>> /\ q.out = c.out
             /\ \A t \in Surfaces :
                   q.view[t] = IF c.view[t].mount # 0 THEN ForgottenView(c.view[t]) ELSE c.view[t]
<1> DEFINE g == [t \in Surfaces |-> IF t \in Mounted(c) THEN ForgottenView(c.view[t]) ELSE c.view[t]]
           q == [c EXCEPT !.ws = None, !.broken = FALSE, !.acks = <<>>, !.view = g]
<1>1. \A t \in Surfaces : ForgottenView(c.view[t]) \in View /\ c.view[t] \in View
  <2> TAKE t \in Surfaces
  <2>1. c.view[t] \in View
    BY ViewFields
  <2> QED
    BY <2>1 DEF ForgottenView, View, None
<1>2. g \in [Surfaces -> View]
  BY <1>1
<1>3. \A t \in Surfaces : g[t] = IF c.view[t].mount # 0 THEN ForgottenView(c.view[t]) ELSE c.view[t]
  BY DEF Mounted
<1>4. Forgotten(c) = q
  BY DEF Forgotten, ForgottenView
<1> HIDE DEF g
<1>5. /\ q \in Client /\ q.ws = None /\ q.made = c.made /\ ~q.broken /\ q.mounts = c.mounts
      /\ q.acks = <<>> /\ q.out = c.out /\ q.view = g
  <2>1. None \in Nat /\ <<>> \in Seq(Ask) /\ FALSE \in BOOLEAN
    BY DEF None
  <2>2. q \in Client
    BY <1>2, <2>1 DEF Client
  <2>3. /\ q.ws = None /\ q.made = c.made /\ ~q.broken /\ q.mounts = c.mounts
        /\ q.acks = <<>> /\ q.out = c.out /\ q.view = g
    BY DEF Client
  <2> QED
    BY <2>2, <2>3
<1> QED
  BY <1>3, <1>4, <1>5
-----------------------------------------------------------------------------
(* The steps of the browser's client, each as what becomes of one surface,    *)
(* of the requests unanswered and of the frames on the socket.                *)
Appends(o) ==
  /\ up' \in Seq(Seq(UpFrame)) /\ Len(up') = Len(up)
  /\ \A w \in 1..Len(up) : up'[w] = IF Reaches(w) THEN up[w] \o o ELSE up[w]
Acts(s, v, a, o) ==
  /\ Differs(client, client', s, v) /\ client'.out = <<>>
  /\ client'.acks = a
  /\ Appends(o)

LEMMA SendsIs ==
  ASSUME Typed, NEW c \in Client, Sends(c), c.ws = client.ws, c.broken = client.broken,
         NEW o \in Seq(UpFrame), c.ws # None /\ ~c.broken => c.out = o
  PROVE  /\ client' \in Client /\ Same(c, client') /\ client'.view = c.view
         /\ client'.acks = c.acks /\ client'.out = <<>>
         /\ Appends(o)
<1>1. /\ client' \in Client /\ Same(c, client') /\ client'.view = c.view
      /\ client'.acks = c.acks /\ client'.out = <<>>
  <2>1. <<>> \in Seq(UpFrame)
    OBVIOUS
  <2> QED
    BY <2>1 DEF Sends, Client, Same
<1>2. up \in Seq(Seq(UpFrame))
  BY DEF Typed
<1>3. CASE c.ws = None \/ c.broken
  <2>1. up' = up
    BY <1>3 DEF Sends
  <2>2. \A w \in 1..Len(up) : ~Reaches(w)
    BY <1>3 DEF Reaches, None
  <2> QED
    BY <1>1, <1>2, <2>1, <2>2 DEF Appends
<1>4. CASE ~(c.ws = None \/ c.broken)
  <2>1. c.ws \in 1..Len(up) /\ c.ws # None /\ ~c.broken
    BY <1>4 DEF Typed, Client, None
  <2>2. up' = [up EXCEPT ![c.ws] = @ \o o]
    BY <1>4 DEF Sends
  <2>3. up[c.ws] \o o \in Seq(UpFrame)
    <3>1. up[c.ws] \in Seq(UpFrame)
      BY <1>2, <2>1
    <3> QED
      BY <3>1
  <2>4. up' \in Seq(Seq(UpFrame)) /\ Len(up') = Len(up)
    BY <1>2, <2>1, <2>2, <2>3
  <2>5. \A w \in 1..Len(up) : up'[w] = IF w = c.ws THEN up[w] \o o ELSE up[w]
    BY <1>2, <2>1, <2>2
  <2>6. \A w : Reaches(w) <=> w = c.ws
    BY <2>1 DEF Reaches
  <2> QED
    BY <1>1, <2>4, <2>5, <2>6 DEF Appends
<1> QED
  BY <1>3, <1>4

LEMMA ActsBy ==
  ASSUME Typed, NEW c, NEW s \in Surfaces, NEW v, Differs(client, c, s, v), Sends(c),
         NEW o \in Seq(UpFrame), client.ws # None => c.out = o
  PROVE  Acts(s, v, c.acks, o)
<1>1. c \in Client /\ c.ws = client.ws /\ c.broken = client.broken
  BY DEF Differs, Same
<1>2. /\ client' \in Client /\ Same(c, client') /\ client'.view = c.view
      /\ client'.acks = c.acks /\ client'.out = <<>>
      /\ Appends(o)
  BY <1>1, SendsIs
<1> QED
  BY <1>2 DEF Acts, Differs, Same

LEMMA NoFrames == <<>> \in Seq(UpFrame)
OBVIOUS

LEMMA OneFrame ==
  ASSUME NEW f \in UpFrame
  PROVE  <<f>> \in Seq(UpFrame) /\ Append(<<>>, f) = <<f>>
OBVIOUS

UnsubscribeOf(v) == IF v.chan = None THEN <<>> ELSE <<Unsubscribe(v.chan)>>
LEMMA UnsubscribeIn ==
  ASSUME NEW v \in View
  PROVE  UnsubscribeOf(v) \in Seq(UpFrame)
<1>1. Unsubscribe(v.chan) \in UpFrame
  BY DEF Unsubscribe, UnsubscribeFrame, UpFrame, View
<1> QED
  BY <1>1, NoFrames, OneFrame DEF UnsubscribeOf

SubscribeOf(s, v) == [kind |-> "subscribe", surf |-> s, mount |-> v.mount, size |-> v.size]
AskOf(s, v) == [surf |-> s, mount |-> v.mount]
LEMMA SubscribeIn ==
  ASSUME NEW s \in Surfaces, NEW v \in View
  PROVE  SubscribeOf(s, v) \in UpFrame /\ AskOf(s, v) \in Ask /\ Asking(v) \in View
BY DEF SubscribeOf, SubscribeFrame, UpFrame, AskOf, Ask, View, Asking

LEMMA HideIs ==
  ASSUME Typed, NEW s \in Surfaces, SetVisibility(s), client.view[s].visible
  PROVE  LET v == client.view[s]
         IN  Acts(s, Shut([v EXCEPT !.visible = FALSE]), client.acks, UnsubscribeOf(v))
<1> DEFINE v == client.view[s]
           u == [v EXCEPT !.visible = FALSE]
           c == [client EXCEPT !.view[s].visible = ~@]
           d == CloseChannel(c, s)
<1>1. client \in Client /\ v \in View /\ client.out = <<>> /\ client.view \in [Surfaces -> View]
  BY ViewFields DEF Typed, Client
<1>2. u \in View /\ u.chan = v.chan
  BY <1>1 DEF View
<1>3. c = [client EXCEPT !.view[s] = u]
  BY <1>1 DEF Client, View
<1>4. Sends(d)
  BY DEF SetVisibility
<1> HIDE DEF c
<1>5. Differs(client, c, s, u) /\ c.acks = client.acks /\ c.out = <<>>
  BY <1>1, <1>2, <1>3, ViewIs
<1>6. c \in Client /\ c.view[s] = u /\ c.ws = client.ws
  BY <1>5 DEF Differs, Same
<1>7. /\ Differs(c, d, s, Shut(u)) /\ d.acks = c.acks
      /\ d.out = IF c.ws = None \/ u.chan = None THEN c.out ELSE Append(c.out, Unsubscribe(u.chan))
  BY <1>6, CloseChannelIs
<1> HIDE DEF d
<1>8. Differs(client, d, s, Shut(u))
  BY <1>5, <1>7 DEF Differs, Same
<1>9. UnsubscribeOf(v) \in Seq(UpFrame) /\ (client.ws # None => d.out = UnsubscribeOf(v))
  BY <1>1, <1>2, <1>5, <1>6, <1>7, UnsubscribeIn DEF UnsubscribeOf
<1> HIDE DEF u, v
<1>10. Acts(s, Shut(u), d.acks, UnsubscribeOf(v))
  BY <1>4, <1>8, <1>9, ActsBy
<1> QED
  BY <1>5, <1>7, <1>10 DEF u, v

LEMMA ShowIs ==
  ASSUME Typed, NEW s \in Surfaces, SetVisibility(s), ~client.view[s].visible
  PROVE  LET v == client.view[s]
             u == [v EXCEPT !.visible = TRUE]
         IN  IF client.ws # None /\ v.chan = None /\ ~v.awaiting
             THEN Acts(s, Asking(u), Append(client.acks, AskOf(s, u)), <<SubscribeOf(s, u)>>)
             ELSE Acts(s, u, client.acks, <<>>)
<1> DEFINE v == client.view[s]
           u == [v EXCEPT !.visible = TRUE]
           c == [client EXCEPT !.view[s].visible = ~@]
           d == SendSubscribe(c, s)
<1>1. client \in Client /\ v \in View /\ client.out = <<>> /\ client.view \in [Surfaces -> View]
  BY ViewFields DEF Typed, Client
<1>2. u \in View /\ u.chan = v.chan /\ u.awaiting = v.awaiting
  BY <1>1 DEF View
<1>3. c = [client EXCEPT !.view[s] = u]
  BY <1>1 DEF Client, View
<1>4. Sends(IF c.ws # None /\ v.chan = None /\ ~v.awaiting THEN d ELSE c)
  BY DEF SetVisibility
<1> HIDE DEF c
<1>5. Differs(client, c, s, u) /\ c.acks = client.acks /\ c.out = <<>>
  BY <1>1, <1>2, <1>3, ViewIs
<1>6. c \in Client /\ c.view[s] = u /\ c.ws = client.ws
  BY <1>5 DEF Differs, Same
<1>7. CASE client.ws # None /\ v.chan = None /\ ~v.awaiting
  <2>1. /\ Differs(c, d, s, Asking(u)) /\ d.acks = Append(c.acks, Asked(c, s))
        /\ d.out = IF c.ws = None THEN c.out ELSE Append(c.out, Subscription(c, s))
    BY <1>6, SendSubscribeIs
  <2>2. Asked(c, s) = AskOf(s, u) /\ Subscription(c, s) = SubscribeOf(s, u)
    BY <1>6 DEF Asked, AskOf, Subscription, SubscribeOf
  <2>3. Sends(d)
    BY <1>4, <1>6, <1>7
  <2> HIDE DEF d
  <2>4. Differs(client, d, s, Asking(u))
    BY <1>5, <2>1 DEF Differs, Same
  <2>5. <<SubscribeOf(s, u)>> \in Seq(UpFrame) /\ (client.ws # None => d.out = <<SubscribeOf(s, u)>>)
    BY <1>2, <1>5, <1>6, <2>1, <2>2, SubscribeIn, OneFrame
  <2> HIDE DEF u, v
  <2>6. Acts(s, Asking(u), d.acks, <<SubscribeOf(s, u)>>)
    BY <2>3, <2>4, <2>5, ActsBy
  <2>7. d.acks = Append(client.acks, AskOf(s, u))
    BY <1>5, <2>1, <2>2
  <2> QED
    BY <1>7, <2>6, <2>7 DEF u, v
<1>8. CASE ~(client.ws # None /\ v.chan = None /\ ~v.awaiting)
  <2>1. Sends(c)
    BY <1>4, <1>6, <1>8
  <2> HIDE DEF u, v
  <2>2. Acts(s, u, c.acks, <<>>)
    BY <1>5, <2>1, NoFrames, ActsBy
  <2> QED
    BY <1>5, <1>8, <2>2 DEF u, v
<1> QED
  BY <1>7, <1>8

LEMMA SendResizeIs ==
  ASSUME Typed, NEW s \in Surfaces, NEW size \in Sizes, SendResize(s, size)
  PROVE  LET v == client.view[s]
             u == [v EXCEPT !.size = size, !.want = size]
         IN  IF client.ws # None /\ v.visible /\ v.chan # None
             THEN Acts(s, FlushedView(u), client.acks, IF v.sent = size THEN <<>> ELSE <<ResizeOf(u)>>)
             ELSE Acts(s, u, client.acks, <<>>)
<1> DEFINE v == client.view[s]
           u == [v EXCEPT !.size = size, !.want = size]
           c == [client EXCEPT !.view[s].size = size, !.view[s].want = size]
           d == FlushResize(c, s)
<1>1. client \in Client /\ v \in View /\ client.out = <<>> /\ client.view \in [Surfaces -> View]
  BY ViewFields DEF Typed, Client
<1>2. u \in View /\ u.chan = v.chan /\ u.visible = v.visible /\ u.sent = v.sent /\ u.want = size /\ u.size = size
  BY <1>1 DEF View
<1>3. c = [client EXCEPT !.view[s] = u]
  BY <1>1 DEF Client, View
<1>4. Sends(d)
  BY DEF SendResize
<1>0. size # None
  BY ViewAssumption DEF None
<1> HIDE DEF c
<1>5. Differs(client, c, s, u) /\ c.acks = client.acks /\ c.out = <<>>
  BY <1>1, <1>2, <1>3, ViewIs
<1>6. c \in Client /\ c.view[s] = u /\ c.ws = client.ws
  BY <1>5 DEF Differs, Same
<1>7. IF Flushes(c, s)
      THEN /\ Differs(c, d, s, FlushedView(u)) /\ d.acks = c.acks
           /\ d.out = IF u.sent = u.want THEN c.out ELSE Append(c.out, ResizeOf(u))
      ELSE d = c
  BY <1>6, FlushResizeIs
<1>8. Flushes(c, s) <=> client.ws # None /\ v.visible /\ v.chan # None
  BY <1>0, <1>2, <1>6 DEF Flushes
<1>9. CASE client.ws # None /\ v.visible /\ v.chan # None
  <2> DEFINE o == IF v.sent = size THEN <<>> ELSE <<ResizeOf(u)>>
  <2>1. ResizeOf(u) \in UpFrame
    <3>1. u.chan \in Nat /\ u.want \in Sizes
      BY <1>2 DEF View
    <3> QED
      BY <3>1 DEF ResizeOf, ResizeFrame, UpFrame
  <2>2. o \in Seq(UpFrame) /\ (client.ws # None => d.out = o)
    BY <1>2, <1>5, <1>7, <1>8, <1>9, <2>1, NoFrames, OneFrame
  <2> HIDE DEF d, o
  <2>3. Differs(client, d, s, FlushedView(u)) /\ d.acks = client.acks
    BY <1>5, <1>7, <1>8, <1>9 DEF Differs, Same
  <2> HIDE DEF u, v
  <2>4. Acts(s, FlushedView(u), d.acks, o)
    BY <1>4, <2>2, <2>3, ActsBy
  <2> QED
    BY <1>9, <2>3, <2>4 DEF u, v, o
<1>10. CASE ~(client.ws # None /\ v.visible /\ v.chan # None)
  <2>1. d = c
    BY <1>7, <1>8, <1>10
  <2> HIDE DEF d, u, v
  <2>2. Acts(s, u, c.acks, <<>>)
    BY <1>4, <1>5, <2>1, NoFrames, ActsBy
  <2> QED
    BY <1>5, <1>10, <2>2 DEF u, v
<1> QED
  BY <1>9, <1>10
(* A step of the client that may also mount a surface. *)
Moves(s, v, a, o) ==
  /\ client' \in Client /\ client'.out = <<>>
  /\ client'.ws = client.ws /\ client'.made = client.made /\ client'.broken = client.broken
  /\ \A t \in Surfaces : client'.view[t] = IF t = s THEN v ELSE client.view[t]
  /\ client'.acks = a
  /\ Appends(o)
(* A step that leaves the client alone. *)
Rests == client' = client /\ up' = up

LEMMA ActsMoves ==
  ASSUME NEW s, NEW v, NEW a, NEW o, Acts(s, v, a, o)
  PROVE  Moves(s, v, a, o) /\ client'.mounts = client.mounts
BY DEF Acts, Moves, Differs, Same

LEMMA NewIs ==
  ASSUME NEW s \in Surfaces, NEW n \in Nat
  PROVE  NewSurface(n, FirstSize[s]) \in View /\ NoSurface(s) \in View
<1>1. FirstSize[s] \in Sizes
  BY ViewAssumption
<1>2. \A k \in Nat : NewSurface(k, FirstSize[s]) \in View
  BY <1>1 DEF NewSurface, View, None
<1> DEFINE x == NewSurface(0, FirstSize[s])
<1>3. x \in View
  BY <1>2
<1>4. NoSurface(s) = [x EXCEPT !.visible = FALSE]
  BY DEF NoSurface
<1> HIDE DEF x
<1>5. [x EXCEPT !.visible = FALSE] \in View
  BY <1>3 DEF View
<1> QED
  BY <1>2, <1>4, <1>5

LEMMA MountIs ==
  ASSUME Typed, NEW s \in Surfaces, Mount(s)
  PROVE  LET v == NewSurface(client.mounts + 1, FirstSize[s])
         IN  /\ client'.mounts = client.mounts + 1
             /\ v \in View
             /\ IF client.ws # None
                THEN Moves(s, Asking(v), Append(client.acks, AskOf(s, v)), <<SubscribeOf(s, v)>>)
                ELSE Moves(s, v, client.acks, <<>>)
<1> DEFINE n == client.mounts + 1
           v == NewSurface(n, FirstSize[s])
           b == [client EXCEPT !.mounts = n]
           c == [client EXCEPT !.mounts = @ + 1,
                               !.view[s] = NewSurface(client.mounts + 1, FirstSize[s])]
           d == SendSubscribe(c, s)
<1>1. client \in Client /\ n \in Nat /\ client.out = <<>> /\ client.view \in [Surfaces -> View]
  BY DEF Typed, Client
<1>2. v \in View
  BY <1>1, NewIs
<1>3. b \in Client /\ b.ws = client.ws /\ b.made = client.made /\ b.broken = client.broken
      /\ b.acks = client.acks /\ b.out = <<>> /\ b.view = client.view /\ b.mounts = n
  BY <1>1 DEF Client
<1>4. c = [b EXCEPT !.view[s] = v]
  BY <1>1 DEF Client
<1>5. Sends(IF c.ws # None THEN d ELSE c)
  BY DEF Mount
<1> HIDE DEF c, b, v, n
<1>6. Differs(b, c, s, v) /\ c.acks = b.acks /\ c.out = b.out
  BY <1>2, <1>3, <1>4, ViewIs
<1>7. c \in Client /\ c.view[s] = v /\ c.ws = client.ws /\ c.broken = client.broken
      /\ c.made = client.made /\ c.mounts = n /\ c.acks = client.acks /\ c.out = <<>>
      /\ \A t \in Surfaces : c.view[t] = IF t = s THEN v ELSE client.view[t]
  BY <1>3, <1>6 DEF Differs, Same
<1>8. CASE client.ws # None
  <2>1. /\ Differs(c, d, s, Asking(c.view[s])) /\ d.acks = Append(c.acks, Asked(c, s))
        /\ d.out = IF c.ws = None THEN c.out ELSE Append(c.out, Subscription(c, s))
    BY <1>7, SendSubscribeIs
  <2>2. Asked(c, s) = AskOf(s, v) /\ Subscription(c, s) = SubscribeOf(s, v)
    BY <1>7 DEF Asked, AskOf, Subscription, SubscribeOf
  <2>3. <<SubscribeOf(s, v)>> \in Seq(UpFrame) /\ Append(<<>>, SubscribeOf(s, v)) = <<SubscribeOf(s, v)>>
    BY <1>2, SubscribeIn, OneFrame
  <2>4. Sends(d)
    BY <1>5, <1>7, <1>8
  <2> HIDE DEF d
  <2>5. d \in Client /\ d.ws = client.ws /\ d.broken = client.broken /\ d.out = <<SubscribeOf(s, v)>>
    BY <1>7, <1>8, <2>1, <2>2, <2>3 DEF Differs, Same
  <2>6. /\ client' \in Client /\ Same(d, client') /\ client'.view = d.view
        /\ client'.acks = d.acks /\ client'.out = <<>>
        /\ Appends(<<SubscribeOf(s, v)>>)
    BY <2>3, <2>4, <2>5, SendsIs
  <2>7. Moves(s, Asking(v), Append(client.acks, AskOf(s, v)), <<SubscribeOf(s, v)>>)
    BY <1>7, <2>1, <2>2, <2>6 DEF Moves, Differs, Same
  <2>8. client'.mounts = n
    BY <1>7, <2>1, <2>6 DEF Differs, Same
  <2> QED
    BY <1>2, <1>8, <2>7, <2>8 DEF v, n
<1>9. CASE client.ws = None
  <2>1. Sends(c)
    BY <1>5, <1>7, <1>9
  <2>2. /\ client' \in Client /\ Same(c, client') /\ client'.view = c.view
        /\ client'.acks = c.acks /\ client'.out = <<>>
        /\ Appends(<<>>)
    BY <1>7, <1>9, <2>1, NoFrames, SendsIs
  <2>3. Moves(s, v, client.acks, <<>>) /\ client'.mounts = n
    BY <1>7, <2>2 DEF Moves, Same
  <2> QED
    BY <1>2, <1>9, <2>3 DEF v, n
<1> QED
  BY <1>8, <1>9

CloseFrameOf == [kind |-> "close"]
(* The browser keeps no surface, and no socket. *)
Leaves(s, o) ==
  /\ client' \in Client /\ client'.out = <<>> /\ client'.acks = <<>>
  /\ client'.ws = None /\ ~client'.broken
  /\ client'.made = client.made /\ client'.mounts = client.mounts
  /\ \A t \in Surfaces : client'.view[t] = IF t = s THEN NoSurface(s) ELSE client.view[t]
  /\ \A t \in Surfaces : client'.view[t].mount = 0
  /\ Appends(o)
  /\ down' = <<>>

LEMMA UnmountIs ==
  ASSUME Typed, NEW s \in Surfaces, Unmount(s)
  PROVE  LET v == client.view[s]
         IN  \/ Leaves(s, UnsubscribeOf(v) \o <<CloseFrameOf>>)
             \/ /\ Acts(s, NoSurface(s), client.acks, UnsubscribeOf(v))
                /\ down' = down
<1> DEFINE v == client.view[s]
           closed == CloseChannel(client, s)
           gone == [closed EXCEPT !.view[s] = NoSurface(s)]
           o == UnsubscribeOf(v)
           e == Forgotten(gone)
<1>1. client \in Client /\ v \in View /\ client.out = <<>> /\ NoSurface(s) \in View
      /\ up \in Seq(Seq(UpFrame)) /\ client.ws \in {None, client.made} /\ client.made \in Nat
      /\ client.made <= Len(up)
  BY ViewFields, NewIs DEF Typed, Client
<1>2. /\ Differs(client, closed, s, Shut(v)) /\ closed.acks = client.acks
      /\ closed.out = IF client.ws = None \/ v.chan = None THEN client.out
                      ELSE Append(client.out, Unsubscribe(v.chan))
  BY <1>1, CloseChannelIs
<1>3. IF Mounted(gone) # {} THEN Sends(gone) /\ UNCHANGED down
      ELSE /\ client' = [Forgotten(gone) EXCEPT !.out = <<>>]
           /\ up' = IF gone.ws = None \/ gone.broken THEN up
                    ELSE [up EXCEPT ![gone.ws] = @ \o Append(gone.out, [kind |-> "close"])]
           /\ down' = <<>>
  BY DEF Unmount
<1> HIDE DEF closed
<1>4. Differs(closed, gone, s, NoSurface(s)) /\ gone.acks = closed.acks /\ gone.out = closed.out
  BY <1>1, <1>2, ViewIs DEF Differs
<1> HIDE DEF gone
<1>5. Differs(client, gone, s, NoSurface(s)) /\ gone.acks = client.acks /\ gone \in Client
      /\ gone.ws = client.ws /\ gone.broken = client.broken
  BY <1>2, <1>4 DEF Differs, Same
<1>6. o \in Seq(UpFrame) /\ (client.ws # None => gone.out = o)
  BY <1>1, <1>2, <1>4, UnsubscribeIn DEF UnsubscribeOf
<1> HIDE DEF v, o
<1>7. CASE Mounted(gone) # {}
  <2>1. Sends(gone) /\ down' = down
    BY <1>3, <1>7
  <2>2. Acts(s, NoSurface(s), gone.acks, o)
    BY <1>5, <1>6, <2>1, ActsBy
  <2> QED
    BY <1>5, <2>1, <2>2 DEF o, v
<1>8. CASE Mounted(gone) = {}
  <2> DEFINE p == o \o <<CloseFrameOf>>
  <2>1. /\ e \in Client /\ e.ws = None /\ e.made = gone.made /\ ~e.broken /\ e.mounts = gone.mounts
        /\ e.acks = <<>>
        /\ \A t \in Surfaces :
              e.view[t] = IF gone.view[t].mount # 0 THEN ForgottenView(gone.view[t]) ELSE gone.view[t]
    BY <1>5, ForgottenIs
  <2>2. \A t \in Surfaces : gone.view[t].mount = 0
    BY <1>8 DEF Mounted
  <2>3. client' = [e EXCEPT !.out = <<>>] /\ down' = <<>>
    BY <1>3, <1>8
  <2> HIDE DEF e
  <2>4. client' \in Client /\ client'.ws = None /\ ~client'.broken /\ client'.acks = <<>>
        /\ client'.made = e.made /\ client'.mounts = e.mounts /\ client'.out = <<>>
        /\ client'.view = e.view
    BY <2>1, <2>3, NoFrames DEF Client
  <2>5. CloseFrameOf \in UpFrame
    BY DEF CloseFrameOf, CloseFrame, UpFrame
  <2>6. p \in Seq(UpFrame) /\ p = Append(o, [kind |-> "close"])
    BY <1>6, <2>5 DEF CloseFrameOf
  <2>7. up' = IF client.ws = None \/ client.broken THEN up
              ELSE [up EXCEPT ![client.ws] = @ \o p]
    BY <1>3, <1>5, <1>6, <1>8, <2>6
  <2> HIDE DEF p
  <2>8. Appends(p)
    <3>1. CASE client.ws = None \/ client.broken
      <4>1. \A w \in 1..Len(up) : ~Reaches(w)
        BY <3>1 DEF Reaches, None
      <4> QED
        BY <1>1, <2>7, <3>1, <4>1 DEF Appends
    <3>2. CASE ~(client.ws = None \/ client.broken)
      <4>1. client.ws \in 1..Len(up) /\ \A w : Reaches(w) <=> w = client.ws
        BY <1>1, <3>2 DEF None, Reaches
      <4>2. up[client.ws] \o p \in Seq(UpFrame)
        <5>1. up[client.ws] \in Seq(UpFrame)
          BY <1>1, <4>1
        <5> QED
          BY <2>6, <5>1
      <4>3. up' \in Seq(Seq(UpFrame)) /\ Len(up') = Len(up)
            /\ \A w \in 1..Len(up) : up'[w] = IF w = client.ws THEN up[w] \o p ELSE up[w]
        BY <1>1, <2>7, <3>2, <4>1, <4>2
      <4> QED
        BY <4>1, <4>3 DEF Appends
    <3> QED
      BY <3>1, <3>2
  <2>9. Leaves(s, p)
    <3>1. \A t \in Surfaces : e.view[t] = gone.view[t]
      BY <2>1, <2>2
    <3> QED
      BY <1>5, <2>1, <2>2, <2>3, <2>4, <2>8, <3>1 DEF Leaves, Differs, Same
  <2> QED
    BY <2>9 DEF p, o, v
<1> QED
  BY <1>7, <1>8
-----------------------------------------------------------------------------
(* The browser reads a frame. *)
Heads(f) == down # <<>> /\ f = Head(down) /\ down' = Tail(down)

LEMMA ReadsIs ==
  ASSUME Typed, ClientReads
  PROVE  LET f == Head(down)
         IN  Heads(f) /\ f \in DownFrame /\ Sends(Handled(client, f)) /\ client \in Client /\ client.out = <<>>
BY DEF Typed, ClientReads, Heads

LEMMA RestsIs ==
  ASSUME Typed, Sends(client)
  PROVE  Rests
<1>1. client \in Client /\ client.out = <<>> /\ up \in Seq(Seq(UpFrame))
      /\ client.ws \in {None, client.made} /\ client.made \in Nat /\ client.made <= Len(up)
  BY DEF Typed, Client
<1>2. client' = client
  BY <1>1 DEF Sends, Client
<1>3. CASE client.ws = None \/ client.broken
  BY <1>2, <1>3 DEF Sends, Rests
<1>4. CASE ~(client.ws = None \/ client.broken)
  <2>1. client.ws \in 1..Len(up)
    BY <1>1, <1>4 DEF None
  <2>2. up' = [up EXCEPT ![client.ws] = up[client.ws] \o <<>>]
    BY <1>1, <1>4 DEF Sends
  <2>3. up[client.ws] \in Seq(UpFrame)
    BY <1>1, <2>1
  <2>4. up[client.ws] \o <<>> = up[client.ws]
    BY <2>3
  <2>5. up' = [up EXCEPT ![client.ws] = up[client.ws]]
    BY <2>2, <2>4
  <2>6. up' = up
    BY <1>1, <2>1, <2>5
  <2> QED
    BY <1>2, <2>6 DEF Rests
<1> QED
  BY <1>3, <1>4

OpenedView(v, c) == [v EXCEPT !.chan = c, !.awaiting = FALSE, !.phase = "baseline"]

LEMMA RestIs ==
  ASSUME NEW c \in Client, c.acks # <<>>
  PROVE  LET q == [c EXCEPT !.acks = Tail(@)]
         IN  q \in Client /\ Same(c, q) /\ q.view = c.view /\ q.out = c.out /\ q.acks = Tail(c.acks)
             /\ Head(c.acks) \in Ask
<1>1. c.acks \in Seq(Ask)
  BY DEF Client
<1> DEFINE t == Tail(c.acks)
<1>2. t \in Seq(Ask) /\ Head(c.acks) \in Ask
  BY <1>1
<1> HIDE DEF t
<1>3. LET q == [c EXCEPT !.acks = t]
      IN  q \in Client /\ Same(c, q) /\ q.view = c.view /\ q.out = c.out /\ q.acks = t
  BY <1>2 DEF Client, Same
<1> QED
  BY <1>2, <1>3 DEF t

LEMMA AckIs ==
  ASSUME Typed, ClientReads, NEW f, f = Head(down), f.kind = "ack"
  PROVE  LET a == Head(client.acks)
             s == a.surf
             v == client.view[s]
             u == OpenedView(v, f.chan)
         IN  \/ client.acks = <<>> /\ Rests
             \/ /\ client.acks # <<>> /\ a \in Ask
                /\ IF v.mount # a.mount
                   THEN Acts(s, v, Tail(client.acks), <<Unsubscribe(f.chan)>>)
                   ELSE IF ~v.visible
                   THEN Acts(s, Shut(u), Tail(client.acks), UnsubscribeOf(u))
                   ELSE IF u.chan # None /\ u.want # None /\ client.ws # None
                   THEN Acts(s, FlushedView(u), Tail(client.acks),
                             IF v.sent = v.want THEN <<>> ELSE <<ResizeOf(u)>>)
                   ELSE Acts(s, u, Tail(client.acks), <<>>)
<1>1. f \in DownFrame /\ Sends(Handled(client, f)) /\ client \in Client /\ client.out = <<>>
  BY ReadsIs
<1>2. Sends(OnSubscribeAck(client, f)) /\ f.chan \in Nat
  BY <1>1 DEF Handled, DownFrame, AckFrame, ErrorFrame, OutputFrame, SnapshotFrame, ExitFrame, ClosedFrame
<1>3. CASE client.acks = <<>>
  BY <1>2, <1>3, RestsIs DEF OnSubscribeAck
<1>4. CASE client.acks # <<>>
  <2> DEFINE a == Head(client.acks)
             s == a.surf
             v == client.view[s]
             u == OpenedView(v, f.chan)
             rest == [client EXCEPT !.acks = Tail(@)]
             opened == [rest EXCEPT !.view[s].chan = f.chan, !.view[s].awaiting = FALSE,
                                    !.view[s].phase = "baseline"]
  <2>1. Sends(IF v.mount # a.mount
              THEN Send(rest, [kind |-> "unsubscribe", chan |-> f.chan])
              ELSE IF ~v.visible THEN CloseChannel(opened, s) ELSE FlushResize(opened, s))
    BY <1>2, <1>4 DEF OnSubscribeAck
  <2>2. rest \in Client /\ Same(client, rest) /\ rest.view = client.view /\ rest.out = <<>>
        /\ rest.acks = Tail(client.acks) /\ a \in Ask
    BY <1>1, <1>4, RestIs
  <2>3. s \in Surfaces /\ v \in View /\ client.view \in [Surfaces -> View]
    BY <1>1, <2>2 DEF Ask, Client
  <2>4. u \in View /\ u.chan = f.chan /\ u.visible = v.visible /\ u.want = v.want /\ u.sent = v.sent
    BY <1>2, <2>3 DEF OpenedView, View
  <2>5. opened = [rest EXCEPT !.view[s] = u]
    BY <1>1, <2>2, <2>3 DEF OpenedView, View, Client
  <2> HIDE DEF rest
  <2>6. Differs(rest, opened, s, u) /\ opened.acks = rest.acks /\ opened.out = rest.out
    BY <2>2, <2>3, <2>4, <2>5, ViewIs
  <2> HIDE DEF opened
  <2>7. Differs(client, opened, s, u) /\ opened \in Client /\ opened.acks = Tail(client.acks)
        /\ opened.out = <<>> /\ opened.view[s] = u /\ opened.ws = client.ws
    BY <2>2, <2>3, <2>6 DEF Differs, Same
  <2>8. CASE v.mount # a.mount
    <3> DEFINE d == Send(rest, Unsubscribe(f.chan))
    <3>1. Unsubscribe(f.chan) \in UpFrame
      BY <1>2 DEF Unsubscribe, UnsubscribeFrame, UpFrame
    <3>2. Sends(d)
      BY <2>1, <2>8 DEF Unsubscribe
    <3>3. /\ d \in Client /\ Same(rest, d) /\ d.view = rest.view /\ d.acks = rest.acks
          /\ d.out = IF rest.ws = None THEN rest.out ELSE Append(rest.out, Unsubscribe(f.chan))
      BY <2>2, <3>1, SendIs
    <3> HIDE DEF d
    <3>4. Differs(client, d, s, v)
      BY <2>2, <3>3 DEF Differs, Same
    <3>5. <<Unsubscribe(f.chan)>> \in Seq(UpFrame) /\ (client.ws # None => d.out = <<Unsubscribe(f.chan)>>)
      BY <2>2, <3>1, <3>3, OneFrame DEF Same
    <3> HIDE DEF u, v, s, a
    <3>6. Acts(s, v, d.acks, <<Unsubscribe(f.chan)>>)
      BY <2>3, <3>2, <3>4, <3>5, ActsBy
    <3>7. d.acks = Tail(client.acks)
      BY <2>2, <3>3
    <3> QED
      BY <1>4, <2>2, <2>8, <3>6, <3>7 DEF u, v, s, a
  <2>9. CASE v.mount = a.mount /\ ~v.visible
    <3> DEFINE d == CloseChannel(opened, s)
    <3>1. Sends(d)
      BY <2>1, <2>9
    <3>2. /\ Differs(opened, d, s, Shut(u)) /\ Shut(u) \in View /\ d.acks = opened.acks
          /\ d.out = IF opened.ws = None \/ u.chan = None THEN opened.out ELSE Append(opened.out, Unsubscribe(u.chan))
      BY <2>3, <2>7, CloseChannelIs
    <3> HIDE DEF d
    <3>3. Differs(client, d, s, Shut(u)) /\ d.acks = Tail(client.acks)
      BY <2>7, <3>2 DEF Differs, Same
    <3>4. UnsubscribeOf(u) \in Seq(UpFrame) /\ (client.ws # None => d.out = UnsubscribeOf(u))
      BY <2>4, <2>7, <3>2, UnsubscribeIn DEF UnsubscribeOf
    <3> HIDE DEF u, v, s, a
    <3>5. Acts(s, Shut(u), d.acks, UnsubscribeOf(u))
      BY <2>3, <3>1, <3>3, <3>4, ActsBy
    <3>6. Acts(s, Shut(u), Tail(client.acks), UnsubscribeOf(u))
      BY <3>3, <3>5
    <3> QED
      BY <1>4, <2>2, <2>9, <3>6 DEF u, v, s, a
  <2>10. CASE v.mount = a.mount /\ v.visible
    <3> DEFINE d == FlushResize(opened, s)
               o == IF v.sent = v.want THEN <<>> ELSE <<ResizeOf(u)>>
    <3>1. Sends(d)
      BY <2>1, <2>10
    <3>2. IF Flushes(opened, s)
          THEN /\ Differs(opened, d, s, FlushedView(u)) /\ d.acks = opened.acks
               /\ d.out = IF u.sent = u.want THEN opened.out ELSE Append(opened.out, ResizeOf(u))
          ELSE d = opened
      BY <2>3, <2>7, FlushResizeIs
    <3>3. Flushes(opened, s) <=> u.chan # None /\ u.want # None /\ client.ws # None
      BY <2>4, <2>7, <2>10 DEF Flushes
    <3>4. CASE u.chan # None /\ u.want # None /\ client.ws # None
      <4>1. ResizeOf(u) \in UpFrame
        BY <2>4, <3>4 DEF ResizeOf, ResizeFrame, UpFrame, View
      <4>2. o \in Seq(UpFrame) /\ d.out = o
        BY <2>4, <2>7, <3>2, <3>3, <3>4, <4>1, NoFrames, OneFrame
      <4> HIDE DEF d, o
      <4>3. Differs(client, d, s, FlushedView(u)) /\ d.acks = Tail(client.acks)
        BY <2>7, <3>2, <3>3, <3>4 DEF Differs, Same
      <4> HIDE DEF u, v, s, a
      <4>4. Acts(s, FlushedView(u), d.acks, o)
        BY <2>3, <3>1, <4>2, <4>3, ActsBy
      <4>5. Acts(s, FlushedView(u), Tail(client.acks), o)
        BY <4>3, <4>4
      <4> QED
        BY <1>4, <2>2, <2>10, <3>4, <4>5 DEF u, v, s, a, o
    <3>5. CASE ~(u.chan # None /\ u.want # None /\ client.ws # None)
      <4>1. Sends(opened)
        BY <3>1, <3>2, <3>3, <3>5
      <4> HIDE DEF d, o, u, v, s, a
      <4>2. Acts(s, u, opened.acks, <<>>)
        BY <2>3, <2>7, <4>1, NoFrames, ActsBy
      <4>3. Acts(s, u, Tail(client.acks), <<>>)
        BY <2>7, <4>2
      <4> QED
        BY <1>4, <2>2, <2>10, <3>5, <4>3 DEF u, v, s, a
    <3> QED
      BY <3>4, <3>5
  <2> QED
    BY <2>8, <2>9, <2>10
<1> QED
  BY <1>3, <1>4

LEMMA ErrorIs ==
  ASSUME Typed, ClientReads, NEW f, f = Head(down), f.kind = "error"
  PROVE  LET a == Head(client.acks)
             s == a.surf
             v == client.view[s]
         IN  \/ client.acks = <<>> /\ Rests
             \/ /\ client.acks # <<>> /\ a \in Ask
                /\ Acts(s, IF v.mount # a.mount THEN v ELSE [v EXCEPT !.awaiting = FALSE],
                        Tail(client.acks), <<>>)
<1>1. f \in DownFrame /\ Sends(Handled(client, f)) /\ client \in Client /\ client.out = <<>>
  BY ReadsIs
<1>2. Sends(OnError(client))
  BY <1>1 DEF Handled
<1>3. CASE client.acks = <<>>
  BY <1>2, <1>3, RestsIs DEF OnError
<1>4. CASE client.acks # <<>>
  <2> DEFINE a == Head(client.acks)
             s == a.surf
             v == client.view[s]
             u == [v EXCEPT !.awaiting = FALSE]
             rest == [client EXCEPT !.acks = Tail(@)]
             q == [rest EXCEPT !.view[s].awaiting = FALSE]
  <2>1. Sends(IF v.mount # a.mount THEN rest ELSE q)
    BY <1>2, <1>4 DEF OnError
  <2>2. rest \in Client /\ Same(client, rest) /\ rest.view = client.view /\ rest.out = <<>>
        /\ rest.acks = Tail(client.acks) /\ a \in Ask
    BY <1>1, <1>4, RestIs
  <2>3. s \in Surfaces /\ v \in View /\ client.view \in [Surfaces -> View]
    BY <1>1, <2>2 DEF Ask, Client
  <2>4. u \in View
    BY <2>3 DEF View
  <2>5. q = [rest EXCEPT !.view[s] = u]
    BY <1>1, <2>2, <2>3 DEF View, Client
  <2> HIDE DEF rest
  <2>6. Differs(rest, q, s, u) /\ q.acks = rest.acks /\ q.out = rest.out
    BY <2>2, <2>3, <2>4, <2>5, ViewIs
  <2> HIDE DEF q
  <2>7. CASE v.mount # a.mount
    <3>1. Differs(client, rest, s, v) /\ Sends(rest)
      BY <2>1, <2>2, <2>7 DEF Differs, Same
    <3> HIDE DEF u, v, s, a
    <3>2. Acts(s, v, rest.acks, <<>>)
      BY <2>2, <2>3, <3>1, NoFrames, ActsBy
    <3>3. Acts(s, v, Tail(client.acks), <<>>)
      BY <2>2, <3>2
    <3> QED
      BY <1>4, <2>2, <2>7, <3>3 DEF u, v, s, a
  <2>8. CASE v.mount = a.mount
    <3>1. Differs(client, q, s, u) /\ Sends(q) /\ q.out = <<>> /\ q.acks = Tail(client.acks)
      BY <2>1, <2>2, <2>6, <2>8 DEF Differs, Same
    <3> HIDE DEF u, v, s, a
    <3>2. Acts(s, u, q.acks, <<>>)
      BY <2>3, <3>1, NoFrames, ActsBy
    <3>3. Acts(s, u, Tail(client.acks), <<>>)
      BY <3>1, <3>2
    <3> QED
      BY <1>4, <2>2, <2>8, <3>3 DEF u, v, s, a
  <2> QED
    BY <2>7, <2>8
<1> QED
  BY <1>3, <1>4

(* A frame that names a channel is for the surface that has it, if any. *)
LEMMA NamedIs ==
  ASSUME Typed, ClientReads, NEW f, f = Head(down), f.kind \in {"snapshot", "output", "exit"}
  PROVE  \/ Rests /\ \A s \in Surfaces : client.view[s].chan # f.chan
         \/ \E s \in Surfaces :
               /\ client.view[s].chan = f.chan
               /\ Sends(CASE f.kind = "snapshot" -> OnSnapshot(client, s, f)
                          [] f.kind = "output" -> OnOutput(client, s, f)
                          [] f.kind = "exit" -> [client EXCEPT !.view[s].ended = TRUE])
<1> DEFINE at == {s \in Surfaces : client.view[s].chan = f.chan}
           s == CHOOSE t \in at : TRUE
<1>1. Sends(Handled(client, f))
  BY ReadsIs
<1>2. CASE at = {}
  <2>1. Handled(client, f) = client
    BY <1>2 DEF Handled
  <2> QED
    BY <1>1, <1>2, <2>1, RestsIs
<1>3. CASE at # {}
  <2>1. s \in at
    BY <1>3
  <2>2. Handled(client, f) = CASE f.kind = "snapshot" -> OnSnapshot(client, s, f)
                               [] f.kind = "output" -> OnOutput(client, s, f)
                               [] f.kind = "exit" -> [client EXCEPT !.view[s].ended = TRUE]
    <3>1. CASE f.kind = "snapshot"
      BY <1>3, <3>1 DEF Handled
    <3>2. CASE f.kind = "output"
      BY <1>3, <3>2 DEF Handled
    <3>3. CASE f.kind = "exit"
      BY <1>3, <3>3 DEF Handled
    <3> QED
      BY <3>1, <3>2, <3>3
  <2> QED
    BY <1>1, <2>1, <2>2
<1> QED
  BY <1>2, <1>3

TakenView(v, f) == [v EXCEPT !.phase = "live", !.rev = f.rev, !.expected = f.offset, !.shown = f.screen]

LEMMA SnapshotIs ==
  ASSUME Typed, ClientReads, NEW f, f = Head(down), f.kind = "snapshot"
  PROVE  \/ Rests /\ \A s \in Surfaces :
                        client.view[s].chan = f.chan => \E t \in Surfaces :
                            /\ client.view[t].chan = f.chan
                            /\ client.view[t].phase = "live" /\ f.rev < client.view[t].rev
         \/ \E s \in Surfaces :
               /\ client.view[s].chan = f.chan
               /\ Acts(s, TakenView(client.view[s], f), client.acks, <<>>)
<1>1. f \in SnapshotFrame /\ client \in Client /\ client.out = <<>>
  BY ReadsIs DEF DownFrame, AckFrame, ErrorFrame, OutputFrame, SnapshotFrame, ExitFrame, ClosedFrame
<1>2. CASE Rests /\ \A s \in Surfaces : client.view[s].chan # f.chan
  BY <1>2
<1>3. ASSUME NEW s \in Surfaces, client.view[s].chan = f.chan, Sends(OnSnapshot(client, s, f))
      PROVE  \/ Rests /\ client.view[s].phase = "live" /\ f.rev < client.view[s].rev
             \/ Acts(s, TakenView(client.view[s], f), client.acks, <<>>)
  <2> DEFINE v == client.view[s]
             u == TakenView(v, f)
             c == [client EXCEPT !.view[s] = u]
  <2>1. v \in View /\ client.view \in [Surfaces -> View]
    BY <1>1 DEF Client
  <2>2. u \in View
    BY <1>1, <2>1 DEF TakenView, View, SnapshotFrame
  <2>3. CASE v.phase = "live" /\ f.rev < v.rev
    BY <1>3, <2>3, RestsIs DEF OnSnapshot
  <2>4. CASE ~(v.phase = "live" /\ f.rev < v.rev)
    <3>1. Sends(c)
      BY <1>1, <1>3, <2>1, <2>4 DEF OnSnapshot, TakenView, Client
    <3>2. Differs(client, c, s, u) /\ c.acks = client.acks /\ c.out = <<>>
      BY <1>1, <2>2, ViewIs
    <3> HIDE DEF c, u
    <3>3. Acts(s, u, c.acks, <<>>)
      BY <3>1, <3>2, NoFrames, ActsBy
    <3> QED
      BY <3>2, <3>3 DEF u
  <2> QED
    BY <2>3, <2>4
<1>4. \/ Rests /\ \A s \in Surfaces : client.view[s].chan # f.chan
      \/ \E s \in Surfaces : client.view[s].chan = f.chan /\ Sends(OnSnapshot(client, s, f))
  BY NamedIs
<1> QED
  BY <1>2, <1>3, <1>4

WrittenView(v, f) == [v EXCEPT !.rev = f.rev, !.expected = f.chunk, !.shown = @ \cup {f.chunk}]

LEMMA OutputIs ==
  ASSUME Typed, ClientReads, NEW f, f = Head(down), f.kind = "output"
  PROVE  \/ Rests /\ \A s \in Surfaces : client.view[s].chan # f.chan
         \/ \E s \in Surfaces :
               LET v == client.view[s] IN
               /\ v.chan = f.chan
               /\ IF v.phase # "live" \/ f.rev < v.rev THEN Rests
                  ELSE IF f.chunk = v.expected + 1 THEN Acts(s, WrittenView(v, f), client.acks, <<>>)
                  ELSE IF f.rev = v.rev /\ f.chunk <= v.expected THEN Rests
                  ELSE IF v.visible
                  THEN Acts(s, Asking(Shut(v)), Append(client.acks, AskOf(s, v)),
                            UnsubscribeOf(v) \o <<SubscribeOf(s, v)>>)
                  ELSE Acts(s, Shut(v), client.acks, UnsubscribeOf(v))
<1>1. f \in OutputFrame /\ client \in Client /\ client.out = <<>>
  BY ReadsIs DEF DownFrame, AckFrame, ErrorFrame, OutputFrame, SnapshotFrame, ExitFrame, ClosedFrame
<1>2. ASSUME NEW s \in Surfaces, client.view[s].chan = f.chan, Sends(OnOutput(client, s, f))
      PROVE  LET v == client.view[s] IN
               IF v.phase # "live" \/ f.rev < v.rev THEN Rests
               ELSE IF f.chunk = v.expected + 1 THEN Acts(s, WrittenView(v, f), client.acks, <<>>)
               ELSE IF f.rev = v.rev /\ f.chunk <= v.expected THEN Rests
               ELSE IF v.visible
               THEN Acts(s, Asking(Shut(v)), Append(client.acks, AskOf(s, v)),
                         UnsubscribeOf(v) \o <<SubscribeOf(s, v)>>)
               ELSE Acts(s, Shut(v), client.acks, UnsubscribeOf(v))
  <2> DEFINE v == client.view[s]
             u == WrittenView(v, f)
             c == [client EXCEPT !.view[s] = u]
             closed == CloseChannel(client, s)
             d == SendSubscribe(closed, s)
  <2>1. v \in View /\ client.view \in [Surfaces -> View]
    BY <1>1 DEF Client
  <2>2. u \in View
    BY <1>1, <2>1 DEF WrittenView, View, OutputFrame
  <2>3. CASE v.phase # "live" \/ f.rev < v.rev
    BY <1>2, <2>3, RestsIs DEF OnOutput
  <2>4. CASE ~(v.phase # "live" \/ f.rev < v.rev) /\ f.chunk = v.expected + 1
    <3>1. Sends(c)
      BY <1>1, <1>2, <2>1, <2>4 DEF OnOutput, WrittenView
    <3>2. Differs(client, c, s, u) /\ c.acks = client.acks /\ c.out = <<>>
      BY <1>1, <2>2, ViewIs
    <3> HIDE DEF c, u
    <3>3. Acts(s, u, c.acks, <<>>)
      BY <3>1, <3>2, NoFrames, ActsBy
    <3> QED
      BY <2>4, <3>2, <3>3 DEF u
  <2>5. CASE ~(v.phase # "live" \/ f.rev < v.rev) /\ f.chunk # v.expected + 1
             /\ f.rev = v.rev /\ f.chunk <= v.expected
    BY <1>2, <2>5, RestsIs DEF OnOutput
  <2>6. CASE ~(v.phase # "live" \/ f.rev < v.rev) /\ f.chunk # v.expected + 1
             /\ ~(f.rev = v.rev /\ f.chunk <= v.expected)
    <3>1. Sends(IF v.visible THEN d ELSE closed)
      BY <1>2, <2>6 DEF OnOutput
    <3>2. /\ Differs(client, closed, s, Shut(v)) /\ Shut(v) \in View /\ closed.acks = client.acks
          /\ closed.out = IF client.ws = None \/ v.chan = None THEN client.out
                          ELSE Append(client.out, Unsubscribe(v.chan))
      BY <1>1, CloseChannelIs
    <3> HIDE DEF closed
    <3>3. closed \in Client /\ closed.view[s] = Shut(v) /\ closed.ws = client.ws
      BY <3>2 DEF Differs, Same
    <3>4. UnsubscribeOf(v) \in Seq(UpFrame) /\ (client.ws # None => closed.out = UnsubscribeOf(v))
      BY <1>1, <2>1, <3>2, UnsubscribeIn DEF UnsubscribeOf
    <3>5. CASE v.visible
      <4> DEFINE x == Shut(v)
      <4>1. /\ Differs(closed, d, s, Asking(x)) /\ d.acks = Append(closed.acks, Asked(closed, s))
            /\ d.out = IF closed.ws = None THEN closed.out ELSE Append(closed.out, Subscription(closed, s))
        BY <3>3, SendSubscribeIs
      <4>2. x.mount = v.mount /\ x.size = v.size
        BY <2>1 DEF View, Shut
      <4>3. Asked(closed, s) = AskOf(s, v) /\ Subscription(closed, s) = SubscribeOf(s, v)
        BY <3>3, <4>2 DEF Asked, AskOf, Subscription, SubscribeOf
      <4>4. Sends(d)
        BY <3>1, <3>5
      <4> HIDE DEF d, x
      <4>5. Differs(client, d, s, Asking(x)) /\ d.acks = Append(client.acks, AskOf(s, v))
        BY <3>2, <4>1, <4>3 DEF Differs, Same, x
      <4>6. SubscribeOf(s, v) \in UpFrame
        BY <2>1, SubscribeIn
      <4> DEFINE o == UnsubscribeOf(v)
                 p == o \o <<SubscribeOf(s, v)>>
      <4> HIDE DEF o
      <4>7. p \in Seq(UpFrame) /\ p = Append(o, SubscribeOf(s, v))
        BY <3>4, <4>6 DEF o
      <4>8. client.ws # None => d.out = p
        BY <3>3, <3>4, <4>1, <4>3, <4>7 DEF o
      <4> HIDE DEF p, v
      <4>9. Acts(s, Asking(x), d.acks, p)
        BY <4>4, <4>5, <4>7, <4>8, ActsBy
      <4>10. Acts(s, Asking(Shut(v)), Append(client.acks, AskOf(s, v)), UnsubscribeOf(v) \o <<SubscribeOf(s, v)>>)
        BY <4>5, <4>9 DEF x, p, o
      <4> QED
        BY <2>6, <3>5, <4>10 DEF v
    <3>6. CASE ~v.visible
      <4>1. Sends(closed)
        BY <3>1, <3>6
      <4> HIDE DEF v
      <4>2. Acts(s, Shut(v), closed.acks, UnsubscribeOf(v))
        BY <3>2, <3>4, <4>1, ActsBy
      <4>3. Acts(s, Shut(v), client.acks, UnsubscribeOf(v))
        BY <3>2, <4>2
      <4> QED
        BY <2>6, <3>6, <4>3 DEF v
    <3> QED
      BY <3>5, <3>6
  <2> QED
    BY <2>3, <2>4, <2>5, <2>6
<1>3. \/ Rests /\ \A s \in Surfaces : client.view[s].chan # f.chan
      \/ \E s \in Surfaces : client.view[s].chan = f.chan /\ Sends(OnOutput(client, s, f))
  BY NamedIs
<1> QED
  BY <1>2, <1>3

LEMMA ExitIs ==
  ASSUME Typed, ClientReads, NEW f, f = Head(down), f.kind = "exit"
  PROVE  \/ Rests /\ \A s \in Surfaces : client.view[s].chan # f.chan
         \/ \E s \in Surfaces :
               /\ client.view[s].chan = f.chan
               /\ Acts(s, [client.view[s] EXCEPT !.ended = TRUE], client.acks, <<>>)
<1>1. client \in Client /\ client.out = <<>>
  BY ReadsIs
<1>2. ASSUME NEW s \in Surfaces, client.view[s].chan = f.chan,
             Sends([client EXCEPT !.view[s].ended = TRUE])
      PROVE  Acts(s, [client.view[s] EXCEPT !.ended = TRUE], client.acks, <<>>)
  <2> DEFINE v == client.view[s]
             u == [v EXCEPT !.ended = TRUE]
             c == [client EXCEPT !.view[s] = u]
  <2>1. v \in View /\ client.view \in [Surfaces -> View]
    BY <1>1 DEF Client
  <2>2. u \in View
    BY <2>1 DEF View
  <2>3. Sends(c)
    BY <1>1, <1>2, <2>1 DEF Client
  <2>4. Differs(client, c, s, u) /\ c.acks = client.acks /\ c.out = <<>>
    BY <1>1, <2>2, ViewIs
  <2> HIDE DEF c, u
  <2>5. Acts(s, u, c.acks, <<>>)
    BY <2>3, <2>4, NoFrames, ActsBy
  <2> QED
    BY <2>4, <2>5 DEF u
<1>3. \/ Rests /\ \A s \in Surfaces : client.view[s].chan # f.chan
      \/ \E s \in Surfaces : client.view[s].chan = f.chan /\ Sends([client EXCEPT !.view[s].ended = TRUE])
  BY NamedIs
<1> QED
  BY <1>2, <1>3

(* The socket is gone. *)
Forgets ==
  /\ client' \in Client /\ client'.out = <<>> /\ client'.acks = <<>>
  /\ client'.ws = None /\ ~client'.broken
  /\ client'.made = client.made /\ client'.mounts = client.mounts
  /\ \A t \in Surfaces :
        client'.view[t] = IF client.view[t].mount # 0 THEN ForgottenView(client.view[t]) ELSE client.view[t]
  /\ up' = up

LEMMA ClosedIs ==
  ASSUME Typed, ClientReads, NEW f, f = Head(down), f.kind = "closed"
  PROVE  Forgets
<1> DEFINE q == Forgotten(client)
<1>1. f \in DownFrame /\ Sends(Handled(client, f)) /\ client \in Client /\ client.out = <<>>
  BY ReadsIs
<1>2. Sends(q)
  BY <1>1 DEF Handled
<1>3. /\ q \in Client /\ q.ws = None /\ q.made = client.made /\ ~q.broken /\ q.mounts = client.mounts
      /\ q.acks = <<>> /\ q.out = client.out
      /\ \A t \in Surfaces :
            q.view[t] = IF client.view[t].mount # 0 THEN ForgottenView(client.view[t]) ELSE client.view[t]
  BY <1>1, ForgottenIs
<1> HIDE DEF q
<1>4. up' = up /\ client' = [q EXCEPT !.out = <<>>]
  BY <1>2, <1>3 DEF Sends
<1>5. /\ client' \in Client /\ client'.ws = q.ws /\ client'.made = q.made /\ client'.broken = q.broken
      /\ client'.mounts = q.mounts /\ client'.acks = q.acks /\ client'.view = q.view /\ client'.out = <<>>
  BY <1>3, <1>4, NoFrames DEF Client
<1> QED
  BY <1>3, <1>4, <1>5 DEF Forgets
-----------------------------------------------------------------------------
(* A new socket. *)
Visible == {s \in Surfaces : client.view[s].mount # 0 /\ client.view[s].visible}
Lists(q) ==
  /\ q \in Seq(Surfaces) /\ Len(q) \in Nat
  /\ \A i \in 1..Len(q) : q[i] \in Visible
  /\ \A i, j \in 1..Len(q) : i # j => q[i] # q[j]
  /\ \A s \in Visible : \E i \in 1..Len(q) : q[i] = s
Opens(q) ==
  LET w == client.made + 1
      asked == [i \in 1..Len(q) |-> AskOf(q[i], client.view[q[i]])]
      frames == [i \in 1..Len(q) |-> SubscribeOf(q[i], client.view[q[i]])]
  IN  /\ client.ws = None /\ ~client.broken /\ w <= Len(up) /\ client.acks = <<>>
      /\ client' \in Client /\ client'.out = <<>>
      /\ client'.ws = w /\ client'.made = w /\ ~client'.broken
      /\ client'.mounts = client.mounts
      /\ asked \in Seq(Ask) /\ client'.acks = asked
      /\ \A s \in Surfaces :
            client'.view[s] = IF s \in Visible THEN Asking(client.view[s]) ELSE client.view[s]
      /\ frames \in Seq(UpFrame)
      /\ up' \in Seq(Seq(UpFrame)) /\ Len(up') = Len(up)
      /\ \A x \in 1..Len(up) : up'[x] = IF x = w THEN up[x] \o frames ELSE up[x]

LEMMA ConnectIs ==
  ASSUME Typed, Socketed, Awaited, Connect
  PROVE  \E q : Lists(q) /\ Opens(q)
<1> DEFINE w == client.made + 1
           key == [s \in Surfaces |-> client.view[s].mount]
           q == InOrder(Visible, key)
           asked == [i \in 1..Len(q) |-> AskOf(q[i], client.view[q[i]])]
           frames == [i \in 1..Len(q) |-> SubscribeOf(q[i], client.view[q[i]])]
           look == [s \in Surfaces |-> IF s \in Visible THEN Asking(client.view[s]) ELSE client.view[s]]
           c == [client EXCEPT !.ws = w, !.made = w, !.acks = asked, !.view = look, !.out = frames]
<1>1. /\ client \in Client /\ client.made \in Nat /\ client.out = <<>> /\ client.acks = <<>>
      /\ client.ws = None /\ ~client.broken /\ w <= Len(up) /\ up \in Seq(Seq(UpFrame)) /\ w \in 1..Len(up)
      /\ client.view \in [Surfaces -> View]
  BY DEF Typed, Client, Connect, Socketed
<1>2. \A s \in Surfaces : client.view[s].mount \in Nat /\ client.view[s] \in View
  BY <1>1, ViewFields DEF View
<1>3. \A s, t \in Visible : key[s] = key[t] => s = t
  BY <1>2 DEF Visible, Awaited
<1>4. IsFiniteSet(Visible) /\ Visible \subseteq Surfaces
  BY ViewAssumption, FS_Subset DEF Visible
<1>5. q = Showing(client)
  BY DEF Showing, Mounted, Visible
<1>6. /\ q \in Seq(Visible) /\ Len(q) = Cardinality(Visible) /\ Enumerates(q, Visible, key)
      /\ \A s \in Visible : \E i \in 1..Len(q) : q[i] = s
  <2>1. \A s \in Visible : key[s] \in Nat
    BY <1>2, <1>4
  <2> HIDE DEF key
  <2> QED
    BY <1>3, <1>4, <2>1, InOrderIs
<1> HIDE DEF q
<1>7. Lists(q)
  <2>1. q \in Seq(Surfaces) /\ Len(q) \in Nat /\ \A i \in 1..Len(q) : q[i] \in Visible
    BY <1>4, <1>6, SeqIn
  <2>2. ASSUME NEW i \in 1..Len(q), NEW j \in 1..Len(q), i < j
        PROVE  q[i] # q[j]
    <3>1. key[q[i]] < key[q[j]]
      BY <1>6, <2>2 DEF Enumerates
    <3>2. q[i] \in Surfaces /\ key[q[i]] \in Nat
      BY <1>2, <1>4, <2>1
    <3> QED
      BY <3>1, <3>2
  <2>3. \A i, j \in 1..Len(q) : i # j => i < j \/ j < i
    BY <2>1
  <2> QED
    BY <1>6, <2>1, <2>2, <2>3 DEF Lists
<1>8. asked \in Seq(Ask) /\ frames \in Seq(UpFrame) /\ look \in [Surfaces -> View]
  <2>1. \A i \in 1..Len(q) : q[i] \in Surfaces
    BY <1>4, <1>7 DEF Lists
  <2>2. \A s \in Surfaces : /\ AskOf(s, client.view[s]) \in Ask /\ SubscribeOf(s, client.view[s]) \in UpFrame
                            /\ Asking(client.view[s]) \in View
    BY <1>2, SubscribeIn
  <2>3. \A i \in 1..Len(q) : AskOf(q[i], client.view[q[i]]) \in Ask /\ SubscribeOf(q[i], client.view[q[i]]) \in UpFrame
    BY <2>1, <2>2
  <2>4. asked \in Seq(Ask) /\ frames \in Seq(UpFrame)
    BY <1>7, <2>3 DEF Lists
  <2>5. look \in [Surfaces -> View]
    BY <1>2, <2>2
  <2> QED
    BY <2>4, <2>5
<1>9. Sends(c)
  <2> DEFINE all == Showing(client)
             a == [i \in 1..Len(all) |-> Asked(client, all[i])]
             b == [i \in 1..Len(all) |-> Subscription(client, all[i])]
             l == [s \in Surfaces |-> IF s \in ToSet(all) THEN Asking(client.view[s]) ELSE client.view[s]]
  <2>1. Sends([client EXCEPT !.ws = w, !.made = @ + 1, !.acks = @ \o a,
                    !.view = [s \in Surfaces |-> IF s \in ToSet(all) THEN Asking(@[s]) ELSE @[s]],
                    !.out = @ \o b])
    BY DEF Connect
  <2>2. a = asked /\ b = frames
    BY <1>5 DEF Asked, AskOf, Subscription, SubscribeOf
  <2>3. ToSet(all) = Visible
    BY <1>5, <1>7 DEF Lists, ToSet
  <2>4. l = look
    BY <2>3
  <2>5. client.acks \o a = asked /\ client.out \o b = frames
    BY <1>1, <1>8, <2>2
  <2> HIDE DEF a, b, look, asked, frames, all
  <2>6. Sends([client EXCEPT !.ws = w, !.made = @ + 1, !.acks = @ \o a, !.view = l, !.out = @ \o b])
    BY <2>1
  <2>7. [client EXCEPT !.ws = w, !.made = @ + 1, !.acks = @ \o a, !.view = l, !.out = @ \o b] = c
    BY <1>1, <2>4, <2>5 DEF Client
  <2> QED
    BY <2>6, <2>7
<1> HIDE DEF asked, frames, look
<1>10. /\ c \in Client /\ c.ws = w /\ c.made = w /\ ~c.broken /\ c.mounts = client.mounts
       /\ c.acks = asked /\ c.view = look /\ c.out = frames
  <2>1. w \in Nat
    BY <1>1
  <2> HIDE DEF w
  <2>2. /\ c.ws = w /\ c.made = w /\ c.broken = client.broken /\ c.mounts = client.mounts
        /\ c.acks = asked /\ c.view = look /\ c.out = frames
    BY <1>1 DEF Client
  <2>3. c \in Client
    BY <1>1, <1>8, <2>1 DEF Client
  <2> QED
    BY <1>1, <2>2, <2>3
<1> HIDE DEF c
<1>11. client' = [c EXCEPT !.out = <<>>] /\ up' = [up EXCEPT ![w] = @ \o frames]
  BY <1>1, <1>9, <1>10 DEF Sends, None
<1>12. /\ client' \in Client /\ client'.ws = w /\ client'.made = w /\ ~client'.broken
       /\ client'.mounts = client.mounts /\ client'.acks = asked /\ client'.view = look /\ client'.out = <<>>
  BY <1>10, <1>11, NoFrames DEF Client
<1>13. up[w] \o frames \in Seq(UpFrame)
  <2>1. up[w] \in Seq(UpFrame)
    BY <1>1
  <2> QED
    BY <1>8, <2>1
<1>14. up' \in Seq(Seq(UpFrame)) /\ Len(up') = Len(up)
       /\ \A x \in 1..Len(up) : up'[x] = IF x = w THEN up[x] \o frames ELSE up[x]
  BY <1>1, <1>11, <1>13
<1>15. \A s \in Surfaces :
          client'.view[s] = IF s \in Visible THEN Asking(client.view[s]) ELSE client.view[s]
  BY <1>12 DEF look
<1>16. Opens(q)
  BY <1>1, <1>8, <1>12, <1>14, <1>15 DEF Opens, asked, frames
<1> QED
  BY <1>7, <1>16
-----------------------------------------------------------------------------
(* The steps of the holder, its link and the runtime's input.                 *)

LEMMA SpendsTyped ==
  ASSUME left \in Left, NEW what \in {"outputs", "exits", "cuts", "drops", "looks", "resizes"}, Spends(what)
  PROVE  left' \in Left
BY DEF Left, Spends

(* A step of the holder and its link that nobody is told of. *)
Quiet ==
  \/ Emit \/ ChildExits \/ HolderEnds \/ HolderResizes \/ LinkDrops \/ LinkEnds
  \/ Attach \/ Adopted \/ FinishRecovery

LEMMA RecoveringIn ==
  ASSUME link \in Link
  PROVE  Recovering \in Link /\ Recovering.state = "down" /\ Recovering.slot /\ Recovering.out = <<>>
         /\ Recovering.in = <<>> /\ Recovering.pend = link.pend
         /\ Recovering.lost = (link.lost \/ link.in # <<>>)
<1>1. <<>> \in Seq(Nat) /\ <<>> \in Seq(Sizes)
  OBVIOUS
<1>2. (link.lost \/ link.in # <<>>) \in BOOLEAN
  OBVIOUS
<1> DEFINE b == link.lost \/ link.in # <<>>
<1>3. Recovering = [link EXCEPT !.state = "down", !.slot = TRUE, !.out = <<>>, !.in = <<>>, !.lost = b]
  BY DEF Recovering
<1>4. b \in BOOLEAN
  BY <1>2
<1> HIDE DEF b
<1>5. LET q == [link EXCEPT !.state = "down", !.slot = TRUE, !.out = <<>>, !.in = <<>>, !.lost = b]
      IN  q \in Link /\ q.state = "down" /\ q.slot /\ q.out = <<>> /\ q.in = <<>> /\ q.pend = link.pend /\ q.lost = b
  BY <1>1, <1>4 DEF Link
<1> QED
  BY <1>3, <1>5 DEF b

LEMMA QuietIs ==
  ASSUME Typed, Quiet
  PROVE  /\ UNCHANGED <<up, down, client>>
         /\ runtime'.subs = runtime.subs /\ runtime'.life = runtime.life /\ runtime'.screen = runtime.screen
         /\ runtime'.next = runtime.next /\ runtime'.owner = runtime.owner /\ runtime'.rev = runtime.rev
         /\ runtime'.commanded = runtime.commanded
         /\ Typed'
<1>1. /\ holder \in Holder /\ link \in Link /\ runtime \in Runtime /\ left \in Left
      /\ link.out \in Seq(Nat) /\ link.in \in Seq(Sizes) /\ link.pend \in Sizes \cup {None}
      /\ holder.emitted \in Nat
  BY DEF Typed, Sound, Link, Holder
<1>2. UNCHANGED <<up, down, client>>
  BY DEF Quiet, Emit, ChildExits, HolderEnds, HolderResizes, LinkDrops, LinkEnds, Attach, Adopted, FinishRecovery
<1>3. left' \in Left
  BY <1>1, SpendsTyped DEF Quiet, Emit, ChildExits, HolderEnds, HolderResizes, LinkDrops, LinkEnds, Attach, Adopted, FinishRecovery
<1>4. holder' \in Holder
  <2>1. CASE HolderResizes
    <3>1. link.in # <<>> => Head(link.in) \in Sizes
      BY <1>1
    <3> DEFINE z == Head(link.in)
    <3>2. z \in Sizes /\ holder' = [holder EXCEPT !.pty = z]
      BY <2>1, <3>1 DEF HolderResizes
    <3> HIDE DEF z
    <3> QED
      BY <1>1, <3>2 DEF Holder
  <2>2. CASE Emit
    BY <1>1, <2>2 DEF Emit, Holder
  <2>3. CASE ChildExits
    BY <1>1, <2>3 DEF ChildExits, Holder
  <2>4. CASE HolderEnds
    BY <1>1, <2>4 DEF HolderEnds, Holder
  <2>5. CASE LinkDrops \/ LinkEnds \/ Attach \/ Adopted \/ FinishRecovery
    BY <1>1, <2>5 DEF LinkDrops, LinkEnds, Attach, Adopted, FinishRecovery
  <2> QED
    BY <2>1, <2>2, <2>3, <2>4, <2>5 DEF Quiet
<1>5. link' \in Link
  <2>1. CASE Emit
    <3>1. Append(link.out, holder.emitted + 1) \in Seq(Nat)
      BY <1>1
    <3> QED
      BY <1>1, <2>1, <3>1 DEF Emit, Link
  <2>2. CASE HolderResizes
    <3>1. Tail(link.in) \in Seq(Sizes)
      BY <1>1, <2>2 DEF HolderResizes
    <3> QED
      BY <1>1, <2>2, <3>1 DEF HolderResizes, Link
  <2>3. CASE LinkDrops \/ LinkEnds
    BY <1>1, <2>3, RecoveringIn DEF LinkDrops, LinkEnds
  <2>4. CASE FinishRecovery
    <3> DEFINE n == IF link.pend # None /\ runtime.life = "running" THEN Append(link.in, link.pend) ELSE link.in
    <3>1. n \in Seq(Sizes)
      BY <1>1
    <3>2. link' = [link EXCEPT !.slot = FALSE, !.pend = None, !.in = n]
      BY <2>4 DEF FinishRecovery
    <3> HIDE DEF n
    <3> QED
      BY <1>1, <3>1, <3>2 DEF Link
  <2>5. CASE Attach \/ Adopted
    BY <1>1, <2>5 DEF Attach, Adopted, Link
  <2>6. CASE ChildExits \/ HolderEnds
    BY <1>1, <2>6 DEF ChildExits, HolderEnds
  <2> QED
    BY <2>1, <2>2, <2>3, <2>4, <2>5, <2>6 DEF Quiet
<1>6. Sound(runtime') /\ runtime'.subs = runtime.subs /\ runtime'.life = runtime.life /\ runtime'.screen = runtime.screen
      /\ runtime'.next = runtime.next /\ runtime'.owner = runtime.owner /\ runtime'.rev = runtime.rev
      /\ runtime'.commanded = runtime.commanded
  <2>1. CASE Attach
    <3>1. <<None>> \in Seq(Nat)
      BY DEF None
    <3>2. runtime' = [runtime EXCEPT !.offset = holder.emitted, !.inbox = <<None>>]
      BY <2>1 DEF Attach
    <3> DEFINE z == <<None>>
    <3>3. z \in Seq(Nat) /\ runtime' = [runtime EXCEPT !.offset = holder.emitted, !.inbox = z]
      BY <3>1, <3>2
    <3> HIDE DEF z
    <3>4. runtime' \in Runtime /\ runtime'.subs = runtime.subs /\ runtime'.life = runtime.life /\ runtime'.screen = runtime.screen
          /\ runtime'.next = runtime.next /\ runtime'.owner = runtime.owner /\ runtime'.rev = runtime.rev
          /\ runtime'.commanded = runtime.commanded
      BY <1>1, <3>3 DEF Runtime
    <3> QED
      BY <3>4 DEF Typed, Sound
  <2>2. CASE ~Attach
    <3>1. runtime' = runtime
      BY <2>2 DEF Quiet, Emit, ChildExits, HolderEnds, HolderResizes, LinkDrops, LinkEnds, Adopted, FinishRecovery
    <3> QED
      BY <3>1 DEF Typed
  <2> QED
    BY <2>1, <2>2
<1>7. Typed'
  BY <1>2, <1>3, <1>4, <1>5, <1>6 DEF Typed
<1> QED
  BY <1>2, <1>6, <1>7

LEMMA LinkGoneIn == LinkGone \in Link /\ LinkGone.state = "closed" /\ ~LinkGone.slot /\ LinkGone.out = <<>>
<1>1. <<>> \in Seq(Nat) /\ <<>> \in Seq(Sizes)
  OBVIOUS
<1> QED
  BY <1>1 DEF LinkGone, Link, None

(* What the runtime tells. *)
Tells(frames) == frames \in Seq(DownFrame) /\ Len(frames) \in Nat /\ down' = down \o frames

LEMMA BaselinesIn ==
  ASSUME NEW b \in Seq(SnapshotFrame)
  PROVE  b \in Seq(DownFrame)
BY SeqIn DEF DownFrame

LEMMA TellsTyped ==
  ASSUME Typed, NEW t, Tells(t)
  PROVE  down' \in Seq(DownFrame)
BY JoinIs DEF Typed, Tells

(* A chunk arrives. *)
LEMMA ReceiveOutputIs ==
  ASSUME Typed, ReceiveOutput
  PROVE  LET k == Head(link.out)
             told == Reached(runtime, Channels \ Waiting(runtime))
             t == [i \in 1..Len(told) |-> Output(runtime, told[i], k)]
         IN  /\ link.state = "up" /\ link.out # <<>> /\ k \in Nat
             /\ runtime' = [runtime EXCEPT !.offset = k, !.inbox = Append(@, k)]
             /\ Sound(runtime') /\ runtime'.inbox = Append(runtime.inbox, k)
             /\ Steers([runtime EXCEPT !.inbox = Append(@, k), !.offset = k], runtime')
             /\ Tells(t) /\ Len(t) = Len(told)
             /\ told \in Seq(Nat) /\ Len(told) \in Nat
             /\ \A i \in 1..Len(told) : told[i] \in Channels /\ runtime.subs[told[i]].ready /\ Reaches(runtime.subs[told[i]].ws)
             /\ \A c \in Channels : runtime.subs[c].ready /\ Reaches(runtime.subs[c].ws) => \E i \in 1..Len(told) : told[i] = c
             /\ link' = [link EXCEPT !.out = Tail(@)] /\ link' \in Link
             /\ UNCHANGED <<holder, up, client, left>>
             /\ Typed'
<1> DEFINE k == Head(link.out)
           S == Channels \ Waiting(runtime)
           told == Reached(runtime, S)
           t == [i \in 1..Len(told) |-> Output(runtime, told[i], k)]
           n == Append(runtime.inbox, k)
           l == Tail(link.out)
<1>1. /\ link \in Link /\ runtime \in Runtime /\ Sound(runtime) /\ link.out \in Seq(Nat) /\ link.out # <<>>
      /\ runtime.inbox \in Seq(Nat) /\ link.state = "up"
  BY DEF Typed, Sound, Link, ReceiveOutput, Runtime
<1>2. k \in Nat /\ n \in Seq(Nat) /\ l \in Seq(Nat)
  BY <1>1
<1>3. runtime' = [runtime EXCEPT !.offset = k, !.inbox = n] /\ link' = [link EXCEPT !.out = l]
      /\ down' = down \o t /\ UNCHANGED <<holder, up, client, left>>
  BY DEF ReceiveOutput, ToBrowser
<1>4. S \subseteq DOMAIN runtime.subs /\ \A c \in Channels : c \in S <=> runtime.subs[c].ready
  BY DEF Waiting, Channels
<1>5. /\ told \in Seq(Nat) /\ Len(told) \in Nat
      /\ \A i \in 1..Len(told) : told[i] \in S /\ Reaches(runtime.subs[told[i]].ws)
      /\ \A c \in S : Reaches(runtime.subs[c].ws) => \E i \in 1..Len(told) : told[i] = c
  <2> HIDE DEF S
  <2> QED
    BY <1>1, <1>4, ReachedIs
<1>6. t \in Seq(DownFrame) /\ Len(t) = Len(told)
  <2>1. \A i \in 1..Len(told) : told[i] \in Nat /\ runtime.rev \in Nat
    BY <1>1, <1>5 DEF Runtime
  <2>2. \A i \in 1..Len(told) : Output(runtime, told[i], k) \in DownFrame
    BY <1>2, <2>1 DEF Output, OutputFrame, DownFrame
  <2> HIDE DEF told
  <2> QED
    BY <1>5, <2>2
<1>7. /\ runtime' \in Runtime /\ runtime'.subs = runtime.subs /\ runtime'.next = runtime.next
      /\ runtime'.inbox = n
  <2> HIDE DEF n, k
  <2> QED
    BY <1>1, <1>2, <1>3 DEF Runtime
<1>8. Sound(runtime')
  BY <1>1, <1>7 DEF Sound
<1>9. link' \in Link
  <2> HIDE DEF l
  <2> QED
    BY <1>1, <1>2, <1>3 DEF Link
<1>10. Tells(t)
  BY <1>3, <1>5, <1>6 DEF Tells
<1>11. Typed'
  BY <1>3, <1>8, <1>9, <1>10, TellsTyped DEF Typed
<1>12. Steers(runtime', runtime')
  BY <1>7 DEF Steers, Runtime
<1> HIDE DEF told, t
<1>13. \A i \in 1..Len(told) : told[i] \in Channels /\ runtime.subs[told[i]].ready /\ Reaches(runtime.subs[told[i]].ws)
  BY <1>4, <1>5
<1>14. \A c \in Channels : runtime.subs[c].ready /\ Reaches(runtime.subs[c].ws) => \E i \in 1..Len(told) : told[i] = c
  BY <1>4, <1>5
<1> QED
  BY <1>1, <1>2, <1>3, <1>5, <1>6, <1>7, <1>8, <1>9, <1>10, <1>11, <1>12, <1>13, <1>14 DEF told, t
-----------------------------------------------------------------------------
(* The runtime catches up, and the session ends.                              *)

(* What the runtime remembers of a write it parses. *)
Parsed == [runtime EXCEPT !.inbox = Tail(@), !.screen = @ \cup ({Head(runtime.inbox)} \ {None})]

LEMMA ParsedIs ==
  ASSUME Typed, runtime.inbox # <<>>
  PROVE  LET q == Parsed
         IN  /\ Sound(q) /\ q.inbox = Tail(runtime.inbox)
             /\ q.screen = runtime.screen \cup ({Head(runtime.inbox)} \ {None})
             /\ q.offset = runtime.offset /\ q.subs = runtime.subs /\ q.next = runtime.next
             /\ q.owner = runtime.owner /\ q.commanded = runtime.commanded /\ q.rev = runtime.rev
             /\ q.life = runtime.life
<1> DEFINE n == Tail(runtime.inbox)
           z == runtime.screen \cup ({Head(runtime.inbox)} \ {None})
<1>1. runtime \in Runtime /\ Sound(runtime) /\ runtime.inbox \in Seq(Nat) /\ runtime.screen \subseteq Nat
  BY DEF Typed, Sound, Runtime
<1>2. n \in Seq(Nat) /\ z \subseteq Nat
  BY <1>1
<1>3. Parsed = [runtime EXCEPT !.inbox = n, !.screen = z]
  BY DEF Parsed
<1> HIDE DEF n, z
<1>4. LET q == [runtime EXCEPT !.inbox = n, !.screen = z]
      IN  /\ q \in Runtime /\ q.inbox = n /\ q.screen = z
          /\ q.offset = runtime.offset /\ q.subs = runtime.subs /\ q.next = runtime.next
          /\ q.owner = runtime.owner /\ q.commanded = runtime.commanded /\ q.rev = runtime.rev
          /\ q.life = runtime.life
  BY <1>1, <1>2 DEF Runtime
<1> QED
  BY <1>1, <1>3, <1>4 DEF Sound, n, z

Living(life) == [runtime EXCEPT !.life = life]

LEMMA LivingIs ==
  ASSUME NEW r, Sound(r), NEW life \in Lives
  PROVE  LET q == [r EXCEPT !.life = life]
         IN  /\ Sound(q) /\ q.inbox = r.inbox /\ q.screen = r.screen
             /\ q.offset = r.offset /\ q.subs = r.subs /\ q.next = r.next
             /\ q.owner = r.owner /\ q.commanded = r.commanded /\ q.rev = r.rev
             /\ q.life = life
<1>1. r \in Runtime
  BY DEF Sound
<1>2. LET q == [r EXCEPT !.life = life]
      IN  /\ q \in Runtime /\ q.inbox = r.inbox /\ q.screen = r.screen
          /\ q.offset = r.offset /\ q.subs = r.subs /\ q.next = r.next
          /\ q.owner = r.owner /\ q.commanded = r.commanded /\ q.rev = r.rev
          /\ q.life = life
  BY <1>1 DEF Runtime
<1> QED
  BY <1>2 DEF Sound

(* The runtime after an exit that is told: r is what it was before. *)
LEMMA EndsIs ==
  ASSUME NEW r, Sound(r), Ends(r)
  PROVE  /\ Sound(runtime') /\ runtime'.life = "exited"
         /\ runtime'.inbox = r.inbox /\ runtime'.screen = r.screen /\ runtime'.offset = r.offset
         /\ runtime'.next = r.next /\ runtime'.owner = r.owner /\ runtime'.commanded = r.commanded
         /\ runtime'.rev = r.rev
         /\ DOMAIN runtime'.subs = DOMAIN r.subs
         /\ \A c \in DOMAIN r.subs : runtime'.subs[c] = [r.subs[c] EXCEPT !.ready = TRUE]
         /\ Owns(r) => Owns(runtime')
         /\ Tells(Farewells(r))
         /\ link' = LinkGone
<1> DEFINE e == [r EXCEPT !.life = "exited"]
<1>1. Sound(e) /\ e.inbox = r.inbox /\ e.screen = r.screen
      /\ e.offset = r.offset /\ e.subs = r.subs /\ e.next = r.next
      /\ e.owner = r.owner /\ e.commanded = r.commanded /\ e.rev = r.rev
      /\ e.life = "exited"
  BY LivingIs DEF Lives
<1>2. runtime' = Ready(e) /\ down' = down \o Farewells(r) /\ link' = LinkGone
  BY DEF Ends, ToBrowser
<1> HIDE DEF e
<1>3. LET q == Ready(e)
      IN  /\ Sound(q) /\ Steers(e, q) /\ q.next = e.next /\ q.owner = e.owner /\ q.rev = e.rev
          /\ q.commanded = e.commanded
          /\ DOMAIN q.subs = DOMAIN e.subs
          /\ \A c \in DOMAIN q.subs : q.subs[c] = [e.subs[c] EXCEPT !.ready = TRUE]
          /\ Owns(e) => Owns(q)
  BY <1>1, ReadyIs
<1>4. Tells(Farewells(r))
  BY <1>2, FarewellsIs DEF Tells
<1>5. Owns(r) => Owns(e)
  BY <1>1 DEF Owns
<1> QED
  BY <1>1, <1>2, <1>3, <1>4, <1>5 DEF Steers

(* Before a step r becomes what those who wait are told of, then the step      *)
(* ends the session (exit told), gives baselines, or tells nothing.           *)
Wakes(r) ==
  /\ Sound(runtime') /\ runtime'.life = r.life
  /\ runtime'.inbox = r.inbox /\ runtime'.screen = r.screen /\ runtime'.offset = r.offset
  /\ runtime'.next = r.next /\ runtime'.owner = r.owner /\ runtime'.commanded = r.commanded
  /\ runtime'.rev = r.rev
  /\ DOMAIN runtime'.subs = DOMAIN r.subs
  /\ \A c \in DOMAIN r.subs : runtime'.subs[c] = [r.subs[c] EXCEPT !.ready = TRUE]
  /\ Tells(Baselines(r))
  /\ Drained(r)

Untold == down' = down

LEMMA ParseIs ==
  ASSUME Typed, Parse, Owning
  PROVE  /\ runtime.inbox # <<>> /\ UNCHANGED <<holder, up, client, left>>
         /\ Typed' /\ Owning'
         /\ \/ ExitIsReady(Parsed) /\ Ends(Parsed)
            \/ ~ExitIsReady(Parsed) /\ Wakes(Parsed) /\ link' = link
            \/ ~ExitIsReady(Parsed) /\ ~Drained(Parsed) /\ runtime' = Parsed /\ Untold /\ link' = link
<1> DEFINE r == Parsed
<1>1. /\ runtime.inbox # <<>> /\ UNCHANGED <<holder, up, client, left>>
      /\ IF ExitIsReady(r) THEN Ends(r)
         ELSE /\ runtime' = IF Drained(r) THEN Ready(r) ELSE r
              /\ ToBrowser(IF Drained(r) THEN Baselines(r) ELSE <<>>)
              /\ UNCHANGED link
  BY DEF Parse, Parsed
<1>2. /\ Sound(r) /\ r.subs = runtime.subs /\ r.owner = runtime.owner /\ r.commanded = runtime.commanded
      /\ r.life = runtime.life
  BY <1>1, ParsedIs
<1>3. Owns(r)
  BY <1>2 DEF Owns, Owning
<1> HIDE DEF r
<1>4. CASE ExitIsReady(r)
  <2>1. Ends(r)
    BY <1>1, <1>4
  <2>2. Sound(runtime') /\ Owns(runtime') /\ Tells(Farewells(r)) /\ link' \in Link
    BY <1>2, <1>3, <2>1, EndsIs, LinkGoneIn
  <2>3. Typed' /\ Owning'
    BY <1>1, <2>2, TellsTyped DEF Typed, Owning
  <2> QED
    BY <1>1, <1>4, <2>1, <2>3 DEF r
<1>5. CASE ~ExitIsReady(r) /\ Drained(r)
  <2>1. runtime' = Ready(r) /\ down' = down \o Baselines(r) /\ link' = link
    BY <1>1, <1>5 DEF ToBrowser
  <2>2. LET q == Ready(r)
        IN  /\ Sound(q) /\ Steers(r, q) /\ q.next = r.next /\ q.owner = r.owner /\ q.rev = r.rev
            /\ q.commanded = r.commanded
            /\ DOMAIN q.subs = DOMAIN r.subs
            /\ \A c \in DOMAIN q.subs : q.subs[c] = [r.subs[c] EXCEPT !.ready = TRUE]
            /\ Owns(r) => Owns(q)
    BY <1>2, ReadyIs
  <2>3. Tells(Baselines(r))
    BY <1>2, <2>1, BaselinesIs, BaselinesIn DEF Tells
  <2>4. Wakes(r) /\ Owns(runtime')
    BY <1>3, <1>5, <2>1, <2>2, <2>3 DEF Wakes, Steers
  <2>5. Typed' /\ Owning'
    BY <1>1, <2>1, <2>3, <2>4, TellsTyped DEF Typed, Owning, Wakes
  <2> QED
    BY <1>1, <1>5, <2>1, <2>4, <2>5 DEF r
<1>6. CASE ~ExitIsReady(r) /\ ~Drained(r)
  <2>1. runtime' = r /\ down' = down \o <<>> /\ link' = link
    BY <1>1, <1>6 DEF ToBrowser
  <2>2. down' = down
    BY <2>1 DEF Typed
  <2>3. Typed' /\ Owning'
    BY <1>1, <1>2, <1>3, <2>1, <2>2 DEF Typed, Owning
  <2> QED
    BY <1>1, <1>6, <2>1, <2>2, <2>3 DEF r, Untold
<1> QED
  BY <1>4, <1>5, <1>6

LEMMA ExitObservedIs ==
  ASSUME Typed, ExitObserved, Owning
  PROVE  LET r == Living("draining") IN
         /\ holder.exited /\ runtime.life = "running" /\ UNCHANGED <<holder, up, client, left>>
         /\ Typed' /\ Owning'
         /\ \/ ExitIsReady(r) /\ Ends(r)
            \/ runtime' = r /\ Untold /\ link' = [link EXCEPT !.pend = None]
<1> DEFINE r == Living("draining")
<1>1. /\ holder.exited /\ runtime.life = "running" /\ UNCHANGED <<holder, up, client, left>>
      /\ IF ExitIsReady(r) THEN Ends(r)
         ELSE runtime' = r /\ link' = [link EXCEPT !.pend = None] /\ UNCHANGED down
  BY DEF ExitObserved, Living
<1>2. Sound(r) /\ r.subs = runtime.subs /\ r.owner = runtime.owner /\ r.commanded = runtime.commanded
  BY LivingIs DEF Living, Lives, Typed
<1>3. Owns(r)
  BY <1>2 DEF Owns, Owning
<1> HIDE DEF r
<1>4. CASE ExitIsReady(r)
  <2>1. Ends(r)
    BY <1>1, <1>4
  <2>2. Sound(runtime') /\ Owns(runtime') /\ Tells(Farewells(r)) /\ link' \in Link
    BY <1>2, <1>3, <2>1, EndsIs, LinkGoneIn
  <2>3. Typed' /\ Owning'
    BY <1>1, <2>2, TellsTyped DEF Typed, Owning
  <2> QED
    BY <1>1, <1>4, <2>1, <2>3 DEF r
<1>5. CASE ~ExitIsReady(r)
  <2>1. runtime' = r /\ link' = [link EXCEPT !.pend = None] /\ down' = down
    BY <1>1, <1>5
  <2>2. link' \in Link
    BY <2>1 DEF Typed, Link
  <2>3. Typed' /\ Owning'
    BY <1>1, <1>2, <1>3, <2>1, <2>2 DEF Typed, Owning
  <2> QED
    BY <1>1, <1>5, <2>1, <2>3 DEF r, Untold
<1> QED
  BY <1>4, <1>5

LEMMA ConfirmedAbsenceIs ==
  ASSUME Typed, ConfirmedAbsence
  PROVE  /\ link.slot /\ link.state = "down" /\ holder.gone /\ Drained(runtime)
         /\ UNCHANGED <<holder, up, client, left>>
         /\ Typed' /\ Owning'
         /\ link' = LinkGone
         /\ runtime'.life = "retired" /\ runtime'.subs = <<>> /\ runtime'.next = runtime.next
         /\ DOMAIN runtime'.subs = {}
         /\ runtime'.screen = runtime.screen /\ runtime'.inbox = runtime.inbox
         /\ runtime'.offset = runtime.offset /\ runtime'.rev = runtime.rev
         /\ IF runtime.life = "draining" THEN Tells(Farewells(runtime)) ELSE Untold
<1> DEFINE f == <<>>
<1>1. /\ link.slot /\ link.state = "down" /\ holder.gone /\ Drained(runtime)
      /\ UNCHANGED <<holder, up, client, left>> /\ link' = LinkGone
      /\ runtime' = [runtime EXCEPT !.life = "retired", !.subs = f, !.owner = None]
      /\ down' = down \o IF runtime.life = "draining" THEN Farewells(runtime) ELSE <<>>
  BY DEF ConfirmedAbsence, ToBrowser
<1>2. f \in SubsOf /\ DOMAIN f = {}
  <2>1. DOMAIN f = {} /\ f = [c \in {} |-> f[c]]
    OBVIOUS
  <2>2. f \in [{} -> Sub]
    BY <2>1
  <2> QED
    BY <2>1, <2>2 DEF SubsOf
<1> HIDE DEF f
<1>3. /\ runtime' \in Runtime /\ runtime'.life = "retired" /\ runtime'.subs = f /\ runtime'.next = runtime.next
      /\ runtime'.screen = runtime.screen /\ runtime'.inbox = runtime.inbox
      /\ runtime'.offset = runtime.offset /\ runtime'.rev = runtime.rev /\ runtime'.owner = None
  BY <1>1, <1>2 DEF Typed, Sound, Runtime, Lives, None
<1>4. Sound(runtime') /\ Owning'
  BY <1>2, <1>3 DEF Sound, Typed, Owning, Owns, None
<1>5. IF runtime.life = "draining" THEN Tells(Farewells(runtime)) ELSE Untold
  <2>1. CASE runtime.life = "draining"
    BY <1>1, <2>1, FarewellsIs DEF Tells, Typed
  <2>2. CASE runtime.life # "draining"
    BY <1>1, <2>2 DEF Typed, Untold
  <2> QED
    BY <2>1, <2>2
<1>6. down' \in Seq(DownFrame)
  BY <1>5, TellsTyped DEF Untold, Typed
<1>7. Typed'
  BY <1>1, <1>4, <1>6, LinkGoneIn DEF Typed
<1> QED
  BY <1>1, <1>2, <1>3, <1>4, <1>5, <1>7 DEF f
-----------------------------------------------------------------------------
(* The router reads a frame of a socket. *)

LEMMA ToldIs ==
  ASSUME Typed, NEW q, Steers(runtime, q), q.rev \in Nat
  PROVE  /\ Told(q) \in Link /\ Told(q).state = link.state /\ Told(q).slot = link.slot
         /\ Told(q).out = link.out
         /\ q.rev = runtime.rev => Told(q) = link
         /\ q.rev # runtime.rev /\ link.slot =>
               Told(q).in = link.in /\ Told(q).pend = q.commanded /\ ~Told(q).lost
         /\ q.rev # runtime.rev /\ ~link.slot /\ link.state = "up" =>
               Told(q).in = Append(link.in, q.commanded) /\ Told(q).pend = link.pend /\ ~Told(q).lost
         /\ q.rev # runtime.rev /\ ~link.slot /\ link.state # "up" => Told(q) = link
<1>1. link \in Link /\ link.in \in Seq(Sizes)
  BY DEF Typed, Link
<1>2. CASE q.rev = runtime.rev
  BY <1>1, <1>2 DEF Told
<1>3. CASE q.rev # runtime.rev
  <2>1. q.commanded \in Sizes
    BY <1>3 DEF Steers
  <2> DEFINE n == Append(link.in, q.commanded)
             z == q.commanded
  <2>2. n \in Seq(Sizes)
    BY <1>1, <2>1
  <2>3. CASE link.slot
    <3>1. Told(q) = [link EXCEPT !.pend = z, !.lost = FALSE]
      BY <1>3, <2>3 DEF Told
    <3>2. z \in Sizes
      BY <2>1
    <3> HIDE DEF z
    <3>3. LET x == [link EXCEPT !.pend = z, !.lost = FALSE]
          IN  x \in Link /\ x.state = link.state /\ x.slot = link.slot /\ x.out = link.out /\ x.in = link.in
              /\ x.pend = z /\ ~x.lost
      BY <1>1, <3>2 DEF Link
    <3> QED
      BY <1>3, <2>3, <3>1, <3>3 DEF z
  <2>4. CASE ~link.slot /\ link.state = "up"
    <3>1. Told(q) = [link EXCEPT !.in = n, !.lost = FALSE]
      BY <1>3, <2>4 DEF Told
    <3> HIDE DEF n
    <3>3. LET x == [link EXCEPT !.in = n, !.lost = FALSE]
          IN  x \in Link /\ x.state = link.state /\ x.slot = link.slot /\ x.out = link.out /\ x.in = n
              /\ x.pend = link.pend /\ ~x.lost
      BY <1>1, <2>2 DEF Link
    <3> QED
      BY <1>3, <2>4, <3>1, <3>3 DEF n
  <2>5. CASE ~link.slot /\ link.state # "up"
    BY <1>1, <1>3, <2>5 DEF Told
  <2> QED
    BY <2>3, <2>4, <2>5
<1> QED
  BY <1>2, <1>3

LEMMA SteersSame ==
  ASSUME NEW r, r.rev \in Nat
  PROVE  Steers(r, r)
BY DEF Steers

(* One frame is gone from socket w. *)
Takes(w, f) ==
  /\ w \in 1..Len(up) /\ up[w] # <<>> /\ f = Head(up[w]) /\ f \in UpFrame
  /\ up' = [up EXCEPT ![w] = Tail(@)]
  /\ up' \in Seq(Seq(UpFrame)) /\ Len(up') = Len(up)
  /\ \A x \in 1..Len(up) : up'[x] = IF x = w THEN Tail(up[x]) ELSE up[x]
  /\ UNCHANGED <<holder, client, left>>

(* What the router makes of it. *)
Leaving(chans) ==
  /\ DOMAIN runtime'.subs = Channels \ chans
  /\ \A c \in Channels \ chans : runtime'.subs[c] = runtime.subs[c]
  /\ runtime'.next = runtime.next
  /\ Untold
Joining(w, f) ==
  LET c == runtime.next IN
  /\ runtime.life = "running" /\ runtime'.next = c + 1
  /\ c \notin Channels /\ DOMAIN runtime'.subs = Channels \cup {c}
  /\ \A d \in Channels : runtime'.subs[d] = runtime.subs[d]
  /\ runtime'.subs[c].surf = f.surf /\ runtime'.subs[c].mount = f.mount /\ runtime'.subs[c].ws = w
  /\ runtime'.subs[c].size = f.size /\ (runtime'.subs[c].ready <=> Drained(runtime))
  /\ IF ~Reaches(w) THEN Untold
     ELSE IF Drained(runtime) THEN Tells(<<Ack(c), Snapshot(runtime', c)>>)
     ELSE Tells(<<Ack(c)>>)
Refusing(w) ==
  /\ runtime.life # "running"
  /\ runtime'.subs = runtime.subs /\ runtime'.next = runtime.next + 1
  /\ IF Reaches(w) THEN Tells(<<BadChannel>>) ELSE Untold
Resizing(f) ==
  /\ DOMAIN runtime'.subs = Channels /\ runtime'.next = runtime.next
  /\ \A d \in Channels : runtime'.subs[d] = IF d = f.chan THEN [runtime.subs[d] EXCEPT !.size = f.size]
                                            ELSE runtime.subs[d]
  /\ Untold

LEMMA RouterIs ==
  ASSUME Typed, Owning, NEW w \in Sockets, RouterReads(w)
  PROVE  LET f == Head(up[w]) IN
         /\ Takes(w, f)
         /\ Sound(runtime') /\ Steers(runtime, runtime') /\ Owning' /\ Typed'
         /\ link' = Told(runtime')
         /\ \/ f \in SubscribeFrame /\ (Joining(w, f) \/ Refusing(w))
            \/ f \in UnsubscribeFrame /\ Leaving({f.chan} \cap Owned(w))
            \/ /\ f \in ResizeFrame
               /\ IF f.chan \in Owned(w) /\ runtime.life = "running" THEN Resizing(f)
                  ELSE runtime' = runtime /\ Untold
            \/ f \in CloseFrame /\ Leaving(Owned(w))
<1> DEFINE f == Head(up[w])
<1>1. /\ w \in 1..Len(up) /\ up[w] # <<>> /\ up[w] \in Seq(UpFrame) /\ up \in Seq(Seq(UpFrame))
      /\ up' = [up EXCEPT ![w] = Tail(@)] /\ UNCHANGED <<holder, client, left>>
      /\ link' = Told(runtime')
  BY DEF Typed, RouterReads, Sockets
<1>2. f \in UpFrame /\ Tail(up[w]) \in Seq(UpFrame)
  BY <1>1
<1>3. up' \in Seq(Seq(UpFrame)) /\ Len(up') = Len(up)
      /\ \A x \in 1..Len(up) : up'[x] = IF x = w THEN Tail(up[x]) ELSE up[x]
  BY <1>1, <1>2
<1>4. Takes(w, f)
  BY <1>1, <1>2, <1>3 DEF Takes
<1>5. Sound(runtime) /\ runtime \in Runtime /\ Owns(runtime) /\ runtime.rev \in Nat /\ w \in Nat
  BY <1>1 DEF Typed, Sound, Owning, Runtime
<1>6. \/ /\ f.kind = "subscribe" /\ Subscribe(w, f)
      \/ /\ f.kind = "unsubscribe" /\ runtime' = Unsubscribed(runtime, {f.chan} \cap Owned(w)) /\ UNCHANGED down
      \/ /\ f.kind = "resize"
         /\ runtime' = IF f.chan \in Owned(w) /\ runtime.life = "running" THEN Resized(f) ELSE runtime
         /\ UNCHANGED down
      \/ /\ f.kind = "close" /\ runtime' = Unsubscribed(runtime, Owned(w)) /\ UNCHANGED down
  BY DEF RouterReads
<1> HIDE DEF f
<1>7. SUFFICES /\ Sound(runtime') /\ Steers(runtime, runtime') /\ Owns(runtime') /\ down' \in Seq(DownFrame)
               /\ \/ f \in SubscribeFrame /\ (Joining(w, f) \/ Refusing(w))
                  \/ f \in UnsubscribeFrame /\ Leaving({f.chan} \cap Owned(w))
                  \/ /\ f \in ResizeFrame
                     /\ IF f.chan \in Owned(w) /\ runtime.life = "running" THEN Resizing(f)
                        ELSE runtime' = runtime /\ Untold
                  \/ f \in CloseFrame /\ Leaving(Owned(w))
  <2>1. ASSUME Sound(runtime'), Steers(runtime, runtime'), Owns(runtime'), down' \in Seq(DownFrame)
        PROVE  Typed' /\ Owning'
    <3>1. runtime'.rev \in Nat
      BY <2>1 DEF Sound, Runtime
    <3>2. link' \in Link
      BY <1>1, <2>1, <3>1, ToldIs
    <3> QED
      BY <1>1, <1>3, <2>1, <3>2 DEF Typed, Owning
  <2> QED
    BY <1>1, <1>4, <2>1 DEF f
<1>8. CASE f.kind = "subscribe"
  <2>1. f \in SubscribeFrame /\ Subscribe(w, f)
    BY <1>2, <1>6, <1>8 DEF f, UpFrame, SubscribeFrame, UnsubscribeFrame, ResizeFrame, CloseFrame
  <2>2. CASE runtime.life = "running"
    <3> DEFINE c == runtime.next
               q == Subscribed(w, f).r
               t == Subscribed(w, f).frames
    <3>1. /\ Sound(q) /\ Steers(runtime, q) /\ Owns(q) /\ q.next = c + 1
          /\ DOMAIN q.subs = Channels \cup {c} /\ c \notin Channels
          /\ \A d \in Channels : q.subs[d] = runtime.subs[d]
          /\ q.subs[c].surf = f.surf /\ q.subs[c].mount = f.mount /\ q.subs[c].ws = w
          /\ q.subs[c].size = f.size /\ (q.subs[c].ready <=> Drained(runtime))
          /\ t \in Seq(DownFrame)
          /\ IF Drained(runtime) THEN t = <<Ack(c), Snapshot(q, c)>> ELSE t = <<Ack(c)>>
      BY <1>5, <2>1, SubscribedIs
    <3>2. runtime' = q /\ down' = down \o (IF Reaches(w) THEN t ELSE <<>>)
      BY <2>1, <2>2 DEF Subscribe, ToBrowser
    <3> HIDE DEF q, t
    <3>3. CASE Reaches(w)
      <4>1. Tells(t)
        BY <3>1, <3>2, <3>3 DEF Tells
      <4>2. IF Drained(runtime) THEN Tells(<<Ack(c), Snapshot(runtime', c)>>) ELSE Tells(<<Ack(c)>>)
        BY <3>1, <3>2, <4>1
      <4>3. Joining(w, f)
        BY <2>2, <3>1, <3>2, <3>3, <4>2 DEF Joining
      <4> QED
        BY <2>1, <3>1, <3>2, <4>1, <4>3, TellsTyped
    <3>4. CASE ~Reaches(w)
      <4>1. Untold /\ down' \in Seq(DownFrame)
        BY <3>2, <3>4 DEF Untold, Typed
      <4>2. Joining(w, f)
        BY <2>2, <3>1, <3>2, <3>4, <4>1 DEF Joining
      <4> QED
        BY <2>1, <3>1, <3>2, <4>1, <4>2
    <3> QED
      BY <3>3, <3>4
  <2>3. CASE runtime.life # "running"
    <3> DEFINE t == <<BadChannel>>
    <3>1. t \in Seq(DownFrame)
      <4>1. BadChannel \in DownFrame
        BY DEF BadChannel, ErrorFrame, DownFrame
      <4> QED
        BY <4>1
    <3>2. runtime' = [runtime EXCEPT !.next = @ + 1] /\ down' = down \o (IF Reaches(w) THEN t ELSE <<>>)
      BY <2>1, <2>3 DEF Subscribe, ToBrowser
    <3>3. Sound(runtime') /\ runtime'.subs = runtime.subs /\ runtime'.next = runtime.next + 1
          /\ Owns(runtime') /\ Steers(runtime, runtime')
      <4>1. /\ runtime' \in Runtime /\ runtime'.subs = runtime.subs /\ runtime'.next = runtime.next + 1
            /\ runtime'.owner = runtime.owner /\ runtime'.commanded = runtime.commanded
            /\ runtime'.rev = runtime.rev /\ runtime'.screen = runtime.screen /\ runtime'.inbox = runtime.inbox
            /\ runtime'.offset = runtime.offset /\ runtime'.life = runtime.life
        <5> DEFINE n == runtime.next + 1
        <5>1. n \in Nat /\ runtime' = [runtime EXCEPT !.next = n]
          BY <1>5, <3>2 DEF Runtime
        <5> HIDE DEF n
        <5>2. /\ runtime' \in Runtime /\ runtime'.subs = runtime.subs /\ runtime'.next = n
              /\ runtime'.owner = runtime.owner /\ runtime'.commanded = runtime.commanded
              /\ runtime'.rev = runtime.rev /\ runtime'.screen = runtime.screen /\ runtime'.inbox = runtime.inbox
              /\ runtime'.offset = runtime.offset /\ runtime'.life = runtime.life
          BY <1>5, <5>1 DEF Runtime
        <5> QED
          BY <5>2 DEF n
      <4>2. Sound(runtime')
        BY <1>5, <4>1 DEF Sound, Runtime
      <4> QED
        BY <1>5, <4>1, <4>2 DEF Owns, Steers
    <3> HIDE DEF t
    <3>4. CASE Reaches(w)
      <4>1. Tells(t)
        BY <3>1, <3>2, <3>4 DEF Tells
      <4>2. Refusing(w)
        BY <2>3, <3>3, <3>4, <4>1 DEF Refusing, t
      <4> QED
        BY <2>1, <3>3, <4>1, <4>2, TellsTyped
    <3>5. CASE ~Reaches(w)
      <4>1. Untold /\ down' \in Seq(DownFrame)
        BY <3>2, <3>5 DEF Untold, Typed
      <4>2. Refusing(w)
        BY <2>3, <3>3, <3>5, <4>1 DEF Refusing
      <4> QED
        BY <2>1, <3>3, <4>1, <4>2
    <3> QED
      BY <3>4, <3>5
  <2> QED
    BY <2>2, <2>3
<1>9. ASSUME NEW chans, runtime' = Unsubscribed(runtime, chans), down' = down
      PROVE  /\ Sound(runtime') /\ Steers(runtime, runtime') /\ Owns(runtime') /\ down' \in Seq(DownFrame)
             /\ Leaving(chans)
  <2>1. LET q == Unsubscribed(runtime, chans)
        IN  /\ Sound(q) /\ Steers(runtime, q) /\ Owns(q) /\ q.next = runtime.next
            /\ DOMAIN q.subs = DOMAIN runtime.subs \ chans
            /\ \A c \in DOMAIN q.subs : q.subs[c] = runtime.subs[c]
    BY <1>5, UnsubscribedIs
  <2> QED
    BY <1>9, <2>1 DEF Leaving, Untold, Typed, Channels
<1>10. CASE f.kind = "unsubscribe"
  <2>1. f \in UnsubscribeFrame
    BY <1>2, <1>10 DEF f, UpFrame, SubscribeFrame, UnsubscribeFrame, ResizeFrame, CloseFrame
  <2>2. runtime' = Unsubscribed(runtime, {f.chan} \cap Owned(w)) /\ down' = down
    BY <1>6, <1>10
  <2> QED
    BY <1>9, <2>1, <2>2
<1>11. CASE f.kind = "close"
  <2>1. f \in CloseFrame
    BY <1>2, <1>11 DEF f, UpFrame, SubscribeFrame, UnsubscribeFrame, ResizeFrame, CloseFrame
  <2>2. runtime' = Unsubscribed(runtime, Owned(w)) /\ down' = down
    BY <1>6, <1>11
  <2> QED
    BY <1>9, <2>1, <2>2
<1>12. CASE f.kind = "resize"
  <2>1. f \in ResizeFrame
    BY <1>2, <1>12 DEF f, UpFrame, SubscribeFrame, UnsubscribeFrame, ResizeFrame, CloseFrame
  <2>2. runtime' = (IF f.chan \in Owned(w) /\ runtime.life = "running" THEN Resized(f) ELSE runtime) /\ down' = down
    BY <1>6, <1>12
  <2>3. Untold /\ down' \in Seq(DownFrame)
    BY <2>2 DEF Untold, Typed
  <2>4. CASE f.chan \in Owned(w) /\ runtime.life = "running"
    <3>1. f.chan \in Channels
      BY <2>4 DEF Owned
    <3>2. LET q == Resized(f)
          IN  /\ Sound(q) /\ Steers(runtime, q) /\ Owns(q) /\ q.next = runtime.next
              /\ DOMAIN q.subs = Channels
              /\ \A d \in Channels : q.subs[d] = IF d = f.chan THEN [runtime.subs[d] EXCEPT !.size = f.size]
                                                 ELSE runtime.subs[d]
      BY <1>5, <2>1, <3>1, ResizedIs
    <3>3. runtime' = Resized(f)
      BY <2>2, <2>4
    <3>4. Resizing(f)
      BY <2>3, <3>2, <3>3 DEF Resizing
    <3> QED
      BY <2>1, <2>3, <2>4, <3>2, <3>3, <3>4
  <2>5. CASE ~(f.chan \in Owned(w) /\ runtime.life = "running")
    <3>1. runtime' = runtime
      BY <2>2, <2>5
    <3> QED
      BY <1>5, <2>1, <2>3, <2>5, <3>1, SteersSame
  <2> QED
    BY <2>4, <2>5
<1> QED
  BY <1>6, <1>8, <1>10, <1>11, <1>12
-----------------------------------------------------------------------------
(* Where the frames of a changed queue come from. *)

LEMMA JoinedAt ==
  ASSUME NEW T, NEW s \in Seq(T), NEW t \in Seq(T)
  PROVE  /\ Len(s \o t) = Len(s) + Len(t) /\ Len(s) \in Nat /\ Len(t) \in Nat
         /\ \A i \in 1..Len(s) : i \in 1..Len(s \o t) /\ (s \o t)[i] = s[i]
         /\ \A i \in 1..Len(t) : Len(s) + i \in 1..Len(s \o t) /\ (s \o t)[Len(s) + i] = t[i]
         /\ \A i \in 1..Len(s \o t) :
               \/ i \in 1..Len(s) /\ (s \o t)[i] = s[i]
               \/ \E k \in 1..Len(t) : i = Len(s) + k /\ (s \o t)[i] = t[k]
<1>1. /\ Len(s \o t) = Len(s) + Len(t) /\ Len(s) \in Nat /\ Len(t) \in Nat
      /\ \A i \in 1..Len(s) : (s \o t)[i] = s[i]
      /\ \A i \in 1..Len(t) : (s \o t)[Len(s) + i] = t[i]
  BY JoinIs
<1> DEFINE u == s \o t
<1> HIDE DEF u
<1>2. ASSUME NEW i \in 1..Len(u), i \notin 1..Len(s)
      PROVE  \E k \in 1..Len(t) : i = Len(s) + k /\ u[i] = t[k]
  <2>1. i - Len(s) \in 1..Len(t) /\ i = Len(s) + (i - Len(s))
    BY <1>1, <1>2 DEF u
  <2> QED
    BY <1>1, <2>1 DEF u
<1>3. \A i \in 1..Len(s) : i \in 1..Len(s \o t) /\ (s \o t)[i] = s[i]
  <2>1. \A i \in 1..Len(s) : i \in 1..(Len(s) + Len(t))
    BY <1>1
  <2> QED
    BY <1>1, <2>1
<1>4. \A i \in 1..Len(t) : Len(s) + i \in 1..Len(s \o t) /\ (s \o t)[Len(s) + i] = t[i]
  <2>1. \A i \in 1..Len(t) : Len(s) + i \in 1..(Len(s) + Len(t))
    BY <1>1
  <2> QED
    BY <1>1, <2>1
<1>5. ASSUME NEW i \in 1..Len(s \o t)
      PROVE  \/ i \in 1..Len(s) /\ (s \o t)[i] = s[i]
             \/ \E k \in 1..Len(t) : i = Len(s) + k /\ (s \o t)[i] = t[k]
  <2>1. CASE i \in 1..Len(s)
    BY <1>3, <2>1
  <2>2. CASE i \notin 1..Len(s)
    <3>1. i \in 1..Len(u)
      BY DEF u
    <3>2. \E k \in 1..Len(t) : i = Len(s) + k /\ u[i] = t[k]
      BY <1>2, <2>2, <3>1
    <3> QED
      BY <3>2 DEF u
  <2> QED
    BY <2>1, <2>2
<1> QED
  BY <1>1, <1>3, <1>4, <1>5

LEMMA TailAt ==
  ASSUME NEW T, NEW s \in Seq(T), s # <<>>
  PROVE  /\ Tail(s) \in Seq(T) /\ Head(s) = s[1] /\ Head(s) \in T
         /\ Len(s) \in Nat /\ Len(Tail(s)) \in Nat /\ Len(s) = Len(Tail(s)) + 1 /\ 1 \in 1..Len(s)
         /\ \A i \in 1..Len(Tail(s)) : i + 1 \in 1..Len(s) /\ Tail(s)[i] = s[i + 1]
         /\ \A i \in 1..Len(s) : i = 1 \/ \E k \in 1..Len(Tail(s)) : i = k + 1 /\ s[i] = Tail(s)[k]
<1>1. /\ Tail(s) \in Seq(T) /\ Head(s) = s[1] /\ Head(s) \in T
      /\ Len(s) \in Nat /\ Len(Tail(s)) \in Nat /\ Len(s) = Len(Tail(s)) + 1 /\ 1 \in 1..Len(s)
      /\ \A i \in 1..Len(Tail(s)) : i + 1 \in 1..Len(s) /\ Tail(s)[i] = s[i + 1]
  OBVIOUS
<1> DEFINE u == Tail(s)
<1> HIDE DEF u
<1>2. ASSUME NEW i \in 1..Len(s), i # 1
      PROVE  \E k \in 1..Len(u) : i = k + 1 /\ s[i] = u[k]
  <2>1. i - 1 \in 1..Len(u) /\ i = (i - 1) + 1
    BY <1>1, <1>2 DEF u
  <2> QED
    BY <1>1, <2>1 DEF u
<1> QED
  BY <1>1, <1>2 DEF u

LEMMA UntoldIs ==
  ASSUME Typed, Untold
  PROVE  Tells(<<>>)
<1>1. <<>> \in Seq(DownFrame) /\ Len(<<>>) = 0
  OBVIOUS
<1>2. down \o <<>> = down
  BY DEF Typed
<1> QED
  BY <1>1, <1>2 DEF Untold, Tells

-----------------------------------------------------------------------------
(* Sockets. *)

LEMMA SocketedSame ==
  ASSUME Socketed, UNCHANGED <<client, up, down>>,
         DOMAIN runtime'.subs \subseteq Channels,
         \A c \in DOMAIN runtime'.subs : runtime'.subs[c].ws = runtime.subs[c].ws
  PROVE  Socketed'
<1>1. /\ client' = client /\ up' = up /\ down' = down /\ Live' = Live
      /\ \A w : Closes(w)' <=> Closes(w)
      /\ \A w : Reaches(w)' <=> Reaches(w)
  BY DEF Live, Closes, Reaches
<1>2. \A w : Owned(w)' \subseteq Owned(w)
  BY DEF Owned, Channels
<1>3. \A c \in Channels' : c \in Channels /\ runtime'.subs[c].ws = runtime.subs[c].ws
  BY DEF Channels
<1>4. \A w : Owned(w) = {} => Owned(w)' = {}
  BY <1>2
<1> QED
  BY <1>1, <1>3, <1>4 DEF Socketed

LEMMA SocketedTold ==
  ASSUME Typed, Socketed, NEW t, Tells(t), \A i \in 1..Len(t) : t[i].kind # "closed",
         Len(t) > 0 => Live, UNCHANGED <<client, up>>,
         DOMAIN runtime'.subs \subseteq Channels,
         \A c \in DOMAIN runtime'.subs : runtime'.subs[c].ws = runtime.subs[c].ws
  PROVE  Socketed'
<1>1. down \in Seq(DownFrame) /\ t \in Seq(DownFrame) /\ down' = down \o t /\ Len(t) \in Nat
  BY DEF Typed, Tells
<1>2. CASE Len(t) = 0
  <2>1. down' = down
    BY <1>1, <1>2
  <2> QED
    BY <2>1, SocketedSame
<1>3. CASE Len(t) > 0
  <2>1. Live
    BY <1>3
  <2>2. \A i \in 1..Len(down) : down[i].kind # "closed"
    BY <2>1 DEF Socketed, Live
  <2>3. \A i \in 1..Len(down') : down'[i].kind # "closed"
    BY <1>1, <2>2, JoinedAt
  <2>4. /\ client' = client /\ up' = up /\ Live' = Live
        /\ \A w : Closes(w)' <=> Closes(w)
        /\ \A w : Reaches(w)' <=> Reaches(w)
    BY DEF Live, Closes, Reaches
  <2>5. \A w : Owned(w) = {} => Owned(w)' = {}
    BY DEF Owned, Channels
  <2>6. \A c \in Channels' : c \in Channels /\ runtime'.subs[c].ws = runtime.subs[c].ws
    BY DEF Channels
  <2> QED
    BY <2>1, <2>3, <2>4, <2>5, <2>6 DEF Socketed, Live
<1> QED
  BY <1>1, <1>2, <1>3

(* The router reads. *)
LEMMA SocketedRouter ==
  ASSUME Typed, Owning, Socketed, NEW w \in Sockets, RouterReads(w)
  PROVE  Socketed'
<1> DEFINE f == Head(up[w])
<1>1. Takes(w, f) /\ Typed' /\ up[w] \in Seq(UpFrame) /\ up \in Seq(Seq(UpFrame)) /\ Len(up) \in Nat
  <2>1. Takes(w, f) /\ Typed' /\ up \in Seq(Seq(UpFrame)) /\ Len(up) \in Nat
    <3>1. Takes(w, f) /\ Typed'
      BY RouterIs
    <3>2. up \in Seq(Seq(UpFrame)) /\ Len(up) \in Nat
      BY DEF Typed
    <3> QED
      BY <3>1, <3>2
  <2>2. w \in 1..Len(up)
    BY <2>1 DEF Takes
  <2> QED
    BY <2>1, <2>2
<1>2. /\ Tail(up[w]) \in Seq(UpFrame) /\ f = up[w][1] /\ Len(up[w]) = Len(Tail(up[w])) + 1
      /\ Len(Tail(up[w])) \in Nat /\ Len(up[w]) \in Nat /\ 1 \in 1..Len(up[w])
      /\ \A i \in 1..Len(Tail(up[w])) : i + 1 \in 1..Len(up[w]) /\ Tail(up[w])[i] = up[w][i + 1]
      /\ \A i \in 1..Len(up[w]) : i = 1 \/ \E k \in 1..Len(Tail(up[w])) : i = k + 1 /\ up[w][i] = Tail(up[w])[k]
  BY <1>1, TailAt DEF Takes
<1>3. /\ client' = client /\ Len(up') = Len(up) /\ w \in 1..Len(up)
      /\ \A x \in 1..Len(up) : up'[x] = IF x = w THEN Tail(up[x]) ELSE up[x]
  BY <1>1 DEF Takes
<1>4. w <= client.made /\ client.made \in Nat
  BY <1>1 DEF Socketed, Takes, Typed, Client
<1>5. /\ \A x \in 1..Len(up') : \A i \in 1..Len(up'[x]) : up'[x][i].kind = "close" => i = Len(up'[x])
      /\ \A x \in 1..Len(up') : x > client'.made => up'[x] = <<>>
      /\ \A x : Reaches(x)' <=> Reaches(x)
  <2>1. ASSUME NEW i \in 1..Len(Tail(up[w])), Tail(up[w])[i].kind = "close"
        PROVE  i = Len(Tail(up[w]))
    <3>1. i + 1 = Len(up[w])
      BY <1>2, <1>3, <2>1 DEF Socketed
    <3> QED
      BY <1>2, <3>1
  <2>2. \A x \in 1..Len(up) : \A i \in 1..Len(up[x]) : up[x][i].kind = "close" => i = Len(up[x])
    BY DEF Socketed
  <2>3. \A x \in 1..Len(up') : \A i \in 1..Len(up'[x]) : up'[x][i].kind = "close" => i = Len(up'[x])
    BY <1>3, <2>1, <2>2
  <2>4. \A x \in 1..Len(up') : x > client'.made => up'[x] = <<>>
    BY <1>3, <1>4 DEF Socketed
  <2> QED
    BY <1>3, <2>3, <2>4 DEF Reaches
<1>6. \A x \in 1..Len(up) : x # w => (Closes(x)' <=> Closes(x))
  BY <1>3 DEF Closes
<1> DEFINE u == Tail(up[w])
<1>20. up'[w] = u
  BY <1>3
<1> HIDE DEF u
<1>7. Closes(w)' => Closes(w)
  <2>1. SUFFICES ASSUME NEW i \in 1..Len(u), u[i].kind = "close"
                 PROVE  Closes(w)
    BY <1>20 DEF Closes
  <2>2. i + 1 \in 1..Len(up[w]) /\ up[w][i + 1].kind = "close"
    BY <1>2, <2>1 DEF u
  <2> QED
    BY <2>2 DEF Closes
<1>8. f.kind # "close" /\ Closes(w) => Closes(w)'
  <2>1. SUFFICES ASSUME NEW i \in 1..Len(up[w]), up[w][i].kind = "close", f.kind # "close"
                 PROVE  Closes(w)'
    BY DEF Closes
  <2>2. \E k \in 1..Len(u) : u[k].kind = "close"
    BY <1>2, <2>1 DEF u
  <2> QED
    BY <1>20, <2>2 DEF Closes
<1>9. Live' = Live /\ (Live => ~Closes(client.ws))'
  <2>1. Live' = Live
    BY <1>3 DEF Live
  <2>2. Live => client.ws \in 1..Len(up)
    BY <1>1 DEF Typed, Live, Client, None
  <2>3. Live => ~Closes(client.ws)
    BY DEF Socketed
  <2>4. \A x \in 1..Len(up) : ~Closes(x) => ~Closes(x)'
    BY <1>6, <1>7
  <2>5. ASSUME Live PROVE  ~(Closes(client.ws)')
    <3> DEFINE x == client.ws
    <3>1. x \in 1..Len(up) /\ ~Closes(x)
      BY <2>2, <2>3, <2>5
    <3>2. ~ \E i \in 1..Len(up'[x]) : up'[x][i].kind = "close"
      BY <2>4, <3>1 DEF Closes
    <3> QED
      BY <1>3, <3>2 DEF Closes
  <2> QED
    BY <2>1, <2>5
<1>10. Reaches(w) \/ Closes(w)
  BY <1>1 DEF Socketed, Takes
<1>11. (Len(up[w]) = 1 /\ Tail(up[w]) = <<>>) \/ f.kind # "close"
  <2>1. f.kind = "close" => Len(up[w]) = 1
    BY <1>2, <1>3 DEF Socketed
  <2>2. Len(up[w]) = 1 => Tail(up[w]) = <<>>
    BY <1>2
  <2> QED
    BY <2>1, <2>2
<1> HIDE DEF f
(* what the frame does to the channels *)
<1>12. \/ f.kind # "close" /\ Joining(w, f)
       \/ f.kind # "close" /\ Refusing(w)
       \/ f.kind # "close" /\ Leaving({f.chan} \cap Owned(w))
       \/ f.kind # "close" /\ Resizing(f)
       \/ f.kind # "close" /\ runtime' = runtime /\ Untold
       \/ f.kind = "close" /\ Leaving(Owned(w))
  BY RouterIs DEF f, SubscribeFrame, UnsubscribeFrame, ResizeFrame, CloseFrame
<1>13. /\ \A c \in Channels' : runtime'.subs[c].ws = w \/ (c \in Channels /\ runtime'.subs[c].ws = runtime.subs[c].ws)
       /\ f.kind = "close" => \A c \in Channels' : runtime'.subs[c].ws # w
  <2>1. CASE Joining(w, f) /\ f.kind # "close"
    BY <2>1 DEF Joining, Channels
  <2>2. CASE Refusing(w) /\ f.kind # "close"
    BY <2>2 DEF Refusing, Channels
  <2>3. CASE Leaving({f.chan} \cap Owned(w)) /\ f.kind # "close"
    BY <2>3 DEF Leaving, Channels
  <2>4. CASE Resizing(f) /\ f.kind # "close"
    <3>1. \A c \in Channels : runtime.subs[c] \in Sub
      BY SubsAre DEF Typed, Sound, Runtime, Channels
    <3> QED
      BY <2>4, <3>1 DEF Resizing, Channels, Sub
  <2>5. CASE runtime' = runtime /\ f.kind # "close"
    BY <2>5 DEF Channels
  <2>6. CASE f.kind = "close" /\ Leaving(Owned(w))
    BY <2>6 DEF Leaving, Channels, Owned
  <2> QED
    BY <1>12, <2>1, <2>2, <2>3, <2>4, <2>5, <2>6
<1>14. \A x \in 1..Len(up) : Reaches(x)' \/ Closes(x)' \/ (up'[x] = <<>> /\ Owned(x)' = {})
  <2>1. ASSUME NEW x \in 1..Len(up), x # w
        PROVE  Reaches(x)' \/ Closes(x)' \/ (up'[x] = <<>> /\ Owned(x)' = {})
    <3>1. Reaches(x) \/ Closes(x) \/ (up[x] = <<>> /\ Owned(x) = {})
      BY DEF Socketed
    <3>2. Owned(x) = {} => Owned(x)' = {}
      BY <1>13, <2>1 DEF Owned
    <3> QED
      BY <1>3, <1>5, <1>6, <2>1, <3>1, <3>2
  <2>2. Reaches(w)' \/ Closes(w)' \/ (up'[w] = <<>> /\ Owned(w)' = {})
    <3>1. CASE f.kind # "close"
      BY <1>5, <1>8, <1>10, <3>1 DEF f
    <3>2. CASE f.kind = "close"
      <4>1. Owned(w)' = {}
        BY <1>13, <3>2 DEF Owned
      <4> QED
        BY <1>3, <1>11, <3>2, <4>1
    <3> QED
      BY <3>1, <3>2
  <2> QED
    BY <2>1, <2>2
<1>15. \A c \in Channels' : runtime'.subs[c].ws \in 1..client'.made
  <2>1. w \in 1..client.made
    BY <1>3, <1>4
  <2> QED
    BY <1>3, <1>13, <2>1 DEF Socketed
(* what it tells the browser *)
<1>16. \E t : /\ Tells(t)
              /\ \A i \in 1..Len(t) : t[i].kind # "closed"
              /\ Len(t) > 0 => Reaches(w)
  <2>1. Untold => Tells(<<>>) /\ Len(<<>>) = 0
    BY UntoldIs
  <2>2. CASE Untold
    BY <2>1, <2>2
  <2>3. CASE ~Untold
    <3>1. \/ Reaches(w) /\ Tells(<<Ack(runtime.next), Snapshot(runtime', runtime.next)>>)
          \/ Reaches(w) /\ Tells(<<Ack(runtime.next)>>)
          \/ Reaches(w) /\ Tells(<<BadChannel>>)
      BY <1>12, <2>3 DEF Joining, Refusing, Leaving, Resizing
    <3>2. Ack(runtime.next).kind # "closed" /\ Snapshot(runtime', runtime.next).kind # "closed" /\ BadChannel.kind # "closed"
      BY DEF Ack, Snapshot, BadChannel
    <3> DEFINE x == Ack(runtime.next)
               y == Snapshot(runtime', runtime.next)
               z == BadChannel
    <3> HIDE DEF x, y, z
    <3>3. /\ \A i \in 1..Len(<<x, y>>) : <<x, y>>[i] = x \/ <<x, y>>[i] = y
          /\ \A i \in 1..Len(<<x>>) : <<x>>[i] = x
          /\ \A i \in 1..Len(<<z>>) : <<z>>[i] = z
      OBVIOUS
    <3>4. CASE Reaches(w) /\ Tells(<<x, y>>)
      BY <3>2, <3>3, <3>4 DEF x, y
    <3>5. CASE Reaches(w) /\ Tells(<<x>>)
      BY <3>2, <3>3, <3>5 DEF x
    <3>6. CASE Reaches(w) /\ Tells(<<z>>)
      BY <3>2, <3>3, <3>6 DEF z
    <3> QED
      BY <3>1, <3>4, <3>5, <3>6 DEF x, y, z
  <2> QED
    BY <2>2, <2>3
<1>17. /\ client'.ws = None => down' = <<>>
       /\ client'.broken <=> \E i \in 1..Len(down') : down'[i].kind = "closed"
       /\ \A i \in 1..Len(down') : down'[i].kind = "closed" => i = Len(down')
  <2>1. PICK t : /\ Tells(t)
                 /\ \A i \in 1..Len(t) : t[i].kind # "closed"
                 /\ Len(t) > 0 => Reaches(w)
    BY <1>16
  <2>2. down \in Seq(DownFrame) /\ t \in Seq(DownFrame) /\ down' = down \o t /\ Len(t) \in Nat
    BY <2>1 DEF Typed, Tells
  <2>3. CASE Len(t) = 0
    <3>1. down' = down
      BY <2>2, <2>3
    <3> QED
      BY <1>3, <3>1 DEF Socketed
  <2>4. CASE Len(t) > 0
    <3>1. Live
      BY <1>3, <2>1, <2>4 DEF Reaches, Live, None
    <3>2. \A i \in 1..Len(down) : down[i].kind # "closed"
      BY <3>1 DEF Socketed, Live
    <3>3. \A i \in 1..Len(down') : down'[i].kind # "closed"
      BY <2>1, <2>2, <3>2, JoinedAt
    <3> QED
      BY <1>3, <3>1, <3>3 DEF Live
  <2> QED
    BY <2>2, <2>3, <2>4
<1>18. client'.broken => client'.ws # None
  BY <1>3 DEF Socketed
<1>19. client'.ws = None => client'.acks = <<>> /\ \A s \in Surfaces : client'.view[s].chan = None
  BY <1>3 DEF Socketed
<1> QED
  BY <1>3, <1>5, <1>9, <1>14, <1>15, <1>17, <1>18, <1>19 DEF Socketed
LEMMA ReachesLive ==
  ASSUME Socketed, NEW c \in Channels, Reaches(runtime.subs[c].ws), Typed
  PROVE  Live /\ runtime.subs[c].ws = client.ws
BY DEF Socketed, Reaches, Live, None, Typed, Client

LEMMA KindsAre ==
  /\ \A r, c : Snapshot(r, c).kind = "snapshot" /\ Snapshot(r, c).chan = c
  /\ \A r, c, k : Output(r, c, k).kind = "output" /\ Output(r, c, k).chan = c
  /\ \A c : Exit(c).kind = "exit" /\ Exit(c).chan = c /\ Ack(c).kind = "ack" /\ Ack(c).chan = c
  /\ BadChannel.kind = "error" /\ Closed.kind = "closed"
BY DEF Snapshot, Exit, Output, Ack, BadChannel, Closed

LEMMA ReadyKeeps ==
  ASSUME NEW x \in Sub
  PROVE  LET y == [x EXCEPT !.ready = TRUE]
         IN  y.ws = x.ws /\ y.surf = x.surf /\ y.mount = x.mount /\ y.size = x.size /\ y.ready
BY DEF Sub

(* Baselines and farewells reach a socket that lives. *)
LEMMA BaselinesLive ==
  ASSUME Typed, Socketed, NEW r, Sound(r), DOMAIN r.subs \subseteq Channels,
         \A c \in DOMAIN r.subs : r.subs[c].ws = runtime.subs[c].ws
  PROVE  /\ Len(Baselines(r)) > 0 => Live
         /\ \A i \in 1..Len(Baselines(r)) : Baselines(r)[i].kind = "snapshot"
<1> DEFINE b == Baselines(r)
<1>1. /\ Len(b) \in Nat
      /\ \A i \in 1..Len(b) : \E c \in Waiting(r) : b[i] = Snapshot(r, c) /\ Reaches(r.subs[c].ws)
  BY BaselinesIs
<1> HIDE DEF b
<1>2. \A c \in Waiting(r) : c \in Channels /\ r.subs[c].ws = runtime.subs[c].ws
  BY DEF Waiting
<1>3. Len(b) > 0 => Live
  <2>1. SUFFICES ASSUME Len(b) > 0 PROVE Live
    OBVIOUS
  <2>2. 1 \in 1..Len(b)
    BY <1>1, <2>1
  <2>3. PICK c \in Waiting(r) : Reaches(r.subs[c].ws)
    BY <1>1, <2>2
  <2> QED
    BY <1>2, <2>3, ReachesLive
<1>4. \A i \in 1..Len(b) : b[i].kind = "snapshot"
  BY <1>1, KindsAre
<1> QED
  BY <1>3, <1>4 DEF b

LEMMA FarewellsLive ==
  ASSUME Typed, Socketed, NEW r, Sound(r), DOMAIN r.subs \subseteq Channels,
         \A c \in DOMAIN r.subs : r.subs[c].ws = runtime.subs[c].ws
  PROVE  /\ Len(Farewells(r)) > 0 => Live
         /\ \A i \in 1..Len(Farewells(r)) : Farewells(r)[i].kind \in {"snapshot", "exit"}
<1> DEFINE b == Farewells(r)
<1>1. /\ Len(b) \in Nat
      /\ \A i \in 1..Len(b) : \/ \E c \in Waiting(r) : b[i] = Snapshot(r, c) /\ Reaches(r.subs[c].ws)
                              \/ \E c \in DOMAIN r.subs : b[i] = Exit(c) /\ Reaches(r.subs[c].ws)
  <2>1. /\ Len(b) \in Nat
        /\ \A i \in 1..Len(b) :
                   \/ \E c \in Waiting(r) : b[i] = Snapshot(r, c) /\ Reaches(r.subs[c].ws)
                   \/ \E c \in DOMAIN r.subs :
                         /\ b[i] = Exit(c) /\ Reaches(r.subs[c].ws)
                         /\ c \in Waiting(r) => \E j \in 1..Len(b) : j < i /\ b[j] = Snapshot(r, c)
                         /\ \A j \in 1..Len(b) : i < j => b[j].kind = "exit"
    BY FarewellsIs
  <2> HIDE DEF b
  <2> QED
    BY <2>1
<1> HIDE DEF b
<1>2. \A c \in Waiting(r) : c \in DOMAIN r.subs
  BY DEF Waiting
<1>3. Len(b) > 0 => Live
  <2>1. SUFFICES ASSUME Len(b) > 0 PROVE Live
    OBVIOUS
  <2>2. 1 \in 1..Len(b)
    BY <1>1, <2>1
  <2>3. PICK c \in DOMAIN r.subs : Reaches(r.subs[c].ws)
    BY <1>1, <1>2, <2>2
  <2> QED
    BY <2>3, ReachesLive
<1>4. \A i \in 1..Len(b) : b[i].kind \in {"snapshot", "exit"}
  BY <1>1, KindsAre
<1> QED
  BY <1>3, <1>4 DEF b

(* A step of the runtime: what it tells, and to whom. *)
LEMMA EndsSocketed ==
  ASSUME Typed, Socketed, NEW r, Sound(r), r.subs = runtime.subs, Ends(r), UNCHANGED <<client, up>>
  PROVE  Socketed'
<1>1. Tells(Farewells(r)) /\ DOMAIN runtime'.subs = DOMAIN r.subs
      /\ \A c \in DOMAIN r.subs : runtime'.subs[c] = [r.subs[c] EXCEPT !.ready = TRUE]
  BY EndsIs
<1>2. \A c \in DOMAIN r.subs : r.subs[c] \in Sub
  BY SubsAre DEF Sound, Runtime
<1>6. \A c \in DOMAIN r.subs : [r.subs[c] EXCEPT !.ready = TRUE].ws = r.subs[c].ws
  BY <1>2, ReadyKeeps
<1>3. DOMAIN runtime'.subs \subseteq Channels /\ \A c \in DOMAIN runtime'.subs : runtime'.subs[c].ws = runtime.subs[c].ws
  BY <1>1, <1>6 DEF Channels
<1>4. Len(Farewells(r)) > 0 => Live
  BY FarewellsLive DEF Channels
<1>5. \A i \in 1..Len(Farewells(r)) : Farewells(r)[i].kind # "closed"
  BY FarewellsLive DEF Channels
<1> QED
  BY <1>1, <1>3, <1>4, <1>5, SocketedTold

LEMMA SocketedParse ==
  ASSUME Typed, Owning, Socketed, Parse
  PROVE  Socketed'
<1> DEFINE r == Parsed
<1>1. /\ runtime.inbox # <<>> /\ UNCHANGED <<up, client>>
      /\ \/ ExitIsReady(r) /\ Ends(r)
         \/ ~ExitIsReady(r) /\ Wakes(r) /\ link' = link
         \/ ~ExitIsReady(r) /\ ~Drained(r) /\ runtime' = r /\ Untold /\ link' = link
  BY ParseIs
<1>2. Sound(r) /\ r.subs = runtime.subs
  BY <1>1, ParsedIs
<1> HIDE DEF r
<1>3. CASE Ends(r)
  BY <1>1, <1>2, <1>3, EndsSocketed
<1>4. CASE Wakes(r)
  <2>1. \A c \in DOMAIN r.subs : r.subs[c] \in Sub
    BY <1>2, SubsAre DEF Sound, Runtime
  <2>6. \A c \in DOMAIN r.subs : [r.subs[c] EXCEPT !.ready = TRUE].ws = r.subs[c].ws
    BY <2>1, ReadyKeeps
  <2>2. DOMAIN runtime'.subs \subseteq Channels /\ \A c \in DOMAIN runtime'.subs : runtime'.subs[c].ws = runtime.subs[c].ws
    BY <1>2, <1>4, <2>6 DEF Channels, Wakes
  <2>3. Len(Baselines(r)) > 0 => Live
    BY <1>2, BaselinesLive DEF Channels
  <2>4. \A i \in 1..Len(Baselines(r)) : Baselines(r)[i].kind # "closed"
    BY <1>2, BaselinesLive DEF Channels
  <2>5. Tells(Baselines(r))
    BY <1>4 DEF Wakes
  <2> QED
    BY <1>1, <2>2, <2>3, <2>4, <2>5, SocketedTold
<1>5. CASE runtime' = r /\ Untold
  BY <1>1, <1>2, <1>5, SocketedSame DEF Untold, Channels
<1> QED
  BY <1>1, <1>3, <1>4, <1>5

LEMMA SocketedExit ==
  ASSUME Typed, Owning, Socketed, ExitObserved
  PROVE  Socketed'
<1> DEFINE r == Living("draining")
<1>1. /\ UNCHANGED <<up, client>>
      /\ \/ ExitIsReady(r) /\ Ends(r)
         \/ runtime' = r /\ Untold /\ link' = [link EXCEPT !.pend = None]
  BY ExitObservedIs
<1>2. Sound(r) /\ r.subs = runtime.subs
  BY LivingIs DEF Living, Lives, Typed
<1> HIDE DEF r
<1>3. CASE Ends(r)
  BY <1>1, <1>2, <1>3, EndsSocketed
<1>4. CASE runtime' = r /\ Untold
  BY <1>1, <1>2, <1>4, SocketedSame DEF Untold, Channels
<1> QED
  BY <1>1, <1>3, <1>4

LEMMA SocketedAbsence ==
  ASSUME Typed, Owning, Socketed, ConfirmedAbsence
  PROVE  Socketed'
<1>1. /\ UNCHANGED <<up, client>> /\ DOMAIN runtime'.subs = {} /\ Sound(runtime)
      /\ IF runtime.life = "draining" THEN Tells(Farewells(runtime)) ELSE Untold
  BY ConfirmedAbsenceIs DEF Typed
<1>2. CASE runtime.life = "draining"
  <2>1. Len(Farewells(runtime)) > 0 => Live
    BY <1>1, FarewellsLive DEF Channels
  <2>2. \A i \in 1..Len(Farewells(runtime)) : Farewells(runtime)[i].kind # "closed"
    BY <1>1, FarewellsLive DEF Channels
  <2> QED
    BY <1>1, <1>2, <2>1, <2>2, SocketedTold
<1>3. CASE runtime.life # "draining"
  BY <1>1, <1>3, SocketedSame DEF Untold
<1> QED
  BY <1>2, <1>3

LEMMA SocketedReceive ==
  ASSUME Typed, Socketed, ReceiveOutput
  PROVE  Socketed'
<1> DEFINE k == Head(link.out)
           told == Reached(runtime, Channels \ Waiting(runtime))
           t == [i \in 1..Len(told) |-> Output(runtime, told[i], k)]
<1>1. /\ Tells(t) /\ Len(t) = Len(told) /\ Len(told) \in Nat
      /\ \A i \in 1..Len(told) : told[i] \in Channels /\ runtime.subs[told[i]].ready /\ Reaches(runtime.subs[told[i]].ws)
      /\ UNCHANGED <<up, client>> /\ runtime' = [runtime EXCEPT !.offset = k, !.inbox = Append(@, k)]
  BY ReceiveOutputIs
<1>2. \A i \in 1..Len(t) : t[i].kind # "closed"
  BY <1>1 DEF Output
<1>3. runtime'.subs = runtime.subs
  BY <1>1 DEF Typed, Sound, Runtime
<1> HIDE DEF told
<1>4. Len(t) > 0 => Live
  <2>1. SUFFICES ASSUME Len(t) > 0 PROVE Live
    OBVIOUS
  <2>2. told[1] \in Channels /\ Reaches(runtime.subs[told[1]].ws)
    BY <1>1, <2>1
  <2> QED
    BY <2>2, ReachesLive
<1> HIDE DEF t
<1> QED
  BY <1>1, <1>2, <1>3, <1>4, SocketedTold DEF Channels

-----------------------------------------------------------------------------
(* The browser's steps on its socket. *)
Plain(o) == o \in Seq(UpFrame) /\ Len(o) \in Nat /\ \A i \in 1..Len(o) : o[i].kind # "close"

LEMMA PlainAre ==
  ASSUME NEW s \in Surfaces, NEW v \in View
  PROVE  /\ Plain(<<>>) /\ Plain(UnsubscribeOf(v)) /\ Plain(<<SubscribeOf(s, v)>>)
         /\ v.want # None => Plain(<<ResizeOf(v)>>)
         /\ Plain(UnsubscribeOf(v) \o <<SubscribeOf(s, v)>>)
<1>1. \A f \in UpFrame : f.kind # "close" => Plain(<<f>>)
  <2>1. SUFFICES ASSUME NEW f \in UpFrame, f.kind # "close" PROVE Plain(<<f>>)
    OBVIOUS
  <2>2. <<f>> \in Seq(UpFrame) /\ Len(<<f>>) = 1 /\ <<f>>[1] = f
    OBVIOUS
  <2> QED
    BY <2>1, <2>2 DEF Plain
<1>2. Plain(<<>>)
  BY DEF Plain
<1>3. Unsubscribe(v.chan) \in UpFrame /\ Unsubscribe(v.chan).kind = "unsubscribe"
  BY DEF Unsubscribe, UnsubscribeFrame, UpFrame, View
<1>4. SubscribeOf(s, v) \in UpFrame /\ SubscribeOf(s, v).kind = "subscribe"
  BY SubscribeIn DEF SubscribeOf
<1>5. v.want # None => ResizeOf(v) \in UpFrame /\ ResizeOf(v).kind = "resize"
  BY DEF ResizeOf, ResizeFrame, UpFrame, View
<1>6. Plain(UnsubscribeOf(v)) /\ Plain(<<SubscribeOf(s, v)>>) /\ (v.want # None => Plain(<<ResizeOf(v)>>))
  BY <1>1, <1>2, <1>3, <1>4, <1>5 DEF UnsubscribeOf
<1> DEFINE p == UnsubscribeOf(v)
           q == <<SubscribeOf(s, v)>>
<1> HIDE DEF p, q
<1>7. Plain(p \o q)
  <2>1. p \in Seq(UpFrame) /\ q \in Seq(UpFrame) /\ (\A i \in 1..Len(p) : p[i].kind # "close") /\ (\A i \in 1..Len(q) : q[i].kind # "close")
    BY <1>6 DEF Plain, p, q
  <2>2. p \o q \in Seq(UpFrame) /\ Len(p \o q) \in Nat
    BY <2>1
  <2>3. \A i \in 1..Len(p \o q) : (p \o q)[i].kind # "close"
    BY <2>1, JoinedAt
  <2> QED
    BY <2>2, <2>3 DEF Plain
<1> QED
  BY <1>2, <1>6, <1>7 DEF p, q

(* down is left alone, or its head is read and is not the end of the socket. *)
Keeps == down' = down
Consumes == down # <<>> /\ down' = Tail(down)

LEMMA ConsumesTyped ==
  ASSUME Typed, Keeps \/ Consumes
  PROVE  down' \in Seq(DownFrame)
BY TailAt DEF Typed, Keeps, Consumes

LEMMA MovesTyped ==
  ASSUME Typed, NEW s, NEW v, NEW a, NEW o, Moves(s, v, a, o), down' \in Seq(DownFrame),
         UNCHANGED <<holder, link, runtime>>, left' \in Left
  PROVE  Typed'
BY DEF Typed, Moves, Appends

LEMMA SocketedDown ==
  ASSUME Typed, Socketed, Keeps \/ (Consumes /\ Head(down).kind # "closed"),
         client'.broken = client.broken
  PROVE  /\ client'.broken <=> \E i \in 1..Len(down') : down'[i].kind = "closed"
         /\ \A i \in 1..Len(down') : down'[i].kind = "closed" => i = Len(down')
         /\ client.ws = None => down' = <<>>
<1>1. down \in Seq(DownFrame)
  BY DEF Typed
<1>2. CASE Keeps
  BY <1>2 DEF Keeps, Socketed
<1>3. CASE Consumes /\ Head(down).kind # "closed"
  <2> DEFINE u == Tail(down)
  <2>1. /\ u \in Seq(DownFrame) /\ Head(down) = down[1]
        /\ Len(down) \in Nat /\ Len(u) \in Nat /\ Len(down) = Len(u) + 1
        /\ \A i \in 1..Len(u) : i + 1 \in 1..Len(down) /\ u[i] = down[i + 1]
        /\ \A i \in 1..Len(down) : i = 1 \/ \E k \in 1..Len(u) : i = k + 1 /\ down[i] = u[k]
    BY <1>1, <1>3, TailAt DEF Consumes
  <2>2. down' = u /\ down[1].kind # "closed" /\ down # <<>>
    BY <1>3, <2>1 DEF Consumes
  <2> HIDE DEF u
  <2>3. (\E i \in 1..Len(down) : down[i].kind = "closed") <=> (\E i \in 1..Len(u) : u[i].kind = "closed")
    BY <2>1, <2>2
  <2>4. \A i \in 1..Len(u) : u[i].kind = "closed" => i = Len(u)
    <3>1. \A i \in 1..Len(down) : down[i].kind = "closed" => i = Len(down)
      BY DEF Socketed
    <3>2. SUFFICES ASSUME NEW i \in 1..Len(u), u[i].kind = "closed" PROVE i = Len(u)
      OBVIOUS
    <3>3. i + 1 = Len(down)
      BY <2>1, <3>1, <3>2
    <3> QED
      BY <2>1, <3>3
  <2>5. client.ws # None
    BY <2>2 DEF Socketed
  <2> QED
    BY <2>2, <2>3, <2>4, <2>5 DEF Socketed
<1> QED
  BY <1>2, <1>3

LEMMA SocketedUp ==
  ASSUME Typed, Socketed, NEW o, Plain(o), Appends(o), runtime' = runtime,
         client'.ws = client.ws, client'.broken = client.broken, client'.made = client.made
  PROVE  /\ \A w \in 1..Len(up') : \A i \in 1..Len(up'[w]) : up'[w][i].kind = "close" => i = Len(up'[w])
         /\ (Live => ~Closes(client.ws))'
         /\ \A w \in 1..Len(up') : Reaches(w)' \/ Closes(w)' \/ (up'[w] = <<>> /\ Owned(w)' = {})
         /\ \A w \in 1..Len(up') : w > client'.made => up'[w] = <<>>
         /\ \A c \in Channels' : runtime'.subs[c].ws \in 1..client'.made
<1>1. /\ up \in Seq(Seq(UpFrame)) /\ Len(up') = Len(up) /\ o \in Seq(UpFrame)
      /\ \A w \in 1..Len(up) : up'[w] = IF Reaches(w) THEN up[w] \o o ELSE up[w]
      /\ client.ws \in {None, client.made} /\ client.made \in Nat
  BY DEF Typed, Appends, Plain, Client
<1>2. \A w : Reaches(w)' <=> Reaches(w)
  BY DEF Reaches
<1>3. Live' = Live
  BY DEF Live
<1>4. ASSUME NEW w \in 1..Len(up), Reaches(w)
      PROVE  /\ \A i \in 1..Len(up'[w]) : up'[w][i].kind # "close"
             /\ w <= client.made
  <2>1. w = client.ws /\ ~client.broken /\ w # None /\ w = client.made
    BY <1>1, <1>4 DEF Reaches, None
  <2>2. ~Closes(w)
    BY <2>1 DEF Socketed, Live
  <2>3. up[w] \in Seq(UpFrame) /\ up'[w] = up[w] \o o
    <3>1. up'[w] = up[w] \o o
      BY <1>1, <1>4
    <3>2. up \in Seq(Seq(UpFrame)) /\ w \in 1..Len(up)
      BY <1>1, <1>4
    <3> QED
      BY <3>1, <3>2
  <2>4. \A i \in 1..Len(up[w] \o o) : (up[w] \o o)[i].kind # "close"
    <3>1. \A i \in 1..Len(up[w]) : up[w][i].kind # "close"
      BY <2>2 DEF Closes
    <3>2. \A i \in 1..Len(o) : o[i].kind # "close"
      BY DEF Plain
    <3> QED
      <4> DEFINE x == up[w]
      <4>1. x \in Seq(UpFrame) /\ o \in Seq(UpFrame)
        BY <2>3 DEF Plain
      <4>2. \A i \in 1..Len(x) : x[i].kind # "close"
        BY <3>1
      <4> HIDE DEF x
      <4>3. \A i \in 1..Len(x \o o) : (x \o o)[i].kind # "close"
        BY <3>2, <4>1, <4>2, JoinedAt
      <4> QED
        BY <4>3 DEF x
  <2> QED
    BY <1>1, <2>1, <2>3, <2>4
<1>5. \A w \in 1..Len(up) : ~Reaches(w) => up'[w] = up[w] /\ (Closes(w)' <=> Closes(w))
  BY <1>1 DEF Closes
<1>6. \A w : Owned(w)' = Owned(w)
  BY DEF Owned, Channels
<1>7. \A w \in 1..Len(up') : \A i \in 1..Len(up'[w]) : up'[w][i].kind = "close" => i = Len(up'[w])
  BY <1>1, <1>4, <1>5 DEF Socketed
<1>8. (Live => ~Closes(client.ws))'
  <2>1. SUFFICES ASSUME Live PROVE ~(Closes(client.ws)')
    BY <1>3
  <2> DEFINE x == client.ws
  <2>2. x \in 1..Len(up) /\ Reaches(x)
    BY <1>1, <2>1 DEF Live, Reaches, None, Typed
  <2>3. ~ \E i \in 1..Len(up'[x]) : up'[x][i].kind = "close"
    BY <1>4, <2>2
  <2> QED
    BY <2>3 DEF Closes
<1>9. \A w \in 1..Len(up') : Reaches(w)' \/ Closes(w)' \/ (up'[w] = <<>> /\ Owned(w)' = {})
  BY <1>1, <1>2, <1>5, <1>6 DEF Socketed
<1>10. \A w \in 1..Len(up') : w > client'.made => up'[w] = <<>>
  BY <1>1, <1>4, <1>5 DEF Socketed
<1> QED
  BY <1>7, <1>8, <1>9, <1>10 DEF Socketed, Channels

LEMMA SocketedMoves ==
  ASSUME Typed, Socketed, NEW s \in Surfaces, NEW v, NEW a, NEW o, Moves(s, v, a, o), Plain(o),
         runtime' = runtime, Keeps \/ (Consumes /\ Head(down).kind # "closed"),
         client.ws = None => v.chan = None /\ a = <<>>
  PROVE  Socketed'
<1>1. client'.ws = client.ws /\ client'.broken = client.broken /\ client'.made = client.made /\ client'.acks = a
      /\ Appends(o) /\ \A t \in Surfaces : client'.view[t] = IF t = s THEN v ELSE client.view[t]
  BY DEF Moves
<1>2. /\ \A w \in 1..Len(up') : \A i \in 1..Len(up'[w]) : up'[w][i].kind = "close" => i = Len(up'[w])
      /\ (Live => ~Closes(client.ws))'
      /\ \A w \in 1..Len(up') : Reaches(w)' \/ Closes(w)' \/ (up'[w] = <<>> /\ Owned(w)' = {})
      /\ \A w \in 1..Len(up') : w > client'.made => up'[w] = <<>>
      /\ \A c \in Channels' : runtime'.subs[c].ws \in 1..client'.made
  BY <1>1, SocketedUp
<1>3. /\ client'.broken <=> \E i \in 1..Len(down') : down'[i].kind = "closed"
      /\ \A i \in 1..Len(down') : down'[i].kind = "closed" => i = Len(down')
      /\ client.ws = None => down' = <<>>
  BY <1>1, SocketedDown
<1>4. client'.broken => client'.ws # None
  BY <1>1 DEF Socketed
<1>5. client'.ws = None => client'.acks = <<>> /\ \A t \in Surfaces : client'.view[t].chan = None
  BY <1>1 DEF Socketed
<1> QED
  BY <1>1, <1>2, <1>3, <1>4, <1>5 DEF Socketed

LEMMA SocketedRests ==
  ASSUME Typed, Socketed, Rests, runtime' = runtime, Consumes, Head(down).kind # "closed"
  PROVE  Socketed'
<1>1. client' = client /\ up' = up
  BY DEF Rests
<1>2. /\ client'.broken <=> \E i \in 1..Len(down') : down'[i].kind = "closed"
      /\ \A i \in 1..Len(down') : down'[i].kind = "closed" => i = Len(down')
      /\ client.ws = None => down' = <<>>
  BY <1>1, SocketedDown
<1>3. Live' = Live /\ Channels' = Channels /\ (\A w : Reaches(w)' = Reaches(w)) /\ (\A w : Closes(w)' = Closes(w))
      /\ \A w : Owned(w)' = Owned(w)
  BY <1>1 DEF Live, Channels, Reaches, Closes, Owned
<1>4. (Live => ~Closes(client.ws))'
  BY <1>1 DEF Socketed, Live, Closes
<1> QED
  BY <1>1, <1>2, <1>3, <1>4 DEF Socketed
-----------------------------------------------------------------------------
(* What a step of the user leaves of a surface.                               *)
Loose(v, n) ==
  /\ n.expected <= v.expected /\ n.rev <= v.rev
  /\ \/ n.chan = v.chan /\ n.phase = v.phase /\ n.expected = v.expected /\ n.rev = v.rev
     \/ n.chan = None /\ n.phase = "none"
  /\ n.phase = "live" => n.shown = v.shown /\ n.expected = v.expected
  /\ n.ended => v.ended /\ n.shown = v.shown

(* Frames that name a channel name c. *)
Names(o, c) == \A i \in 1..Len(o) : o[i].kind \in {"unsubscribe", "resize"} => o[i].chan = c /\ c # None

LEMMA LooseAre ==
  ASSUME NEW s \in Surfaces, NEW v \in View, NEW n \in Nat, NEW z \in Sizes
  PROVE  LET new == NewSurface(n, FirstSize[s])
             sized == [v EXCEPT !.size = z, !.want = z]
         IN  /\ Loose(v, v) /\ Loose(v, Shut(v)) /\ Loose(v, Asking(v))
             /\ Loose(v, Shut([v EXCEPT !.visible = FALSE]))
             /\ Loose(v, [v EXCEPT !.visible = TRUE]) /\ Loose(v, Asking([v EXCEPT !.visible = TRUE]))
             /\ Loose(v, Asking(Shut(v)))
             /\ Loose(v, new) /\ Loose(v, Asking(new)) /\ Loose(v, NoSurface(s))
             /\ Loose(v, sized) /\ Loose(v, FlushedView(sized))
             /\ Loose(v, ForgottenView(v))
<1>1. v.expected \in Nat /\ v.rev \in Nat /\ v.size \in Sizes
  BY DEF View
<1>2. Loose(v, v) /\ Loose(v, Shut(v)) /\ Loose(v, Asking(v))
  BY <1>1 DEF Loose, Shut, Asking, View
<1>3. Loose(v, Shut([v EXCEPT !.visible = FALSE]))
  BY <1>1 DEF Loose, Shut, View
<1>4. Loose(v, [v EXCEPT !.visible = TRUE]) /\ Loose(v, Asking([v EXCEPT !.visible = TRUE]))
  BY <1>1 DEF Loose, Asking, View
<1>5. Loose(v, Asking(Shut(v)))
  BY <1>1 DEF Loose, Asking, View, Shut
<1>6. Loose(v, NewSurface(n, FirstSize[s])) /\ Loose(v, Asking(NewSurface(n, FirstSize[s]))) /\ Loose(v, NoSurface(s))
  BY <1>1 DEF Loose, NewSurface, NoSurface, Asking
<1>7. LET sized == [v EXCEPT !.size = z, !.want = z] IN Loose(v, sized) /\ Loose(v, FlushedView(sized))
  BY <1>1 DEF Loose, FlushedView, View
<1>8. Loose(v, ForgottenView(v))
  BY <1>1 DEF Loose, ForgottenView, View
<1> QED
  BY <1>2, <1>3, <1>4, <1>5, <1>6, <1>7, <1>8

LEMMA NamesAre ==
  ASSUME NEW s \in Surfaces, NEW v \in View, NEW c
  PROVE  /\ Names(<<>>, c)
         /\ v.chan = c => Names(UnsubscribeOf(v), c)
         /\ Names(<<SubscribeOf(s, v)>>, c)
         /\ v.chan = c /\ c # None => Names(<<ResizeOf(v)>>, c)
         /\ v.chan = c => Names(UnsubscribeOf(v) \o <<SubscribeOf(s, v)>>, c)
<1>1. Names(<<>>, c)
  BY DEF Names
<1>2. v.chan = c => Names(UnsubscribeOf(v), c)
  <2>1. CASE v.chan = None
    BY <1>1, <2>1 DEF UnsubscribeOf
  <2>2. CASE v.chan # None
    <3>1. Unsubscribe(v.chan).chan = v.chan
      BY DEF Unsubscribe
    <3> QED
      BY <2>2, <3>1 DEF UnsubscribeOf, Names
  <2> QED
    BY <2>1, <2>2
<1>3. Names(<<SubscribeOf(s, v)>>, c)
  BY DEF Names, SubscribeOf
<1>4. v.chan = c /\ c # None => Names(<<ResizeOf(v)>>, c)
  BY DEF Names, ResizeOf
<1> DEFINE p == UnsubscribeOf(v)
           q == <<SubscribeOf(s, v)>>
<1>5. p \in Seq(UpFrame) /\ q \in Seq(UpFrame)
  BY PlainAre DEF Plain
<1> HIDE DEF p, q
<1>6. v.chan = c => Names(p \o q, c)
  <2>1. SUFFICES ASSUME v.chan = c, NEW i \in 1..Len(p \o q), (p \o q)[i].kind \in {"unsubscribe", "resize"}
                 PROVE  (p \o q)[i].chan = c /\ c # None
    BY DEF Names
  <2>2. \/ i \in 1..Len(p) /\ (p \o q)[i] = p[i]
        \/ \E k \in 1..Len(q) : i = Len(p) + k /\ (p \o q)[i] = q[k]
    BY <1>5, <2>1, JoinedAt
  <2> QED
    BY <1>2, <1>3, <2>1, <2>2 DEF Names, p, q
<1> QED
  BY <1>1, <1>2, <1>3, <1>4, <1>6 DEF p, q

Looks(s) == SetVisibility(s) \/ Mount(s) \/ Unmount(s) \/ \E size \in Sizes : SendResize(s, size)
LookLike(s, n, a, o) ==
  /\ Keeps /\ Moves(s, n, a, o) /\ Plain(o) /\ n \in View
  /\ Loose(client.view[s], n) /\ Names(o, client.view[s].chan)
  /\ client.ws = None => a = client.acks

LEMMA LookIs ==
  ASSUME Typed, NEW s \in Surfaces, Looks(s)
  PROVE  /\ UNCHANGED <<holder, link, runtime>> /\ left' \in Left
         /\ \/ Leaves(s, UnsubscribeOf(client.view[s]) \o <<CloseFrameOf>>)
            \/ \E n, a, o : LookLike(s, n, a, o)
<1> DEFINE v == client.view[s]
<1>1. left \in Left /\ v \in View /\ client \in Client /\ client.mounts \in Nat
  BY ViewFields DEF Typed, Client
<1>2. UNCHANGED <<holder, link, runtime>> /\ left' \in Left
  BY <1>1, SpendsTyped DEF Looks, SetVisibility, Mount, Unmount, SendResize
<1> HIDE DEF v
<1>3. CASE SetVisibility(s) /\ v.visible
  <2> DEFINE n == Shut([v EXCEPT !.visible = FALSE])
  <2>1. Acts(s, n, client.acks, UnsubscribeOf(v))
    BY <1>3, HideIs DEF v
  <2>2. Keeps
    BY <1>3 DEF SetVisibility, Keeps
  <2>3. n \in View
    BY <1>1 DEF View, Shut, None
  <2>4. Loose(v, n) /\ Plain(UnsubscribeOf(v)) /\ Names(UnsubscribeOf(v), v.chan)
    <3>1. v.size \in Sizes /\ 0 \in Nat
      BY <1>1 DEF View
    <3> QED
      BY <1>1, <3>1, LooseAre, PlainAre, NamesAre
  <2> HIDE DEF n
  <2>5. LookLike(s, n, client.acks, UnsubscribeOf(v))
    BY <2>1, <2>2, <2>3, <2>4, ActsMoves DEF LookLike, v
  <2> QED
    BY <1>2, <2>5
<1>4. CASE SetVisibility(s) /\ ~v.visible
  <2> DEFINE u == [v EXCEPT !.visible = TRUE]
             n == Asking(u)
  <2>1. IF client.ws # None /\ v.chan = None /\ ~v.awaiting
        THEN Acts(s, n, Append(client.acks, AskOf(s, u)), <<SubscribeOf(s, u)>>)
        ELSE Acts(s, u, client.acks, <<>>)
    BY <1>4, ShowIs DEF v
  <2>2. Keeps
    BY <1>4 DEF SetVisibility, Keeps
  <2>3. n \in View /\ u \in View
    BY <1>1 DEF View, Asking
  <2>4. Loose(v, n) /\ Loose(v, u)
    <3>1. v.size \in Sizes /\ 0 \in Nat
      BY <1>1 DEF View
    <3> QED
      BY <1>1, <3>1, LooseAre
  <2> HIDE DEF n, u
  <2>5. Plain(<<>>) /\ Plain(<<SubscribeOf(s, u)>>) /\ Names(<<>>, v.chan) /\ Names(<<SubscribeOf(s, u)>>, v.chan)
    BY <2>3, PlainAre, NamesAre
  <2>6. CASE client.ws # None /\ v.chan = None /\ ~v.awaiting
    <3>1. LookLike(s, n, Append(client.acks, AskOf(s, u)), <<SubscribeOf(s, u)>>)
      BY <2>1, <2>2, <2>3, <2>4, <2>5, <2>6, ActsMoves DEF LookLike, v
    <3> QED
      BY <1>2, <3>1
  <2>7. CASE ~(client.ws # None /\ v.chan = None /\ ~v.awaiting)
    <3>1. LookLike(s, u, client.acks, <<>>)
      BY <2>1, <2>2, <2>3, <2>4, <2>5, <2>7, ActsMoves DEF LookLike, v
    <3> QED
      BY <1>2, <3>1
  <2> QED
    BY <2>6, <2>7
<1>5. CASE Mount(s)
  <2> DEFINE m == client.mounts + 1
             u == NewSurface(m, FirstSize[s])
             n == Asking(u)
  <2>0. m \in Nat
    BY <1>1
  <2>1. u \in View
        /\ IF client.ws # None
           THEN Moves(s, n, Append(client.acks, AskOf(s, u)), <<SubscribeOf(s, u)>>)
           ELSE Moves(s, u, client.acks, <<>>)
    BY <1>5, MountIs
  <2>2. Keeps
    BY <1>5 DEF Mount, Keeps
  <2> HIDE DEF m
  <2>4. Loose(v, n) /\ Loose(v, u)
    <3>1. v.size \in Sizes
      BY <1>1 DEF View
    <3> QED
      BY <1>1, <2>0, <3>1, LooseAre
  <2> HIDE DEF u
  <2>3. n \in View
    BY <2>1 DEF View, Asking
  <2> HIDE DEF n
  <2>5. Plain(<<>>) /\ Plain(<<SubscribeOf(s, u)>>) /\ Names(<<>>, v.chan) /\ Names(<<SubscribeOf(s, u)>>, v.chan)
    BY <2>1, PlainAre, NamesAre
  <2>6. CASE client.ws # None
    <3>1. LookLike(s, n, Append(client.acks, AskOf(s, u)), <<SubscribeOf(s, u)>>)
      BY <2>1, <2>2, <2>3, <2>4, <2>5, <2>6 DEF LookLike, v
    <3> QED
      BY <1>2, <3>1
  <2>7. CASE client.ws = None
    <3>1. LookLike(s, u, client.acks, <<>>)
      BY <2>1, <2>2, <2>3, <2>4, <2>5, <2>7 DEF LookLike, v
    <3> QED
      BY <1>2, <3>1
  <2> QED
    BY <2>6, <2>7
<1>6. CASE Unmount(s)
  <2>1. \/ Leaves(s, UnsubscribeOf(v) \o <<CloseFrameOf>>)
        \/ Acts(s, NoSurface(s), client.acks, UnsubscribeOf(v)) /\ down' = down
    BY <1>6, UnmountIs DEF v
  <2>2. NoSurface(s) \in View
    BY NewIs
  <2>3. Loose(v, NoSurface(s)) /\ Plain(UnsubscribeOf(v)) /\ Names(UnsubscribeOf(v), v.chan)
    <3>1. v.size \in Sizes /\ 0 \in Nat
      BY <1>1 DEF View
    <3> QED
      BY <1>1, <3>1, LooseAre, PlainAre, NamesAre
  <2>4. CASE Acts(s, NoSurface(s), client.acks, UnsubscribeOf(v)) /\ down' = down
    <3>1. LookLike(s, NoSurface(s), client.acks, UnsubscribeOf(v))
      BY <2>2, <2>3, <2>4, ActsMoves DEF LookLike, v, Keeps
    <3> QED
      BY <1>2, <3>1
  <2> QED
    BY <1>2, <2>1, <2>4 DEF v
<1>7. ASSUME NEW size \in Sizes, SendResize(s, size)
      PROVE  \E n, a, o : LookLike(s, n, a, o)
  <2> DEFINE u == [v EXCEPT !.size = size, !.want = size]
             n == FlushedView(u)
             p == IF v.sent = size THEN <<>> ELSE <<ResizeOf(u)>>
  <2>1. IF client.ws # None /\ v.visible /\ v.chan # None
        THEN Acts(s, n, client.acks, p) ELSE Acts(s, u, client.acks, <<>>)
    BY <1>7, SendResizeIs DEF v
  <2>2. Keeps
    BY <1>7 DEF SendResize, Keeps
  <2>3. n \in View /\ u \in View /\ u.chan = v.chan /\ u.want = size /\ size # None
    BY <1>1, ViewAssumption DEF View, FlushedView, None
  <2>4. Loose(v, n) /\ Loose(v, u)
    <3>1. 0 \in Nat
      OBVIOUS
    <3> QED
      BY <1>1, <3>1, LooseAre
  <2> HIDE DEF n, u
  <2>5. Plain(<<>>) /\ Plain(<<ResizeOf(u)>>) /\ Names(<<>>, v.chan) /\ (v.chan # None => Names(<<ResizeOf(u)>>, v.chan))
    BY <2>3, PlainAre, NamesAre
  <2>6. CASE client.ws # None /\ v.visible /\ v.chan # None
    <3>1. Plain(p) /\ Names(p, v.chan)
      BY <2>5, <2>6
    <3> HIDE DEF p
    <3>2. LookLike(s, n, client.acks, p)
      BY <2>1, <2>2, <2>3, <2>4, <2>6, <3>1, ActsMoves DEF LookLike, v
    <3> QED
      BY <3>2
  <2>7. CASE ~(client.ws # None /\ v.visible /\ v.chan # None)
    <3>1. LookLike(s, u, client.acks, <<>>)
      BY <2>1, <2>2, <2>3, <2>4, <2>5, <2>7, ActsMoves DEF LookLike, v
    <3> QED
      BY <3>1
  <2> QED
    BY <2>6, <2>7
<1> QED
  BY <1>2, <1>3, <1>4, <1>5, <1>6, <1>7 DEF Looks
-----------------------------------------------------------------------------
(* Requests and their answers.                                               *)
(* A step of surface s keeps the requests unanswered those of their mounts.   *)
Fits(s, n, a) ==
  LET v == client.view[s] IN
  /\ n.mount = 0 => n.chan = None /\ ~n.visible
  /\ \/ client'.mounts = client.mounts /\ n.mount \in {0, v.mount}
     \/ client'.mounts = client.mounts + 1 /\ n.mount = client.mounts + 1
  /\ \/ a = client.acks /\ (n.mount = v.mount => (v.awaiting => n.awaiting) /\ (v.chan = None => n.chan = None))
     \/ /\ a = Append(client.acks, AskOf(s, n)) /\ n.awaiting /\ n.chan = None /\ n.mount # 0
        /\ n.mount = v.mount => ~v.awaiting \/ v.chan # None
     \/ /\ client.acks # <<>> /\ a = Tail(client.acks) /\ n.mount = v.mount
        /\ n = v \/ AskOf(s, v) = Head(client.acks)

LEMMA AwaitedMounts ==
  ASSUME Typed, Awaited, NEW s \in Surfaces, NEW n \in View, NEW a, NEW o, Moves(s, n, a, o), Fits(s, n, a)
  PROVE  /\ \A t \in Surfaces :
              /\ client'.view[t].mount \in 0..client'.mounts
              /\ client'.view[t].mount = 0 => client'.view[t].chan = None /\ ~client'.view[t].visible
         /\ \A t, u \in Surfaces : client'.view[t].mount = client'.view[u].mount /\ client'.view[t].mount # 0 => t = u
<1>1. /\ \A t \in Surfaces : client'.view[t] = IF t = s THEN n ELSE client.view[t]
      /\ client.mounts \in Nat /\ client'.mounts \in Nat /\ n.mount \in Nat
      /\ \A t \in Surfaces : client.view[t].mount \in Nat
  <2>1. client \in Client /\ client' \in Client
    BY DEF Typed, Moves
  <2> QED
    BY <2>1 DEF Moves, Client, View
<1>2. /\ \A t \in Surfaces :
              /\ client.view[t].mount \in 0..client.mounts
              /\ client.view[t].mount = 0 => client.view[t].chan = None /\ ~client.view[t].visible
      /\ \A t, u \in Surfaces : client.view[t].mount = client.view[u].mount /\ client.view[t].mount # 0 => t = u
  BY DEF Awaited
<1>3. /\ n.mount = 0 => n.chan = None /\ ~n.visible
      /\ \/ client'.mounts = client.mounts /\ n.mount \in {0, client.view[s].mount}
         \/ client'.mounts = client.mounts + 1 /\ n.mount = client.mounts + 1
  BY DEF Fits
<1>4. \A t \in Surfaces :
              /\ client'.view[t].mount \in 0..client'.mounts
              /\ client'.view[t].mount = 0 => client'.view[t].chan = None /\ ~client'.view[t].visible
  BY <1>1, <1>2, <1>3
<1>5. \A t, u \in Surfaces : client'.view[t].mount = client'.view[u].mount /\ client'.view[t].mount # 0 => t = u
  BY <1>1, <1>2, <1>3
<1> QED
  BY <1>4, <1>5

(* What it says of one request. *)
Waiting1(c, a) ==
  /\ a.mount \in 1..c.mounts
  /\ c.view[a.surf].mount = a.mount => c.view[a.surf].awaiting /\ c.view[a.surf].chan = None
Single(c) ==
  \A i, j \in 1..Len(c.acks) :
      c.view[c.acks[i].surf].mount = c.acks[i].mount /\ c.acks[j] = c.acks[i] => j = i

LEMMA AwaitedFrom ==
  ASSUME client' \in Client,
         \A i \in 1..Len(client'.acks) : Waiting1(client', client'.acks[i]), Single(client'),
         /\ \A t \in Surfaces :
              /\ client'.view[t].mount \in 0..client'.mounts
              /\ client'.view[t].mount = 0 => client'.view[t].chan = None /\ ~client'.view[t].visible
         /\ \A t, u \in Surfaces : client'.view[t].mount = client'.view[u].mount /\ client'.view[t].mount # 0 => t = u
  PROVE  Awaited'
BY DEF Awaited, Current, Waiting1, Single

LEMMA AwaitedTo ==
  ASSUME Typed, Awaited
  PROVE  /\ client.acks \in Seq(Ask) /\ Len(client.acks) \in Nat
         /\ \A i \in 1..Len(client.acks) : client.acks[i] \in Ask /\ Waiting1(client, client.acks[i])
         /\ Single(client)
BY DEF Awaited, Current, Waiting1, Single, Typed, Client

LEMMA AwaitedMoves ==
  ASSUME Typed, Awaited, NEW s \in Surfaces, NEW n \in View, NEW a, NEW o, Moves(s, n, a, o), Fits(s, n, a)
  PROVE  Awaited'
<1> DEFINE q == client.acks
           v == client.view[s]
<1>1. /\ \A t \in Surfaces : client'.view[t] = IF t = s THEN n ELSE client.view[t]
      /\ client'.acks = a /\ client' \in Client /\ client \in Client
  BY DEF Typed, Moves
<1>2. client.mounts \in Nat /\ client'.mounts \in Nat /\ n.mount \in Nat /\ v.mount \in Nat /\ a \in Seq(Ask)
  BY <1>1 DEF Client, View
<1>3. /\ q \in Seq(Ask) /\ Len(q) \in Nat
      /\ \A i \in 1..Len(q) : q[i] \in Ask /\ Waiting1(client, q[i])
      /\ Single(client)
  BY AwaitedTo
<1>4. client'.mounts >= client.mounts
  BY <1>2 DEF Fits
<1>5. n.mount \in {0, v.mount} \/ n.mount > client.mounts
  BY <1>2 DEF Fits
<1>6. \A x \in Ask : x.surf \in Surfaces /\ x.mount \in Nat /\ (x.surf = s /\ x.mount = n.mount => x = AskOf(s, n))
                     /\ (x.surf = s /\ x.mount = v.mount => x = AskOf(s, v))
  BY DEF Ask, AskOf
(* A request that was there stays what it was, unless s itself changed. *)
<1>7. \A x \in Ask : Waiting1(client, x) /\ (x.surf = s => n.mount # x.mount) => Waiting1(client', x)
  BY <1>1, <1>2, <1>4, <1>6 DEF Waiting1
<1>8. \A x \in Ask : Waiting1(client, x) /\ x.surf = s /\ n.mount = x.mount => v.mount = x.mount /\ v.awaiting /\ v.chan = None
  BY <1>2, <1>5 DEF Waiting1
<1>9. CASE a = q /\ (n.mount = v.mount => (v.awaiting => n.awaiting) /\ (v.chan = None => n.chan = None))
  <2>1. \A x \in Ask : Waiting1(client, x) => Waiting1(client', x)
    BY <1>1, <1>2, <1>4, <1>6, <1>7, <1>8, <1>9 DEF Waiting1
  <2>2. \A i \in 1..Len(q) : client'.view[q[i].surf].mount = q[i].mount => client.view[q[i].surf].mount = q[i].mount
    <3>1. SUFFICES ASSUME NEW i \in 1..Len(q), client'.view[q[i].surf].mount = q[i].mount
                   PROVE  client.view[q[i].surf].mount = q[i].mount
      OBVIOUS
    <3>2. q[i] \in Ask /\ Waiting1(client, q[i]) /\ q[i].surf \in Surfaces
      BY <1>3, <1>6
    <3> QED
      BY <1>1, <1>8, <3>1, <3>2
  <2>3. Single(client')
    BY <1>1, <1>3, <1>9, <2>2 DEF Single
  <2> QED
    BY <1>1, <1>3, <1>9, <2>1, <2>3, AwaitedMounts, AwaitedFrom
<1>10. CASE /\ a = Append(q, AskOf(s, n)) /\ n.awaiting /\ n.chan = None /\ n.mount # 0
            /\ n.mount = v.mount => ~v.awaiting \/ v.chan # None
  <2>1. \A i \in 1..Len(q) : ~(q[i].surf = s /\ n.mount = q[i].mount)
    BY <1>3, <1>8, <1>10
  <2>2. Len(a) = Len(q) + 1 /\ a[Len(q) + 1] = AskOf(s, n) /\ \A i \in 1..Len(q) : a[i] = q[i]
    BY <1>3, <1>6, <1>10
  <2>3. AskOf(s, n) \in Ask /\ AskOf(s, n).surf = s /\ AskOf(s, n).mount = n.mount
    BY <1>2 DEF AskOf, Ask
  <2>4. n.mount \in 1..client'.mounts
    <3>1. client'.view[s].mount \in 0..client'.mounts
      BY AwaitedMounts
    <3> QED
      BY <1>1, <1>2, <1>10, <3>1
  <2>5. Waiting1(client', AskOf(s, n))
    BY <1>1, <1>10, <2>3, <2>4 DEF Waiting1
  <2>6. \A i \in 1..Len(a) : i = Len(q) + 1 \/ i \in 1..Len(q)
    BY <1>3, <2>2
  <2>7. \A i \in 1..Len(q) : Waiting1(client', q[i])
    BY <1>3, <1>7, <2>1
  <2>8. \A i \in 1..Len(a) : Waiting1(client', a[i])
    BY <2>2, <2>5, <2>6, <2>7
  <2>9. \A i \in 1..Len(q) : q[i] # AskOf(s, n)
    BY <2>1, <2>3
  <2>10. \A i \in 1..Len(q) : client'.view[q[i].surf].mount = q[i].mount => client.view[q[i].surf].mount = q[i].mount
    BY <1>1, <1>3, <2>1, <1>6
  <2>11. Single(client')
    <3>1. SUFFICES ASSUME NEW i \in 1..Len(a), NEW j \in 1..Len(a), client'.view[a[i].surf].mount = a[i].mount, a[j] = a[i]
                   PROVE  j = i
      BY <1>1 DEF Single
    <3>2. CASE i \in 1..Len(q) /\ j \in 1..Len(q)
      BY <1>3, <2>2, <2>10, <3>1, <3>2 DEF Single
    <3> QED
      BY <2>2, <2>6, <2>9, <3>1, <3>2
  <2> QED
    BY <1>1, <1>3, <2>8, <2>11, AwaitedMounts, AwaitedFrom
<1>11. CASE /\ q # <<>> /\ a = Tail(q) /\ n.mount = v.mount
            /\ n = v \/ AskOf(s, v) = Head(q)
  <2>1. /\ Head(q) = q[1] /\ Len(q) = Len(a) + 1 /\ 1 \in 1..Len(q)
        /\ \A i \in 1..Len(a) : i + 1 \in 1..Len(q) /\ a[i] = q[i + 1]
    BY <1>3, <1>11, TailAt
  <2>2. \A i \in 1..Len(a) : Waiting1(client', a[i])
    <3>1. SUFFICES ASSUME NEW i \in 1..Len(a) PROVE Waiting1(client', a[i])
      OBVIOUS
    <3>2. a[i] = q[i + 1] /\ i + 1 \in 1..Len(q) /\ i + 1 # 1
      BY <2>1, <3>1
    <3>3. Waiting1(client, a[i]) /\ a[i] \in Ask
      BY <1>3, <3>2
    <3>4. CASE n = v
      BY <1>1, <1>2, <1>4, <1>6, <3>3, <3>4 DEF Waiting1
    <3>5. CASE AskOf(s, v) = Head(q)
      <4>1. ~(a[i].surf = s /\ a[i].mount = v.mount)
        <5>1. SUFFICES ASSUME a[i].surf = s, a[i].mount = v.mount PROVE FALSE
          OBVIOUS
        <5>2. a[i] = AskOf(s, v)
          BY <1>6, <3>3, <5>1
        <5>3. q[i + 1] = q[1] /\ client.view[q[1].surf].mount = q[1].mount
          BY <2>1, <3>2, <3>5, <5>2, <5>1
        <5> QED
          BY <1>3, <2>1, <3>2, <5>3 DEF Single
      <4> QED
        BY <1>7, <1>11, <3>3, <4>1
    <3> QED
      BY <1>11, <3>4, <3>5
  <2>3. Single(client')
    <3>1. SUFFICES ASSUME NEW i \in 1..Len(a), NEW j \in 1..Len(a), client'.view[a[i].surf].mount = a[i].mount, a[j] = a[i]
                   PROVE  j = i
      BY <1>1 DEF Single
    <3>2. client.view[a[i].surf].mount = a[i].mount
      <4>1. a[i] \in Ask /\ a[i].surf \in Surfaces
        BY <1>2, <1>6
      <4> QED
        BY <1>1, <1>11, <3>1, <4>1
    <3>3. j + 1 = i + 1
      <4>1. q[i + 1] = a[i] /\ q[j + 1] = q[i + 1] /\ i + 1 \in 1..Len(q) /\ j + 1 \in 1..Len(q)
        BY <2>1, <3>1
      <4> QED
        BY <1>3, <3>2, <4>1 DEF Single
    <3> QED
      BY <3>1, <3>3
  <2> QED
    BY <1>1, <1>3, <2>2, <2>3, AwaitedMounts, AwaitedFrom
<1> QED
  BY <1>9, <1>10, <1>11 DEF Fits

(* The user's steps. *)
LEMMA AwaitedLook ==
  ASSUME Typed, Awaited, NEW s \in Surfaces, Looks(s)
  PROVE  Awaited'
<1> DEFINE v == client.view[s]
<1>1. v \in View /\ client \in Client /\ client.mounts \in Nat /\ v.mount \in 0..client.mounts
  BY ViewFields DEF Typed, Client, Awaited
<1>2. SetVisibility(s) \/ (\E size \in Sizes : SendResize(s, size)) => v.mount # 0
  BY DEF SetVisibility, SendResize, Mounted
<1> HIDE DEF v
<1>3. CASE SetVisibility(s) /\ v.visible
  <2> DEFINE n == Shut([v EXCEPT !.visible = FALSE])
  <2>1. Acts(s, n, client.acks, UnsubscribeOf(v))
    BY <1>3, HideIs DEF v
  <2>2. n \in View /\ n.mount = v.mount /\ n.awaiting = v.awaiting /\ n.chan = None /\ ~n.visible
    BY <1>1 DEF View, Shut, None
  <2> HIDE DEF n
  <2>3. Moves(s, n, client.acks, UnsubscribeOf(v)) /\ client'.mounts = client.mounts
    BY <2>1, ActsMoves
  <2>4. Fits(s, n, client.acks)
    BY <2>2, <2>3 DEF Fits, v
  <2> QED
    BY <2>2, <2>3, <2>4, AwaitedMoves
<1>4. CASE SetVisibility(s) /\ ~v.visible
  <2> DEFINE u == [v EXCEPT !.visible = TRUE]
             n == Asking(u)
  <2>1. IF client.ws # None /\ v.chan = None /\ ~v.awaiting
        THEN Acts(s, n, Append(client.acks, AskOf(s, u)), <<SubscribeOf(s, u)>>)
        ELSE Acts(s, u, client.acks, <<>>)
    BY <1>4, ShowIs DEF v
  <2>2. /\ n \in View /\ u \in View /\ n.mount = v.mount /\ u.mount = v.mount /\ n.awaiting
        /\ n.chan = v.chan /\ u.chan = v.chan /\ u.awaiting = v.awaiting /\ AskOf(s, u) = AskOf(s, n)
    BY <1>1 DEF View, Asking, AskOf
  <2> HIDE DEF n, u
  <2>3. client'.mounts = client.mounts
    BY <2>1, ActsMoves
  <2>4. CASE client.ws # None /\ v.chan = None /\ ~v.awaiting
    <3>1. Fits(s, n, Append(client.acks, AskOf(s, u)))
      BY <1>2, <1>4, <2>2, <2>3, <2>4 DEF Fits, v
    <3> QED
      BY <2>1, <2>2, <2>4, <3>1, ActsMoves, AwaitedMoves
  <2>5. CASE ~(client.ws # None /\ v.chan = None /\ ~v.awaiting)
    <3>1. Fits(s, u, client.acks)
      BY <1>2, <1>4, <2>2, <2>3 DEF Fits, v
    <3> QED
      BY <2>1, <2>2, <2>5, <3>1, ActsMoves, AwaitedMoves
  <2> QED
    BY <2>4, <2>5
<1>5. CASE Mount(s)
  <2> DEFINE m == client.mounts + 1
             u == NewSurface(m, FirstSize[s])
             n == Asking(u)
  <2>1. /\ client'.mounts = m /\ u \in View
        /\ IF client.ws # None
           THEN Moves(s, n, Append(client.acks, AskOf(s, u)), <<SubscribeOf(s, u)>>)
           ELSE Moves(s, u, client.acks, <<>>)
    BY <1>5, MountIs
  <2>2. /\ n \in View /\ n.mount = m /\ u.mount = m /\ n.awaiting /\ n.chan = None /\ u.chan = None
        /\ AskOf(s, u) = AskOf(s, n)
    BY <2>1 DEF NewSurface, View, Asking, AskOf
  <2>3. m # v.mount /\ m # 0
    BY <1>1
  <2> HIDE DEF n, u
  <2>4. CASE client.ws # None
    <3>1. Fits(s, n, Append(client.acks, AskOf(s, u)))
      BY <2>1, <2>2, <2>3 DEF Fits, v
    <3> QED
      BY <2>1, <2>2, <2>4, <3>1, AwaitedMoves
  <2>5. CASE client.ws = None
    <3>1. Fits(s, u, client.acks)
      BY <2>1, <2>2, <2>3 DEF Fits, v
    <3> QED
      BY <2>1, <2>2, <2>5, <3>1, AwaitedMoves
  <2> QED
    BY <2>4, <2>5
<1>6. CASE Unmount(s)
  <2>1. CASE Leaves(s, UnsubscribeOf(v) \o <<CloseFrameOf>>)
    <3>1. /\ client'.acks = <<>> /\ \A t \in Surfaces : client'.view[t].mount = 0
          /\ \A t \in Surfaces : client'.view[t] = IF t = s THEN NoSurface(s) ELSE client.view[t]
          /\ client'.mounts = client.mounts
      BY <2>1 DEF Leaves
    <3>2. NoSurface(s).chan = None /\ ~NoSurface(s).visible
      BY DEF NoSurface, NewSurface
    <3> QED
      BY <1>1, <3>1, <3>2 DEF Awaited
  <2>2. CASE Acts(s, NoSurface(s), client.acks, UnsubscribeOf(v))
    <3>1. NoSurface(s).chan = None /\ ~NoSurface(s).visible /\ NoSurface(s).mount = 0 /\ NoSurface(s) \in View
      BY NewIs DEF NoSurface, NewSurface
    <3>2. Moves(s, NoSurface(s), client.acks, UnsubscribeOf(v)) /\ client'.mounts = client.mounts
      BY <2>2, ActsMoves
    <3>3. v.mount # 0
      BY <1>6 DEF Unmount, Mounted, v
    <3>4. Fits(s, NoSurface(s), client.acks)
      BY <3>1, <3>2, <3>3 DEF Fits, v
    <3> QED
      BY <3>1, <3>2, <3>4, AwaitedMoves
  <2> QED
    BY <1>6, <2>1, <2>2, UnmountIs DEF v
<1>7. ASSUME NEW size \in Sizes, SendResize(s, size)
      PROVE  Awaited'
  <2> DEFINE u == [v EXCEPT !.size = size, !.want = size]
             n == FlushedView(u)
             p == IF v.sent = size THEN <<>> ELSE <<ResizeOf(u)>>
  <2>1. IF client.ws # None /\ v.visible /\ v.chan # None
        THEN Acts(s, n, client.acks, p) ELSE Acts(s, u, client.acks, <<>>)
    BY <1>7, SendResizeIs DEF v
  <2>2. /\ n \in View /\ u \in View /\ u.mount = v.mount /\ n.mount = v.mount
        /\ u.awaiting = v.awaiting /\ n.awaiting = v.awaiting /\ u.chan = v.chan /\ n.chan = v.chan
    BY <1>1 DEF View, FlushedView, None
  <2> HIDE DEF n, u, p
  <2>3. client'.mounts = client.mounts
    BY <2>1, ActsMoves
  <2>4. Fits(s, n, client.acks) /\ Fits(s, u, client.acks)
    BY <1>2, <1>7, <2>2, <2>3 DEF Fits, v
  <2> QED
    BY <2>1, <2>2, <2>4, ActsMoves, AwaitedMoves
<1> QED
  BY <1>3, <1>4, <1>5, <1>6, <1>7 DEF Looks
-----------------------------------------------------------------------------
(* What the browser makes of a frame it reads: of the surface, and of the     *)
(* frames it sends.                                                          *)
Answered(v, n, f) ==
  /\ n.expected = v.expected /\ n.rev = v.rev /\ n.shown = v.shown /\ n.ended = v.ended
  /\ (n.chan = f.chan /\ n.phase = "baseline") \/ (n.chan = None /\ n.phase = "none")
Reading(v, n, f) ==
  CASE f.kind = "ack" -> n = v \/ Answered(v, n, f)
    [] f.kind = "error" -> Loose(v, n)
    [] f.kind = "snapshot" -> v.chan = f.chan /\ n = TakenView(v, f)
    [] f.kind = "output" -> v.chan = f.chan /\ v.phase = "live" /\ f.rev >= v.rev
                            /\ \/ f.chunk = v.expected + 1 /\ n = WrittenView(v, f)
                               \/ Loose(v, n) /\ n.chan = None
    [] f.kind = "exit" -> v.chan = f.chan /\ n = [v EXCEPT !.ended = TRUE]
    [] OTHER -> FALSE
ReadLike(s, n, a, o, f) ==
  /\ Acts(s, n, a, o) /\ Plain(o) /\ n \in View /\ Fits(s, n, a)
  /\ Reading(client.view[s], n, f)
  /\ Names(o, client.view[s].chan) \/ (f.kind = "ack" /\ Names(o, f.chan))

LEMMA FitsTail ==
  ASSUME Typed, Awaited, client.acks # <<>>, client'.mounts = client.mounts,
         NEW n, n.mount = client.view[Head(client.acks).surf].mount,
         n = client.view[Head(client.acks).surf] \/ n.mount = Head(client.acks).mount
  PROVE  Fits(Head(client.acks).surf, n, Tail(client.acks))
<1> DEFINE x == Head(client.acks)
           v == client.view[x.surf]
<1>1. x \in Ask /\ x.surf \in Surfaces /\ x.mount \in Nat
  <2>1. client.acks \in Seq(Ask)
    BY DEF Typed, Client
  <2>2. x \in Ask
    BY <2>1, TailAt
  <2> QED
    BY <2>2 DEF Ask
<1>2. x.mount \in 1..client.mounts
  <2>1. x = client.acks[1] /\ 1 \in 1..Len(client.acks)
    BY TailAt DEF Typed, Client
  <2> QED
    BY <2>1 DEF Awaited
<1>3. v.mount = 0 => v.chan = None /\ ~v.visible
  BY <1>1 DEF Awaited
<1>4. n.mount = 0 => n.chan = None /\ ~n.visible
  BY <1>1, <1>2, <1>3
<1>5. n = v \/ AskOf(x.surf, v) = x
  BY <1>1 DEF AskOf, Ask
<1> QED
  BY <1>4, <1>5 DEF Fits

LEMMA HeadNamed ==
  ASSUME Typed, Fresh, down # <<>>, Addressed(Head(down))
  PROVE  Head(down).chan \in 1..(runtime.next - 1) /\ Head(down).chan # None /\ Head(down).chan \in Nat
<1>1. Head(down) = down[1] /\ 1 \in 1..Len(down) /\ runtime.next \in Nat
  BY TailAt DEF Typed, Sound, Runtime
<1> QED
  BY <1>1 DEF Fresh, None

LEMMA ReadAck ==
  ASSUME Typed, Socketed, Awaited, Fresh, ClientReads, NEW f, f = Head(down), f.kind = "ack"
  PROVE  Rests \/ \E s \in Surfaces : \E n, a, o : ReadLike(s, n, a, o, f)
<1> DEFINE x == Head(client.acks)
           s == x.surf
           v == client.view[s]
           u == OpenedView(v, f.chan)
           t == Tail(client.acks)
<1>1. \/ client.acks = <<>> /\ Rests
      \/ /\ client.acks # <<>> /\ x \in Ask
         /\ IF v.mount # x.mount
            THEN Acts(s, v, t, <<Unsubscribe(f.chan)>>)
            ELSE IF ~v.visible
            THEN Acts(s, Shut(u), t, UnsubscribeOf(u))
            ELSE IF u.chan # None /\ u.want # None /\ client.ws # None
            THEN Acts(s, FlushedView(u), t, IF v.sent = v.want THEN <<>> ELSE <<ResizeOf(u)>>)
            ELSE Acts(s, u, t, <<>>)
  BY AckIs
<1>2. SUFFICES ASSUME client.acks # <<>>, x \in Ask PROVE \E n, a, o : ReadLike(s, n, a, o, f) /\ s \in Surfaces
  BY <1>1
<1>3. /\ s \in Surfaces /\ v \in View /\ client \in Client
      /\ f \in DownFrame
  BY <1>2, ReadsIs, ViewFields DEF Typed, Ask
<1>4. f.chan \in Nat /\ f.chan # None
  BY ReadsIs, HeadNamed DEF Heads, Addressed
<1>5. /\ u \in View /\ u.chan = f.chan /\ u.want = v.want /\ u.mount = v.mount /\ u.visible = v.visible
      /\ Answered(v, u, f) /\ Shut(u) \in View /\ Answered(v, Shut(u), f) /\ Shut(u).mount = v.mount
      /\ u.want # None => FlushedView(u) \in View /\ Answered(v, FlushedView(u), f) /\ FlushedView(u).mount = v.mount
  BY <1>3, <1>4 DEF OpenedView, Answered, View, Shut, FlushedView, None
<1> HIDE DEF u
<1>6. Plain(<<>>) /\ Plain(UnsubscribeOf(u)) /\ (u.want # None => Plain(<<ResizeOf(u)>>))
  BY <1>3, <1>5, PlainAre
<1>7. Names(<<>>, f.chan) /\ Names(UnsubscribeOf(u), f.chan) /\ Names(<<ResizeOf(u)>>, f.chan)
  BY <1>3, <1>4, <1>5, NamesAre
<1>8. UnsubscribeOf(u) = <<Unsubscribe(f.chan)>>
  BY <1>4, <1>5 DEF UnsubscribeOf
<1>9. CASE v.mount # x.mount
  <2>1. Acts(s, v, t, UnsubscribeOf(u))
    BY <1>1, <1>2, <1>8, <1>9
  <2>2. Fits(s, v, t)
    BY <1>2, <2>1, FitsTail, ActsMoves
  <2>3. ReadLike(s, v, t, UnsubscribeOf(u), f)
    BY <1>3, <1>6, <1>7, <2>1, <2>2 DEF ReadLike, Reading
  <2> QED
    BY <1>3, <2>3
<1>10. CASE v.mount = x.mount /\ ~v.visible
  <2>1. Acts(s, Shut(u), t, UnsubscribeOf(u))
    BY <1>1, <1>2, <1>10
  <2>2. Fits(s, Shut(u), t)
    BY <1>2, <1>5, <1>10, <2>1, FitsTail, ActsMoves
  <2>3. ReadLike(s, Shut(u), t, UnsubscribeOf(u), f)
    BY <1>5, <1>6, <1>7, <2>1, <2>2 DEF ReadLike, Reading
  <2> QED
    BY <1>3, <2>3
<1>11. CASE v.mount = x.mount /\ v.visible /\ u.chan # None /\ u.want # None /\ client.ws # None
  <2> DEFINE o == IF v.sent = v.want THEN <<>> ELSE <<ResizeOf(u)>>
  <2>1. Acts(s, FlushedView(u), t, o)
    BY <1>1, <1>2, <1>11
  <2>2. Fits(s, FlushedView(u), t)
    BY <1>2, <1>5, <1>11, <2>1, FitsTail, ActsMoves
  <2>3. Plain(o) /\ Names(o, f.chan)
    BY <1>6, <1>7, <1>11
  <2> HIDE DEF o
  <2>4. ReadLike(s, FlushedView(u), t, o, f)
    BY <1>5, <1>11, <2>1, <2>2, <2>3 DEF ReadLike, Reading
  <2> QED
    BY <1>3, <2>4
<1>12. CASE v.mount = x.mount /\ v.visible /\ ~(u.chan # None /\ u.want # None /\ client.ws # None)
  <2>1. Acts(s, u, t, <<>>)
    BY <1>1, <1>2, <1>12
  <2>2. Fits(s, u, t)
    BY <1>2, <1>5, <1>12, <2>1, FitsTail, ActsMoves
  <2>3. ReadLike(s, u, t, <<>>, f)
    BY <1>5, <1>6, <1>7, <2>1, <2>2 DEF ReadLike, Reading
  <2> QED
    BY <1>3, <2>3
<1> QED
  BY <1>9, <1>10, <1>11, <1>12

LEMMA ReadOther ==
  ASSUME Typed, Socketed, Awaited, Fresh, ClientReads, NEW f, f = Head(down),
         f.kind \in {"error", "snapshot", "output", "exit"}
  PROVE  Rests \/ \E s \in Surfaces : \E n, a, o : ReadLike(s, n, a, o, f)
<1>1. f \in DownFrame /\ client \in Client /\ Plain(<<>>) /\ \A c : Names(<<>>, c)
  BY ReadsIs DEF Typed, Plain, Names
<1>2. CASE f.kind = "error"
  <2> DEFINE x == Head(client.acks)
             s == x.surf
             v == client.view[s]
             n == IF v.mount # x.mount THEN v ELSE [v EXCEPT !.awaiting = FALSE]
  <2>1. Rests \/ (client.acks # <<>> /\ x \in Ask /\ Acts(s, n, Tail(client.acks), <<>>))
    BY <1>2, ErrorIs
  <2>2. SUFFICES ASSUME client.acks # <<>>, x \in Ask, Acts(s, n, Tail(client.acks), <<>>)
                 PROVE  s \in Surfaces /\ ReadLike(s, n, Tail(client.acks), <<>>, f)
    BY <2>1
  <2>3. s \in Surfaces /\ v \in View
    BY <1>1, <2>2, ViewFields DEF Ask
  <2>4. n \in View /\ n.mount = v.mount /\ Loose(v, n) /\ (n = v \/ n.mount = x.mount)
    <3>1. CASE v.mount # x.mount
      <4>1. Loose(v, v)
        <5>1. v.size \in Sizes /\ 0 \in Nat
          BY <2>3 DEF View
        <5> QED
          BY <2>3, <5>1, LooseAre
      <4> QED
        BY <2>3, <3>1, <4>1
    <3>2. CASE v.mount = x.mount
      <4> DEFINE m == [v EXCEPT !.awaiting = FALSE]
      <4>1. /\ m \in View /\ m.mount = v.mount /\ m.expected = v.expected /\ m.rev = v.rev /\ m.chan = v.chan
            /\ m.phase = v.phase /\ m.shown = v.shown /\ m.ended = v.ended /\ v.expected \in Nat /\ v.rev \in Nat
        BY <2>3 DEF View
      <4>2. n = m
        BY <3>2
      <4> HIDE DEF m, n
      <4>3. Loose(v, m)
        BY <4>1 DEF Loose
      <4> QED
        BY <3>2, <4>1, <4>2, <4>3
    <3> QED
      BY <3>1, <3>2
  <2>5. Fits(s, n, Tail(client.acks))
    BY <2>2, <2>4, FitsTail, ActsMoves
  <2> HIDE DEF n
  <2> QED
    BY <1>1, <1>2, <2>2, <2>3, <2>4, <2>5 DEF ReadLike, Reading
(* Frames that name a channel leave the requests alone, or add one. *)
<1>3. ASSUME NEW s \in Surfaces, NEW n \in View, Acts(s, n, client.acks, <<>>),
             n.mount = client.view[s].mount, n.awaiting = client.view[s].awaiting, n.chan = client.view[s].chan,
             n.visible = client.view[s].visible, Reading(client.view[s], n, f)
      PROVE  ReadLike(s, n, client.acks, <<>>, f)
  <2>1. client.view[s].mount = 0 => client.view[s].chan = None /\ ~client.view[s].visible
    BY DEF Awaited
  <2>2. client'.mounts = client.mounts
    BY <1>3, ActsMoves
  <2>3. Fits(s, n, client.acks)
    BY <1>3, <2>1, <2>2 DEF Fits
  <2> QED
    BY <1>1, <1>3, <2>3 DEF ReadLike
<1>4. CASE f.kind = "snapshot"
  <2>1. SUFFICES ASSUME NEW s \in Surfaces, client.view[s].chan = f.chan, Acts(s, TakenView(client.view[s], f), client.acks, <<>>)
                 PROVE  ReadLike(s, TakenView(client.view[s], f), client.acks, <<>>, f)
    BY <1>4, SnapshotIs
  <2> DEFINE v == client.view[s]
             n == TakenView(v, f)
  <2>2. v \in View /\ f \in SnapshotFrame
    BY <1>1, <1>4, ViewFields DEF DownFrame, AckFrame, ErrorFrame, OutputFrame, ExitFrame, ClosedFrame
  <2>3. n \in View /\ n.mount = v.mount /\ n.awaiting = v.awaiting /\ n.chan = v.chan /\ n.visible = v.visible
    BY <2>2 DEF View, TakenView, SnapshotFrame
  <2>4. Reading(v, n, f)
    BY <1>4, <2>1 DEF Reading
  <2> HIDE DEF n
  <2>5. ReadLike(s, n, client.acks, <<>>, f)
    BY <1>3, <2>1, <2>3, <2>4 DEF n
  <2> QED
    BY <2>5 DEF n
<1>5. CASE f.kind = "output"
  <2>1. \/ Rests
        \/ \E s \in Surfaces :
               LET v == client.view[s] IN
               /\ v.chan = f.chan
               /\ IF v.phase # "live" \/ f.rev < v.rev THEN Rests
                  ELSE IF f.chunk = v.expected + 1 THEN Acts(s, WrittenView(v, f), client.acks, <<>>)
                  ELSE IF f.rev = v.rev /\ f.chunk <= v.expected THEN Rests
                  ELSE IF v.visible
                  THEN Acts(s, Asking(Shut(v)), Append(client.acks, AskOf(s, v)),
                            UnsubscribeOf(v) \o <<SubscribeOf(s, v)>>)
                  ELSE Acts(s, Shut(v), client.acks, UnsubscribeOf(v))
    BY <1>5, OutputIs
  <2>2. SUFFICES ASSUME NEW s \in Surfaces,
                        LET v == client.view[s] IN
                        /\ v.chan = f.chan /\ v.phase = "live" /\ ~(f.rev < v.rev)
                        /\ IF f.chunk = v.expected + 1 THEN Acts(s, WrittenView(v, f), client.acks, <<>>)
                           ELSE IF v.visible
                           THEN Acts(s, Asking(Shut(v)), Append(client.acks, AskOf(s, v)),
                                     UnsubscribeOf(v) \o <<SubscribeOf(s, v)>>)
                           ELSE Acts(s, Shut(v), client.acks, UnsubscribeOf(v))
                 PROVE  \E n, a, o : ReadLike(s, n, a, o, f)
    BY <2>1
  <2> DEFINE v == client.view[s]
  <2>3. v \in View /\ f \in OutputFrame
    BY <1>1, <1>5, ViewFields DEF DownFrame, AckFrame, ErrorFrame, SnapshotFrame, ExitFrame, ClosedFrame
  <2>4. v.chan = f.chan /\ v.phase = "live" /\ f.rev >= v.rev /\ v.chan \in Nat
    BY <2>2, <2>3 DEF View, OutputFrame
  <2>5. v.mount = 0 => v.chan = None /\ ~v.visible
    BY DEF Awaited
  <2>9. v.chan # None
    BY <1>5, <2>4, ReadsIs, HeadNamed DEF Heads, Addressed
  <2>6. CASE f.chunk = v.expected + 1
    <3> DEFINE n == WrittenView(v, f)
    <3>1. n \in View /\ n.mount = v.mount /\ n.awaiting = v.awaiting /\ n.chan = v.chan /\ n.visible = v.visible
      BY <2>3 DEF View, WrittenView, OutputFrame
    <3>2. Reading(v, n, f)
      BY <1>5, <2>4, <2>6 DEF Reading
    <3>3. Acts(s, n, client.acks, <<>>)
      BY <2>2, <2>6
    <3> HIDE DEF n
    <3>4. ReadLike(s, n, client.acks, <<>>, f)
      BY <1>3, <3>1, <3>2, <3>3
    <3> QED
      BY <3>4
  <2>7. CASE f.chunk # v.expected + 1 /\ v.visible
    <3> DEFINE n == Asking(Shut(v))
               o == UnsubscribeOf(v) \o <<SubscribeOf(s, v)>>
    <3>1. n \in View /\ n.mount = v.mount /\ n.awaiting /\ n.chan = None /\ AskOf(s, v) = AskOf(s, n)
      BY <2>3 DEF View, Asking, Shut, None, AskOf
    <3>2. Loose(v, n) /\ Plain(o) /\ Names(o, v.chan)
      <4>1. 0 \in Nat /\ v.size \in Sizes
        BY <2>3 DEF View
      <4> QED
        BY <2>3, <4>1, LooseAre, PlainAre, NamesAre
    <3>3. Acts(s, n, Append(client.acks, AskOf(s, v)), o)
      BY <2>2, <2>7
    <3>4. v.mount # 0
      BY <2>5, <2>7
    <3> HIDE DEF n, o
    <3>5. client'.mounts = client.mounts
      BY <3>3, ActsMoves
    <3>7. Fits(s, n, Append(client.acks, AskOf(s, v)))
      BY <2>9, <3>1, <3>4, <3>5 DEF Fits
    <3>8. ReadLike(s, n, Append(client.acks, AskOf(s, v)), o, f)
      BY <1>5, <2>4, <3>1, <3>2, <3>3, <3>7 DEF ReadLike, Reading
    <3> QED
      BY <3>8
  <2>8. CASE f.chunk # v.expected + 1 /\ ~v.visible
    <3> DEFINE n == Shut(v)
               o == UnsubscribeOf(v)
    <3>1. n \in View /\ n.mount = v.mount /\ n.awaiting = v.awaiting /\ n.chan = None /\ ~n.visible
      BY <2>3, <2>8 DEF View, Shut, None
    <3>2. Loose(v, n) /\ Plain(o) /\ Names(o, v.chan)
      <4>1. 0 \in Nat /\ v.size \in Sizes
        BY <2>3 DEF View
      <4> QED
        BY <2>3, <4>1, LooseAre, PlainAre, NamesAre
    <3>3. Acts(s, n, client.acks, o)
      BY <2>2, <2>8
    <3> HIDE DEF n, o
    <3>5. client'.mounts = client.mounts
      BY <3>3, ActsMoves
    <3>7. Fits(s, n, client.acks)
      BY <3>1, <3>5 DEF Fits
    <3>8. ReadLike(s, n, client.acks, o, f)
      BY <1>5, <2>4, <3>1, <3>2, <3>3, <3>7 DEF ReadLike, Reading
    <3> QED
      BY <3>8
  <2> QED
    BY <2>6, <2>7, <2>8
<1>6. CASE f.kind = "exit"
  <2>1. SUFFICES ASSUME NEW s \in Surfaces, client.view[s].chan = f.chan, Acts(s, [client.view[s] EXCEPT !.ended = TRUE], client.acks, <<>>)
                 PROVE  ReadLike(s, [client.view[s] EXCEPT !.ended = TRUE], client.acks, <<>>, f)
    BY <1>6, ExitIs
  <2> DEFINE v == client.view[s]
             n == [v EXCEPT !.ended = TRUE]
  <2>2. v \in View
    BY <1>1, ViewFields
  <2>3. n \in View /\ n.mount = v.mount /\ n.awaiting = v.awaiting /\ n.chan = v.chan /\ n.visible = v.visible
    BY <2>2 DEF View
  <2>4. Reading(v, n, f)
    BY <1>6, <2>1 DEF Reading
  <2> HIDE DEF n
  <2>5. ReadLike(s, n, client.acks, <<>>, f)
    BY <1>3, <2>1, <2>3, <2>4 DEF n
  <2> QED
    BY <2>5 DEF n
<1> QED
  BY <1>2, <1>4, <1>5, <1>6
-----------------------------------------------------------------------------
(* Types, ownership, sockets and requests over the browser's steps.           *)
Base == Typed /\ Owning /\ Socketed /\ Awaited

LEMMA OwningSame ==
  ASSUME Owning, runtime' = runtime
  PROVE  Owning'
BY DEF Owning, Owns

LEMMA CutAt ==
  ASSUME NEW T, NEW s \in Seq(T), NEW x \in T, NEW m \in 0..Len(s)
  PROVE  LET q == Append(SubSeq(s, 1, m), x)
         IN  /\ q \in Seq(T) /\ Len(q) = m + 1 /\ q[m + 1] = x /\ m \in Nat
             /\ \A i \in 1..m : i \in 1..Len(s) /\ i \in 1..Len(q) /\ q[i] = s[i]
             /\ \A i \in 1..Len(q) : i \in 1..m \/ i = m + 1
<1> DEFINE p == SubSeq(s, 1, m)
<1>1. p \in Seq(T) /\ Len(p) = m /\ \A i \in 1..m : p[i] = s[i]
  OBVIOUS
<1>2. \A i \in 1..m : i \in 1..Len(s)
  OBVIOUS
<1> HIDE DEF p
<1>3. /\ Append(p, x) \in Seq(T) /\ Len(Append(p, x)) = m + 1 /\ Append(p, x)[m + 1] = x
      /\ \A i \in 1..m : Append(p, x)[i] = p[i]
  BY <1>1
<1> QED
  BY <1>1, <1>2, <1>3 DEF p

LEMMA LeavesBase ==
  ASSUME Base, NEW s \in Surfaces, Looks(s), Leaves(s, UnsubscribeOf(client.view[s]) \o <<CloseFrameOf>>)
  PROVE  Typed' /\ Owning' /\ Socketed'
<1> DEFINE v == client.view[s]
           p == UnsubscribeOf(v)
           o == p \o <<CloseFrameOf>>
<1>1. UNCHANGED <<holder, link, runtime>> /\ left' \in Left /\ v \in View /\ Typed /\ Socketed /\ Awaited /\ Owning
  BY LookIs, ViewFields DEF Base, Typed
<1>2. /\ client' \in Client /\ client'.out = <<>> /\ client'.acks = <<>>
      /\ client'.ws = None /\ ~client'.broken /\ client'.made = client.made
      /\ \A t \in Surfaces : client'.view[t] = IF t = s THEN NoSurface(s) ELSE client.view[t]
      /\ \A t \in Surfaces : client'.view[t].mount = 0
      /\ Appends(o) /\ down' = <<>>
  BY DEF Leaves
<1>3. Typed'
  BY <1>1, <1>2 DEF Typed, Appends
<1>4. p \in Seq(UpFrame) /\ <<CloseFrameOf>> \in Seq(UpFrame) /\ Plain(p)
      /\ <<CloseFrameOf>>[1].kind = "close" /\ Len(<<CloseFrameOf>>) = 1
  <2>1. CloseFrameOf \in UpFrame /\ CloseFrameOf.kind = "close"
    BY DEF CloseFrameOf, UpFrame, CloseFrame
  <2>2. Plain(p)
    BY <1>1, PlainAre
  <2> DEFINE c == CloseFrameOf
  <2>3. c \in UpFrame /\ c.kind = "close"
    BY <2>1
  <2> HIDE DEF c, p
  <2>4. <<c>> \in Seq(UpFrame) /\ <<c>>[1].kind = "close" /\ Len(<<c>>) = 1
    BY <2>3
  <2> QED
    BY <2>2, <2>4 DEF Plain, c
<1> HIDE DEF p
<1>5. /\ o \in Seq(UpFrame) /\ Len(o) = Len(p) + 1 /\ o[Len(o)].kind = "close" /\ Len(p) \in Nat
      /\ \A i \in 1..Len(o) : o[i].kind = "close" => i = Len(o)
  BY <1>4, JoinedAt DEF Plain
<1> HIDE DEF o
<1>6. ASSUME NEW w \in 1..Len(up)
      PROVE  /\ ~Reaches(w) => up'[w] = up[w]
             /\ Reaches(w) => /\ Closes(w)'
                              /\ w <= client.made
                              /\ \A i \in 1..Len(up'[w]) : up'[w][i].kind = "close" => i = Len(up'[w])
  <2>1. up'[w] = IF Reaches(w) THEN up[w] \o o ELSE up[w]
    BY <1>2, <1>6 DEF Appends
  <2>2. SUFFICES ASSUME Reaches(w)
                 PROVE  /\ Closes(w)'
                        /\ w <= client.made
                        /\ \A i \in 1..Len(up'[w]) : up'[w][i].kind = "close" => i = Len(up'[w])
    BY <2>1
  <2>3. w = client.ws /\ Live /\ w = client.made /\ w \in Nat
    BY <1>1, <2>2 DEF Reaches, Live, None, Typed
  <2> DEFINE x == up[w]
  <2>4. x \in Seq(UpFrame) /\ up'[w] = x \o o /\ \A i \in 1..Len(x) : x[i].kind # "close"
    BY <1>1, <2>1, <2>2, <2>3 DEF Typed, Socketed, Closes
  <2> HIDE DEF x
  <2>5. /\ Len(x \o o) \in 1..Len(x \o o) /\ (x \o o)[Len(x \o o)].kind = "close"
        /\ \A i \in 1..Len(x \o o) : (x \o o)[i].kind = "close" => i = Len(x \o o)
    <3>1. /\ Len(x \o o) = Len(x) + Len(o) /\ Len(x) \in Nat /\ Len(o) \in Nat
          /\ \A i \in 1..Len(o) : Len(x) + i \in 1..Len(x \o o) /\ (x \o o)[Len(x) + i] = o[i]
          /\ \A i \in 1..Len(x \o o) :
               \/ i \in 1..Len(x) /\ (x \o o)[i] = x[i]
               \/ \E k \in 1..Len(o) : i = Len(x) + k /\ (x \o o)[i] = o[k]
      BY <1>5, <2>4, JoinedAt
    <3>2. Len(o) \in 1..Len(o)
      BY <1>5, <3>1
    <3> QED
      BY <1>5, <2>4, <3>1, <3>2
  <2>6. Closes(w)'
    <3>1. \E i \in 1..Len(up'[w]) : up'[w][i].kind = "close"
      BY <2>4, <2>5
    <3> QED
      BY <3>1 DEF Closes
  <2>7. \A i \in 1..Len(up'[w]) : up'[w][i].kind = "close" => i = Len(up'[w])
    BY <2>4, <2>5
  <2> QED
    BY <2>3, <2>6, <2>7
<1>7. Len(up') = Len(up)
  BY <1>2 DEF Appends
<1>8. \A w : ~(Live') /\ ~(Reaches(w)' /\ w \in 1..Len(up))
  BY <1>2 DEF Live, Reaches, None
<1>9. \A w : Owned(w)' = Owned(w)
  BY <1>1 DEF Owned, Channels
<1>10. \A w \in 1..Len(up) : ~Reaches(w) => (Closes(w)' <=> Closes(w))
  BY <1>6 DEF Closes
<1>11. \A t \in Surfaces : client'.view[t].chan = None
  <2>1. NoSurface(s).chan = None
    BY DEF NoSurface, NewSurface
  <2> QED
    BY <1>1, <1>2, <2>1 DEF Awaited
<1>12. \A w \in 1..Len(up') : \A i \in 1..Len(up'[w]) : up'[w][i].kind = "close" => i = Len(up'[w])
  BY <1>1, <1>6, <1>7 DEF Socketed
<1>13. \A w \in 1..Len(up') : Reaches(w)' \/ Closes(w)' \/ (up'[w] = <<>> /\ Owned(w)' = {})
  BY <1>1, <1>6, <1>7, <1>9, <1>10 DEF Socketed
<1>14. \A w \in 1..Len(up') : w > client'.made => up'[w] = <<>>
  <2>1. client.made \in Nat /\ Len(up) \in Nat
    BY <1>1 DEF Typed, Client
  <2>2. \A w \in 1..Len(up) : w > client.made => up[w] = <<>>
    BY <1>1 DEF Socketed
  <2> QED
    BY <1>2, <1>6, <1>7, <2>1, <2>2
<1>15. \A c \in Channels' : runtime'.subs[c].ws \in 1..client'.made
  BY <1>1, <1>2 DEF Socketed, Channels
<1>16. Socketed'
  BY <1>2, <1>8, <1>11, <1>12, <1>13, <1>14, <1>15 DEF Socketed
<1> QED
  BY <1>1, <1>3, <1>16, OwningSame

LEMMA LookBase ==
  ASSUME Base, NEW s \in Surfaces, Looks(s)
  PROVE  Base'
<1>1. UNCHANGED <<holder, link, runtime>> /\ left' \in Left /\ Typed /\ Socketed /\ Awaited /\ Owning
  BY LookIs DEF Base
<1>2. CASE Leaves(s, UnsubscribeOf(client.view[s]) \o <<CloseFrameOf>>)
  BY <1>1, <1>2, LeavesBase, AwaitedLook DEF Base
<1>3. ASSUME NEW n, NEW a, NEW o, LookLike(s, n, a, o)
      PROVE  Base'
  <2>1. Keeps /\ Moves(s, n, a, o) /\ Plain(o) /\ n \in View /\ Loose(client.view[s], n) /\ (client.ws = None => a = client.acks)
    BY <1>3 DEF LookLike
  <2>2. Typed'
    BY <1>1, <2>1, MovesTyped, ConsumesTyped
  <2>3. client.ws = None => n.chan = None /\ a = <<>>
    BY <1>1, <2>1 DEF Socketed, Loose
  <2>4. Socketed'
    BY <1>1, <2>1, <2>3, SocketedMoves
  <2> QED
    BY <1>1, <2>2, <2>4, OwningSame, AwaitedLook DEF Base
<1> QED
  BY <1>1, <1>2, <1>3, LookIs

LEMMA ReadBase ==
  ASSUME Base, Fresh, ClientReads, Head(down).kind # "closed"
  PROVE  Base' /\ Consumes /\ UNCHANGED <<holder, link, runtime, left>>
         /\ (Rests \/ \E s \in Surfaces : \E n, a, o : ReadLike(s, n, a, o, Head(down)))
<1> DEFINE f == Head(down)
<1>1. /\ Heads(f) /\ f \in DownFrame /\ Consumes /\ UNCHANGED <<holder, link, runtime, left>>
      /\ Typed /\ Socketed /\ Awaited /\ Owning /\ left \in Left
  BY ReadsIs DEF Base, Consumes, Heads, ClientReads, Typed
<1>2. client.ws # None
  BY <1>1 DEF Socketed, Consumes
<1>3. Rests \/ \E s \in Surfaces : \E n, a, o : ReadLike(s, n, a, o, f)
  <2>1. f.kind \in {"ack", "error", "snapshot", "output", "exit"}
    BY <1>1 DEF DownFrame, AckFrame, ErrorFrame, OutputFrame, SnapshotFrame, ExitFrame, ClosedFrame
  <2> QED
    BY <1>1, <2>1, ReadAck, ReadOther
<1>4. CASE Rests
  <2>1. Typed'
    BY <1>1, <1>4, ConsumesTyped DEF Typed, Rests
  <2>2. Awaited'
    BY <1>1, <1>4 DEF Awaited, Rests, Current
  <2> QED
    BY <1>1, <1>3, <1>4, <2>1, <2>2, SocketedRests, OwningSame DEF Base
<1>5. ASSUME NEW s \in Surfaces, NEW n, NEW a, NEW o, ReadLike(s, n, a, o, f)
      PROVE  Base'
  <2>1. Moves(s, n, a, o) /\ Plain(o) /\ n \in View /\ Fits(s, n, a)
    BY <1>5, ActsMoves DEF ReadLike
  <2>2. Typed'
    BY <1>1, <2>1, MovesTyped, ConsumesTyped
  <2>3. Socketed'
    BY <1>1, <1>2, <2>1, SocketedMoves
  <2>4. Awaited'
    BY <1>1, <2>1, AwaitedMoves
  <2> QED
    BY <1>1, <2>2, <2>3, <2>4, OwningSame DEF Base
<1> QED
  BY <1>1, <1>3, <1>4, <1>5

LEMMA ForgetsBase ==
  ASSUME Base, ClientReads, Head(down).kind = "closed"
  PROVE  Base' /\ Forgets /\ down' = <<>> /\ UNCHANGED <<holder, link, runtime, left>>
<1>1. /\ Forgets /\ Consumes /\ UNCHANGED <<holder, link, runtime, left>>
      /\ Typed /\ Socketed /\ Awaited /\ Owning
  BY ClosedIs DEF Base, Consumes, ClientReads
<1>2. down \in Seq(DownFrame) /\ down # <<>>
  BY <1>1 DEF Typed, Consumes
<1>3. Head(down) = down[1] /\ 1 \in 1..Len(down) /\ Len(down) = Len(Tail(down)) + 1 /\ Tail(down) \in Seq(DownFrame)
      /\ Len(Tail(down)) \in Nat
  BY <1>2, TailAt
<1>4. Len(down) = 1 /\ client.broken
  BY <1>1, <1>3 DEF Socketed
<1>5. down' = <<>>
  <2> DEFINE t == Tail(down)
  <2>1. Len(t) = 0 /\ t \in Seq(DownFrame) /\ down' = t
    BY <1>1, <1>3, <1>4 DEF Consumes
  <2> HIDE DEF t
  <2> QED
    BY <2>1
<1>6. /\ client' \in Client /\ client'.out = <<>> /\ client'.acks = <<>>
      /\ client'.ws = None /\ ~client'.broken /\ client'.made = client.made /\ client'.mounts = client.mounts
      /\ \A t \in Surfaces :
            client'.view[t] = IF client.view[t].mount # 0 THEN ForgottenView(client.view[t]) ELSE client.view[t]
      /\ up' = up
  BY <1>1 DEF Forgets
<1>7. Typed'
  BY <1>1, <1>5, <1>6 DEF Typed
<1>8. \A t \in Surfaces : client'.view[t].mount = client.view[t].mount /\ client'.view[t].visible = client.view[t].visible
                          /\ client'.view[t].chan = None
  <2>1. SUFFICES ASSUME NEW t \in Surfaces
                 PROVE  client'.view[t].mount = client.view[t].mount /\ client'.view[t].visible = client.view[t].visible
                          /\ client'.view[t].chan = None
    OBVIOUS
  <2>2. client.view[t] \in View
    BY <1>1, ViewFields DEF Typed
  <2>3. client.view[t].mount = 0 => client.view[t].chan = None
    BY <1>1 DEF Awaited
  <2> QED
    BY <1>6, <2>2, <2>3 DEF View, ForgottenView
<1>9. Awaited'
  BY <1>1, <1>6, <1>8 DEF Awaited
<1>10. \A w \in 1..Len(up) : ~Reaches(w) /\ ~(Reaches(w)')
  BY <1>4, <1>6 DEF Reaches, None
<1>11. ~(Live') /\ (\A w : Closes(w)' <=> Closes(w)) /\ (\A w : Owned(w)' = Owned(w)) /\ Channels' = Channels
  BY <1>1, <1>6 DEF Live, Closes, Owned, Channels
<1>12. Socketed'
  BY <1>1, <1>5, <1>6, <1>8, <1>10, <1>11 DEF Socketed
<1> QED
  BY <1>1, <1>5, <1>7, <1>9, <1>12, OwningSame DEF Base

LEMMA OpensBase ==
  ASSUME Base, Connect
  PROVE  Base' /\ UNCHANGED <<holder, link, runtime, down, left>>
<1>1. UNCHANGED <<holder, link, runtime, down, left>> /\ Typed /\ Socketed /\ Awaited /\ Owning
  BY DEF Base, Connect
<1>2. PICK q : Lists(q) /\ Opens(q)
  BY <1>1, ConnectIs
<1>30. PICK w : w = client.made + 1
  OBVIOUS
<1> DEFINE asked == [i \in 1..Len(q) |-> AskOf(q[i], client.view[q[i]])]
           frames == [i \in 1..Len(q) |-> SubscribeOf(q[i], client.view[q[i]])]
<1>3. /\ client.ws = None /\ ~client.broken /\ w <= Len(up) /\ client.acks = <<>>
      /\ client' \in Client /\ client'.out = <<>>
      /\ client'.ws = w /\ client'.made = w /\ ~client'.broken
      /\ client'.mounts = client.mounts
      /\ asked \in Seq(Ask) /\ client'.acks = asked
      /\ \A s \in Surfaces :
            client'.view[s] = IF s \in Visible THEN Asking(client.view[s]) ELSE client.view[s]
      /\ frames \in Seq(UpFrame)
      /\ up' \in Seq(Seq(UpFrame)) /\ Len(up') = Len(up)
      /\ \A x \in 1..Len(up) : up'[x] = IF x = w THEN up[x] \o frames ELSE up[x]
  BY <1>2, <1>30 DEF Opens
<1>4. client.made \in Nat /\ w \in 1..Len(up) /\ w # None /\ Len(q) \in Nat /\ Len(up) \in Nat
  BY <1>1, <1>2, <1>3, <1>30 DEF Typed, Client, None, Lists
<1>5. Typed'
  BY <1>1, <1>3 DEF Typed
<1>6. \A s \in Surfaces : /\ client'.view[s].mount = client.view[s].mount /\ client'.view[s].visible = client.view[s].visible
                          /\ client'.view[s].chan = None
                          /\ s \in Visible => client'.view[s].awaiting
  <2>1. SUFFICES ASSUME NEW t \in Surfaces
                 PROVE  client'.view[t].mount = client.view[t].mount /\ client'.view[t].visible = client.view[t].visible
                          /\ client'.view[t].chan = None /\ (t \in Visible => client'.view[t].awaiting)
    OBVIOUS
  <2>2. client.view[t] \in View
    BY <1>1, ViewFields DEF Typed
  <2>3. client.view[t].chan = None
    BY <1>1, <1>3 DEF Socketed
  <2> QED
    BY <1>3, <2>2, <2>3 DEF View, Asking
<1>7. Awaited'
  <2>1. \A i \in 1..Len(q) : /\ q[i] \in Visible /\ q[i] \in Surfaces /\ client.view[q[i]].mount \in 1..client.mounts
                             /\ asked[i].surf = q[i] /\ asked[i].mount = client.view[q[i]].mount
    <3>1. SUFFICES ASSUME NEW i \in 1..Len(q)
                   PROVE  /\ q[i] \in Visible /\ q[i] \in Surfaces /\ client.view[q[i]].mount \in 1..client.mounts
                          /\ asked[i].surf = q[i] /\ asked[i].mount = client.view[q[i]].mount
      OBVIOUS
    <3>2. q[i] \in Visible /\ q[i] \in Surfaces /\ client.view[q[i]].mount # 0
      BY <1>2, <3>1 DEF Lists, Visible
    <3>3. client.view[q[i]].mount \in 0..client.mounts /\ client.mounts \in Nat
      BY <1>1, <3>2 DEF Awaited, Typed, Client
    <3> QED
      BY <3>2, <3>3 DEF AskOf
  <2>2. Len(asked) = Len(q)
    BY <1>4
  <2>3. \A i, j \in 1..Len(q) : i # j => q[i] # q[j]
    BY <1>2 DEF Lists
  <2> HIDE DEF asked
  <2>4. \A i \in 1..Len(client'.acks) : Waiting1(client', client'.acks[i])
    BY <1>3, <1>6, <2>1, <2>2 DEF Waiting1
  <2>5. Single(client')
    BY <1>3, <2>1, <2>2, <2>3 DEF Single
  <2>6. /\ \A t \in Surfaces :
              /\ client'.view[t].mount \in 0..client'.mounts
              /\ client'.view[t].mount = 0 => client'.view[t].chan = None /\ ~client'.view[t].visible
        /\ \A t, u \in Surfaces : client'.view[t].mount = client'.view[u].mount /\ client'.view[t].mount # 0 => t = u
    BY <1>1, <1>3, <1>6 DEF Awaited
  <2> QED
    BY <1>3, <2>4, <2>5, <2>6, AwaitedFrom
<1>8. \A i \in 1..Len(frames) : frames[i].kind # "close"
  BY <1>4 DEF SubscribeOf
<1>9. up[w] = <<>>
  BY <1>1, <1>4, <1>30 DEF Socketed
<1> HIDE DEF frames, asked
<1>10. up'[w] = frames
  <2>1. <<>> \o frames = frames
    BY <1>3
  <2> QED
    BY <1>3, <1>4, <1>9, <2>1
<1>11. Live' /\ ~(\E i \in 1..Len(up'[w]) : up'[w][i].kind = "close")
  BY <1>3, <1>4, <1>8, <1>10 DEF Live
<1>12. \A x \in 1..Len(up) : x # w => up'[x] = up[x] /\ ~Reaches(x) /\ (Closes(x)' <=> Closes(x)) /\ Owned(x)' = Owned(x)
  BY <1>1, <1>3 DEF Reaches, None, Closes, Owned, Channels
<1>13. Reaches(w)' /\ ~(Closes(w)')
  BY <1>1, <1>3, <1>11 DEF Reaches, Closes
<1>14. down = <<>>
  BY <1>1, <1>3 DEF Socketed
<1>15. \A x \in 1..Len(up') : \A i \in 1..Len(up'[x]) : up'[x][i].kind = "close" => i = Len(up'[x])
  BY <1>1, <1>3, <1>11, <1>12 DEF Socketed
<1>16. \A x \in 1..Len(up') : Reaches(x)' \/ Closes(x)' \/ (up'[x] = <<>> /\ Owned(x)' = {})
  BY <1>1, <1>3, <1>12, <1>13 DEF Socketed
<1>17. \A x \in 1..Len(up') : x > client'.made => up'[x] = <<>>
  <2>1. \A x \in 1..Len(up) : x > client.made => up[x] = <<>>
    BY <1>1 DEF Socketed
  <2> QED
    <3>1. SUFFICES ASSUME NEW x \in 1..Len(up'), x > client'.made PROVE up'[x] = <<>>
      OBVIOUS
    <3>2. x \in 1..Len(up) /\ x > w /\ x \in Nat /\ w \in Nat
      BY <1>3, <1>4, <3>1
    <3>3. x # w /\ x > client.made
      BY <1>4, <1>30, <3>2
    <3> QED
      BY <1>12, <2>1, <3>2, <3>3
<1>18. \A c \in Channels' : runtime'.subs[c].ws \in 1..client'.made
  BY <1>1, <1>3, <1>4, <1>30 DEF Socketed, Channels
<1>19. ~client'.broken /\ client'.ws # None /\ down' = <<>>
  BY <1>1, <1>3, <1>4, <1>14
<1>20. (Live => ~Closes(client.ws))'
  <2>1. client'.ws = w
    BY <1>3
  <2> QED
    BY <1>11, <2>1 DEF Closes
<1>21. Socketed'
  BY <1>15, <1>16, <1>17, <1>18, <1>19, <1>20 DEF Socketed
<1> QED
  BY <1>1, <1>5, <1>7, <1>21, OwningSame DEF Base

(* The socket breaks. *)
Breaks(w, m, n) ==
  /\ client.ws = w /\ Live /\ w \in 1..Len(up)
  /\ m \in 0..Len(up[w]) /\ n \in 0..Len(down)
  /\ up' \in Seq(Seq(UpFrame)) /\ Len(up') = Len(up)
  /\ \A x \in 1..Len(up) : x # w => up'[x] = up[x]
  /\ Len(up'[w]) = m + 1 /\ up'[w][m + 1].kind = "close"
  /\ \A i \in 1..m : i \in 1..Len(up[w]) /\ up'[w][i] = up[w][i]
  /\ down' \in Seq(DownFrame) /\ Len(down') = n + 1 /\ down'[n + 1] = Closed
  /\ \A i \in 1..n : i \in 1..Len(down) /\ down'[i] = down[i]
  /\ client' \in Client /\ client'.broken
  /\ client'.ws = client.ws /\ client'.made = client.made /\ client'.acks = client.acks
  /\ client'.view = client.view /\ client'.out = client.out /\ client'.mounts = client.mounts
  /\ UNCHANGED <<holder, link, runtime>>

LEMMA BreaksBase ==
  ASSUME Base, NEW n \in 0..Len(down), NEW w \in Sockets, NEW m \in 0..Len(up[w]), SocketBreaks(w, m, n)
  PROVE  Base' /\ Breaks(w, m, n)
<1>1. /\ Typed /\ Socketed /\ Awaited /\ Owning /\ UNCHANGED <<holder, link, runtime>> /\ left \in Left
      /\ client.ws = w /\ ~client.broken /\ Spends("drops")
  BY DEF Base, SocketBreaks, Typed
<1>2. /\ up \in Seq(Seq(UpFrame)) /\ down \in Seq(DownFrame) /\ w \in 1..Len(up) /\ w # None /\ client \in Client
      /\ up[w] \in Seq(UpFrame) /\ Len(up) \in Nat
  <2>1. up \in Seq(Seq(UpFrame)) /\ w \in 1..Len(up)
    BY <1>1 DEF Typed, Sockets
  <2> QED
    BY <1>1, <2>1 DEF Typed, None
<1>3. Closed \in DownFrame /\ [kind |-> "close"] \in UpFrame
  BY DEF Closed, DownFrame, ClosedFrame, UpFrame, CloseFrame
<1> DEFINE x == up[w]
           p == Append(SubSeq(x, 1, m), [kind |-> "close"])
           d == Append(SubSeq(down, 1, n), Closed)
<1>4. /\ p \in Seq(UpFrame) /\ Len(p) = m + 1 /\ p[m + 1] = [kind |-> "close"] /\ m \in Nat
      /\ \A i \in 1..m : i \in 1..Len(x) /\ p[i] = x[i]
      /\ \A i \in 1..Len(p) : i \in 1..m \/ i = m + 1
  <2> HIDE DEF x
  <2>1. x \in Seq(UpFrame) /\ m \in 0..Len(x)
    BY <1>2 DEF x
  <2> QED
    BY <1>3, <2>1, CutAt
<1>5. /\ d \in Seq(DownFrame) /\ Len(d) = n + 1 /\ d[n + 1] = Closed /\ n \in Nat
      /\ \A i \in 1..n : i \in 1..Len(down) /\ d[i] = down[i]
      /\ \A i \in 1..Len(d) : i \in 1..n \/ i = n + 1
  BY <1>2, <1>3, CutAt
<1>6. up' = [up EXCEPT ![w] = p] /\ down' = d /\ client' = [client EXCEPT !.broken = TRUE]
  BY DEF SocketBreaks
<1> HIDE DEF p, d
<1>7. up' \in Seq(Seq(UpFrame)) /\ Len(up') = Len(up) /\ up'[w] = p /\ \A y \in 1..Len(up) : y # w => up'[y] = up[y]
  BY <1>2, <1>4, <1>6
<1>8. /\ client' \in Client /\ client'.broken
      /\ client'.ws = client.ws /\ client'.made = client.made /\ client'.acks = client.acks
      /\ client'.view = client.view /\ client'.out = client.out /\ client'.mounts = client.mounts
  BY <1>2, <1>6 DEF Client
<1>9. Live
  BY <1>1, <1>2 DEF Live
<1>10. Breaks(w, m, n)
  BY <1>1, <1>2, <1>4, <1>5, <1>6, <1>7, <1>8, <1>9 DEF Breaks
<1>11. left' \in Left
  BY <1>1, SpendsTyped
<1>12. Typed'
  BY <1>1, <1>5, <1>6, <1>7, <1>8, <1>11 DEF Typed
<1>13. Awaited'
  BY <1>1, <1>8 DEF Awaited, Current
<1>14. \A i \in 1..Len(down) : down[i].kind # "closed"
  BY <1>1 DEF Socketed
<1>15. (\E i \in 1..Len(down') : down'[i].kind = "closed") /\ \A i \in 1..Len(down') : down'[i].kind = "closed" => i = Len(down')
  <2>1. n + 1 \in 1..Len(d) /\ d[n + 1].kind = "closed"
    BY <1>5 DEF Closed
  <2> QED
    BY <1>5, <1>6, <1>14, <2>1
<1>16. ~Closes(w)
  BY <1>1, <1>9 DEF Socketed
<1>17. Closes(w)' /\ \A i \in 1..Len(up'[w]) : up'[w][i].kind = "close" => i = Len(up'[w])
  <2>1. \A i \in 1..Len(x) : x[i].kind # "close"
    BY <1>16 DEF Closes
  <2>2. m + 1 \in 1..Len(p) /\ p[m + 1].kind = "close"
    BY <1>4
  <2> QED
    BY <1>4, <1>7, <2>1, <2>2 DEF Closes
<1>18. \A y \in 1..Len(up) : y # w => up'[y] = up[y] /\ ~Reaches(y) /\ (Closes(y)' <=> Closes(y))
  BY <1>1, <1>7 DEF Reaches, Closes
<1>19. (\A y : Owned(y)' = Owned(y)) /\ Channels' = Channels /\ ~(Live')
  BY <1>1, <1>8 DEF Owned, Channels, Live
<1>20. \A y \in 1..Len(up') : \A i \in 1..Len(up'[y]) : up'[y][i].kind = "close" => i = Len(up'[y])
  BY <1>1, <1>7, <1>17, <1>18 DEF Socketed
<1>21. \A y \in 1..Len(up') : Reaches(y)' \/ Closes(y)' \/ (up'[y] = <<>> /\ Owned(y)' = {})
  BY <1>1, <1>7, <1>17, <1>18, <1>19 DEF Socketed
<1>22. \A y \in 1..Len(up') : y > client'.made => up'[y] = <<>>
  <2>1. w <= client.made /\ client.made \in Nat
    BY <1>1, <1>2 DEF Typed, Client
  <2> QED
    <3>1. \A y \in 1..Len(up) : y > client.made => up[y] = <<>>
      BY <1>1 DEF Socketed
    <3> QED
      <4>1. SUFFICES ASSUME NEW y \in 1..Len(up'), y > client'.made PROVE up'[y] = <<>>
        OBVIOUS
      <4>2. y \in 1..Len(up) /\ y > client.made /\ y # w
        BY <1>2, <1>7, <1>8, <2>1, <4>1
      <4> QED
        BY <1>18, <3>1, <4>2
<1>23. \A c \in Channels' : runtime'.subs[c].ws \in 1..client'.made
  BY <1>1, <1>8, <1>19 DEF Socketed
<1>24. client'.ws # None
  BY <1>1, <1>2, <1>8
<1>25. Socketed'
  BY <1>8, <1>15, <1>19, <1>20, <1>21, <1>22, <1>23, <1>24 DEF Socketed
<1> QED
  BY <1>1, <1>10, <1>12, <1>13, <1>25, OwningSame DEF Base
=============================================================================
