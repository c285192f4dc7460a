----------------------- MODULE AgentStateIntake_proofs -----------------------
(***************************************************************************)
(* Theorems about AgentStateIntake, for every set of events, registrations *)
(* and bounds.  The log is the anchor: StoreInv says which logs can exist  *)
(* and that the memory of the daemon is what the lines it has replayed     *)
(* make it - all of them once it serves.  From it, every line that is      *)
(* appended is a step of AcceptanceJournal, and what the producers, the    *)
(* authority and the endpoint store hold agrees with the log.              *)
(***************************************************************************)
EXTENDS AgentStateIntake, TLAPS

(* The endpoint is complete, and polled only when there is one. *)
EndpointInv ==
  /\ endpoint.gen # 0 => endpoint.instance \in Instances /\ endpoint.target \in Targets
  /\ endpoint.active => endpoint.gen # 0

Typed == TypeOK /\ EndpointInv

-----------------------------------------------------------------------------
(* Type correctness.                                                       *)

(* The line of an event that a producer or a poll sends is a line. *)
LEMMA EventLineType ==
  ASSUME TypeOK, NEW e \in polls \cup Pushes
  PROVE  e \in Envelope /\ EventLine(e) \in Line /\ ReceiptOf(EventLine(e)) \in Receipt
<1>1. e \in Envelope  BY IntakeAssumption DEF TypeOK
<1>2. mem.top \in Nat  BY DEF TypeOK, MemType
<1> QED  BY <1>1, <1>2 DEF EventLine, Line, ReceiptOf, Receipt

(* The line of a registration's claim is a line. *)
LEMMA ClaimLineType ==
  ASSUME NEW r \in Registrations
  PROVE  r \in Registration /\ ClaimLine(r) \in Line
<1>1. r \in Registration  BY IntakeAssumption
<1> QED  BY <1>1 DEF ClaimLine, Line, Registration, Envelope, Transports

(* Installing a line keeps the memory well-formed. *)
LEMMA InstallType ==
  ASSUME NEW m \in MemType, NEW line \in Line
  PROVE  Install(m, line) \in MemType
<1>1. /\ line.env \in Envelope /\ line.number \in Nat
      /\ line.env.gen \in Gens /\ line.env.instance \in Instances /\ line.env.seq \in Nat
      /\ StreamOf(line.env) \in Streams
      /\ ReceiptOf(line) \in Receipt
  BY DEF Line, Envelope, StreamOf, Streams, ReceiptOf, Receipt
<1>2. InstallClaim(m, line) \in MemType
  BY <1>1 DEF InstallClaim, MemType, Higher
<1>3. InstallReceipt(m, line) \in MemType
  <2> DEFINE taken == {r \in m.receipts : EventKey(r.env) = EventKey(line.env)}
             bound == IF m.bound[line.env.gen].instance = None
                         \/ m.bound[line.env.gen].number < line.number
                        THEN [m.bound EXCEPT ![line.env.gen] =
                                [instance |-> line.env.instance, number |-> line.number]]
                        ELSE m.bound
             next == [receipts |-> (m.receipts \ taken) \cup {ReceiptOf(line)},
                      floor |-> InstallClaim(m, line).floor, bound |-> bound,
                      top |-> Higher(m.top, line.number)]
  <2>1. InstallReceipt(m, line) \in {m, next}  BY DEF InstallReceipt
  <2>2. bound \in [Gens -> [instance: Instances \cup {None}, number: Nat]]
    BY <1>1 DEF MemType
  <2>3. (m.receipts \ taken) \cup {ReceiptOf(line)} \in SUBSET Receipt
    BY <1>1 DEF MemType
  <2>4. Higher(m.top, line.number) \in Nat  BY <1>1 DEF Higher, MemType
  <2>5. InstallClaim(m, line).floor \in [Streams -> Nat]  BY <1>2 DEF MemType
  <2> HIDE DEF taken, bound
  <2>6. next \in MemType  BY <2>2, <2>3, <2>4, <2>5 DEF MemType
  <2> QED  BY <2>1, <2>6
<1> QED  BY <1>2, <1>3 DEF Install

(* Writing a line leaves a log that ends in a newline and lost no line. *)
LEMMA WriteType ==
  ASSUME log \in Seq(Line), torn \in BOOLEAN, NEW line \in Line, Write(line)
  PROVE  log' \in Seq(Line) /\ Len(log') >= Len(log) /\ torn' \in BOOLEAN /\ ~torn'
<1>1. log' \in Seq(Line) /\ Len(log') >= Len(log)  BY DEF Write
<1>2. torn' = FALSE  BY DEF Write
<1> QED  BY <1>1, <1>2

LEMMA EmptyType == Empty \in MemType
<1>1. NoBinding \in [instance: Instances \cup {None}, number: Nat]  BY DEF NoBinding
<1> QED  BY <1>1 DEF Empty, MemType

LEMMA NoAgentType ==
  NoAgent \in [gen: Gens, exited: BOOLEAN, instance: Instances \cup {None},
               push: Nat, poll: Nat]
BY IntakeAssumption DEF NoAgent, Gens

LEMMA TypedInit == Init => Typed
<1> SUFFICES ASSUME Init PROVE Typed  OBVIOUS
<1>1. 0 \in Gens /\ MaxGen \in Nat  BY IntakeAssumption DEF Gens
<1>2. endpoint \in [gen: Gens, instance: Instances \cup {None}, seq: Nat,
                  target: Targets \cup {None}, pollSeq: Nat, active: BOOLEAN]
  BY <1>1 DEF Init, NoEndpoint
<1>3. EndpointInv  BY DEF Init, EndpointInv, NoEndpoint
<1>4. mem \in MemType  BY EmptyType DEF Init
<1>5. agent \in [gen: Gens, exited: BOOLEAN, instance: Instances \cup {None},
                push: Nat, poll: Nat]
  BY NoAgentType DEF Init
<1>6. log \in Seq(Line) /\ read \in 0..Len(log)  BY DEF Init
<1>7. /\ phase \in {"down", "replaying", "up"} /\ generation \in Gens /\ torn \in BOOLEAN
      /\ live \in BOOLEAN /\ polls \subseteq Envelope
      /\ crashes \in Nat /\ told \subseteq Receipt
      /\ phase = "down" /\ ~live /\ agent = NoAgent /\ polls = {}
  BY <1>1 DEF Init
<1> QED  BY <1>2, <1>3, <1>4, <1>5, <1>6, <1>7 DEF Typed, TypeOK

(* A committed event leaves everything it touches well-formed. *)
LEMMA CommitType ==
  ASSUME Typed, phase = "up", NEW e \in polls \cup Pushes, Commit(e)
  PROVE  /\ log' \in Seq(Line) /\ Len(log') >= Len(log) /\ torn' \in BOOLEAN /\ ~torn'
         /\ mem' \in MemType
         /\ agent' \in [gen: Gens, exited: BOOLEAN, instance: Instances \cup {None},
                        push: Nat, poll: Nat]
         /\ told' \subseteq Receipt
<1> USE DEF Typed
<1>1. e \in Envelope /\ EventLine(e) \in Line /\ ReceiptOf(EventLine(e)) \in Receipt
  BY EventLineType
<1>2. log' \in Seq(Line) /\ Len(log') >= Len(log) /\ torn' \in BOOLEAN /\ ~torn'
  BY <1>1, WriteType DEF TypeOK, Commit
<1>3. mem' \in MemType  BY <1>1, InstallType DEF TypeOK, Commit
<1>4. Applied(e) \in [gen: Gens, exited: BOOLEAN, instance: Instances \cup {None},
                      push: Nat, poll: Nat]
  BY <1>1 DEF TypeOK, Applied, Envelope
<1> QED  BY <1>1, <1>2, <1>3, <1>4 DEF TypeOK, Commit

(* A poll asks for an endpoint with the next number of its count. *)
LEMMA StartPollType ==
  ASSUME Typed,
         NEW ep \in [gen: Gens, instance: Instances \cup {None}, seq: Nat,
                     target: Targets \cup {None}, pollSeq: Nat, active: BOOLEAN],
         ep.gen # 0 => ep.instance \in Instances /\ ep.target \in Targets,
         ep.active => ep.gen # 0,
         StartPoll(ep)
  PROVE  /\ endpoint' \in [gen: Gens, instance: Instances \cup {None}, seq: Nat,
                           target: Targets \cup {None}, pollSeq: Nat, active: BOOLEAN]
         /\ EndpointInv'
         /\ polls' \subseteq Envelope
<1> USE DEF Typed
<1>1. CASE Pollable(ep)
  <2>1. ep.gen \in Gens \ {0} /\ ep.instance \in Instances /\ ep.target \in Targets
    BY <1>1 DEF Pollable, TypeOK
  <2> DEFINE e == [gen |-> ep.gen, instance |-> ep.instance,
                   transport |-> "poll", seq |-> ep.pollSeq + 1,
                   id |-> ep.pollSeq + 1, about |-> ep.target]
  <2>2. e \in Envelope  BY <2>1 DEF Envelope, Transports
  <2>3. polls' = polls \cup {e} /\ endpoint' = [ep EXCEPT !.pollSeq = @ + 1]
    BY <1>1 DEF StartPoll
  <2>4. polls \subseteq Envelope  BY DEF TypeOK
  <2> HIDE DEF e
  <2>5. /\ endpoint'.gen = ep.gen /\ endpoint'.instance = ep.instance
        /\ endpoint'.target = ep.target /\ endpoint'.active = ep.active
        /\ endpoint' \in [gen: Gens, instance: Instances \cup {None}, seq: Nat,
                         target: Targets \cup {None}, pollSeq: Nat, active: BOOLEAN]
    BY <2>3
  <2>6. EndpointInv'  BY <2>5 DEF EndpointInv
  <2> QED  BY <2>2, <2>3, <2>4, <2>5, <2>6
<1>2. CASE ~Pollable(ep)
  BY <1>2 DEF StartPoll, TypeOK, EndpointInv
<1> QED  BY <1>1, <1>2

(* One case for every action; those that share what they touch share a case. *)
LEMMA TypedNext == Typed /\ [Next]_vars => Typed'
<1> SUFFICES ASSUME Typed, [Next]_vars PROVE Typed'  OBVIOUS
<1> DEFINE AgentType == [gen: Gens, exited: BOOLEAN, instance: Instances \cup {None},
                         push: Nat, poll: Nat]
           EndpointType == [gen: Gens, instance: Instances \cup {None}, seq: Nat,
                            target: Targets \cup {None}, pollSeq: Nat, active: BOOLEAN]
<1>0. /\ phase \in {"down", "replaying", "up"}
      /\ generation \in Gens /\ log \in Seq(Line) /\ torn \in BOOLEAN
      /\ read \in 0..Len(log) /\ mem \in MemType /\ live \in BOOLEAN
      /\ agent \in AgentType /\ endpoint \in EndpointType
      /\ polls \subseteq Envelope /\ crashes \in Nat /\ told \subseteq Receipt
      /\ phase # "down" => ~torn
      /\ phase # "up" => ~live /\ agent = NoAgent /\ polls = {}
      /\ EndpointInv
  BY DEF Typed, TypeOK
<1> DEFINE Goal == /\ phase' \in {"down", "replaying", "up"}
                   /\ generation' \in Gens /\ log' \in Seq(Line) /\ torn' \in BOOLEAN
                   /\ read' \in 0..Len(log') /\ mem' \in MemType /\ live' \in BOOLEAN
                   /\ agent' \in AgentType /\ endpoint' \in EndpointType
                   /\ polls' \subseteq Envelope /\ crashes' \in Nat /\ told' \subseteq Receipt
                   /\ (phase' # "down" => ~torn')
                   /\ (phase' # "up" => ~live' /\ agent' = NoAgent /\ polls' = {})
                   /\ EndpointInv'
<1>G. SUFFICES Goal  BY DEF Typed, TypeOK
<1>U. UNCHANGED endpoint => EndpointInv'  BY <1>0 DEF EndpointInv
<1> HIDE DEF AgentType, EndpointType
<1>1. CASE UNCHANGED vars
  BY <1>0, <1>1, <1>U DEF vars, files
<1>2. CASE Start \/ ReplayLine \/ Serve
  <2>1. ReplayLine => mem' \in MemType /\ read' \in 0..Len(log)
    <3> SUFFICES ASSUME ReplayLine PROVE mem' \in MemType /\ read' \in 0..Len(log)
      OBVIOUS
    <3>1. read + 1 \in 1..Len(log)  BY <1>0 DEF ReplayLine
    <3>2. log[read + 1] \in Line  BY <1>0, <3>1
    <3> QED  BY <1>0, <3>1, <3>2, InstallType DEF ReplayLine
  <2>2. CASE Start  BY <1>0, <1>U, <2>2 DEF Start, files
  <2>3. CASE ReplayLine  BY <1>0, <1>U, <2>1, <2>3 DEF ReplayLine, files
  <2>4. CASE Serve  BY <1>0, <1>U, <2>4 DEF Serve, files
  <2> QED  BY <1>2, <2>2, <2>3, <2>4
<1>3. CASE Crash
  <2>1. /\ crashes' \in Nat /\ phase' = "down" /\ read' = 0 /\ mem' = Empty
        /\ live' = FALSE /\ agent' = NoAgent /\ polls' = {}
        /\ generation' = generation /\ told' = told
    BY <1>0, <1>3 DEF Crash
  <2>2. log' \in Seq(Line) /\ torn' \in BOOLEAN
    <3>1. CASE UNCHANGED <<log, torn>>  BY <1>0, <3>1
    <3>2. CASE \E line \in Writing : Write(line) \/ (torn' = TRUE /\ UNCHANGED log)
      <4>1. PICK line \in Writing : Write(line) \/ (torn' = TRUE /\ UNCHANGED log)
        BY <3>2
      <4>2. line \in Line  BY EventLineType, ClaimLineType DEF Writing, Typed
      <4> QED  BY <1>0, <4>1, <4>2, WriteType
    <3> QED  BY <1>3, <3>1, <3>2 DEF Crash
  <2>3. endpoint' \in EndpointType /\ EndpointInv'
    <3>1. CASE UNCHANGED endpoint  BY <1>0, <1>U, <3>1
    <3>2. CASE endpoint.gen # 0 /\ endpoint' = [endpoint EXCEPT !.active = TRUE]
      BY <1>0, <3>2 DEF EndpointType, EndpointInv
    <3> QED  BY <1>3, <3>1, <3>2 DEF Crash
  <2>4. read' \in 0..Len(log')  BY <2>1, <2>2
  <2>5. mem' \in MemType /\ agent' \in AgentType
    BY <2>1, EmptyType, NoAgentType DEF AgentType
  <2> QED  BY <1>0, <2>1, <2>2, <2>3, <2>4, <2>5
<1>4. CASE Ensure \/ Restore \/ ExitObserved \/ Retire
  <2>1. \A g \in Gens : Registered(g) \in AgentType
    BY NoAgentType DEF AgentType, Registered
  <2>2. [agent EXCEPT !.exited = TRUE] \in AgentType  BY <1>0 DEF AgentType
  <2>3. NextGeneration <= MaxGen => NextGeneration \in Gens
    BY <1>0, IntakeAssumption DEF NextGeneration, Gens
  <2>4. CASE Ensure  BY <1>0, <1>U, <2>1, <2>3, <2>4 DEF Ensure
  <2>5. CASE Restore  BY <1>0, <1>U, <2>1, <2>5 DEF Restore, files
  <2>6. CASE ExitObserved  BY <1>0, <1>U, <2>2, <2>6 DEF ExitObserved, files
  <2>7. CASE Retire  BY <1>0, <1>U, <2>2, <2>7 DEF Retire, files
  <2> QED  BY <1>4, <2>4, <2>5, <2>6, <2>7
<1>5. CASE PushAccepted
  <2>1. PICK e \in Pushes : Commit(e)  BY <1>5 DEF PushAccepted
  <2>2. /\ log' \in Seq(Line) /\ Len(log') >= Len(log) /\ torn' \in BOOLEAN /\ ~torn'
        /\ mem' \in MemType /\ agent' \in AgentType /\ told' \subseteq Receipt
    BY <1>5, <2>1, CommitType DEF PushAccepted, AgentType
  <2>3. read' \in 0..Len(log')  BY <1>0, <1>5, <2>2 DEF PushAccepted
  <2> QED  BY <1>0, <1>5, <1>U, <2>2, <2>3 DEF PushAccepted
<1>6. CASE PushRetried
  BY <1>0, <1>6, <1>U DEF PushRetried, files, MemType
<1>7. CASE RegisterEndpoint
  <2>1. PICK r \in Registrations :
          /\ Write(ClaimLine(r)) /\ mem' = Install(mem, ClaimLine(r))
          /\ endpoint' = [gen |-> r.gen, instance |-> r.instance, seq |-> r.seq,
                          target |-> r.target, pollSeq |-> PollsMade(r), active |-> FALSE]
    BY <1>7 DEF RegisterEndpoint
  <2>2. r \in Registration /\ ClaimLine(r) \in Line  BY ClaimLineType
  <2>3. log' \in Seq(Line) /\ Len(log') >= Len(log) /\ torn' \in BOOLEAN /\ ~torn' /\ mem' \in MemType
    BY <1>0, <2>1, <2>2, WriteType, InstallType
  <2>4. PollsMade(r) \in Nat  BY <1>0 DEF PollsMade, EndpointType
  <2>5. endpoint' \in EndpointType /\ EndpointInv'
    BY <2>1, <2>2, <2>4 DEF EndpointType, EndpointInv, Registration
  <2>6. read' \in 0..Len(log')  BY <1>0, <1>7, <2>3 DEF RegisterEndpoint
  <2> QED  BY <1>0, <1>7, <2>3, <2>5, <2>6 DEF RegisterEndpoint
<1>8. CASE ActivateEndpoint \/ Reconcile
  <2>1. StartPoll(endpoint) =>
          endpoint' \in EndpointType /\ EndpointInv' /\ polls' \subseteq Envelope
    BY <1>0, StartPollType DEF EndpointType, EndpointInv
  <2>2. endpoint.gen # 0 /\ StartPoll([endpoint EXCEPT !.active = TRUE]) =>
          endpoint' \in EndpointType /\ EndpointInv' /\ polls' \subseteq Envelope
    <3> SUFFICES ASSUME endpoint.gen # 0, StartPoll([endpoint EXCEPT !.active = TRUE])
                 PROVE  endpoint' \in EndpointType /\ EndpointInv' /\ polls' \subseteq Envelope
      OBVIOUS
    <3> DEFINE ep == [endpoint EXCEPT !.active = TRUE]
    <3>1. ep \in EndpointType /\ ep.gen = endpoint.gen /\ ep.instance = endpoint.instance
          /\ ep.target = endpoint.target
      BY <1>0 DEF EndpointType
    <3> HIDE DEF ep
    <3>2. StartPoll(ep)  BY DEF ep
    <3> QED  BY <1>0, <3>1, <3>2, StartPollType DEF EndpointType, EndpointInv
  <2>3. CASE ActivateEndpoint
    BY <1>0, <2>2, <2>3 DEF ActivateEndpoint
  <2>4. CASE Reconcile
    BY <1>0, <2>1, <2>4 DEF Reconcile
  <2> QED  BY <1>8, <2>3, <2>4
<1>9. CASE PollAnswered
  <2>1. PICK e \in polls : polls' = polls \ {e} /\ Commit(e)  BY <1>9 DEF PollAnswered
  <2>2. phase = "up"  BY <1>0, <2>1
  <2>3. /\ log' \in Seq(Line) /\ Len(log') >= Len(log) /\ torn' \in BOOLEAN /\ ~torn'
        /\ mem' \in MemType /\ agent' \in AgentType /\ told' \subseteq Receipt
    BY <2>1, <2>2, CommitType DEF AgentType
  <2>4. read' \in 0..Len(log')  BY <1>0, <1>9, <2>3 DEF PollAnswered
  <2>5. polls' \subseteq Envelope  BY <1>0, <2>1
  <2> QED  BY <1>0, <1>9, <1>U, <2>2, <2>3, <2>4, <2>5 DEF PollAnswered
<1>10. CASE PollSkipped
  <2>1. PICK e \in polls : polls' = polls \ {e}  BY <1>10 DEF PollSkipped
  <2> QED  BY <1>0, <1>10, <1>U, <2>1 DEF PollSkipped, files
<1> QED
  BY <1>1, <1>2, <1>3, <1>4, <1>5, <1>6, <1>7, <1>8, <1>9, <1>10 DEF Next

LEMMA AlwaysTyped == Spec => []Typed
BY TypedInit, TypedNext, PTL DEF Spec

(* In every reachable state, for every value of the constants, the variables  *)
(* have their types, no session outlives its daemon, and no serving daemon    *)
(* appends to an unfinished line (replayReceipts' truncation).                *)
THEOREM TypeCorrect == Spec => []TypeOK
<1>1. Typed => TypeOK  BY DEF Typed
<1> QED  BY <1>1, AlwaysTyped, PTL

-----------------------------------------------------------------------------
(* The log and the memory made from it.                                    *)

IsEvent(l, i) == l[i].kind = "event"

(* One instance to a generation, and one line to an event. *)
DistinctLog(l) ==
  /\ \A i, j \in 1..Len(l) :
       IsEvent(l, i) /\ IsEvent(l, j) /\ l[i].env.gen = l[j].env.gen =>
         l[i].env.instance = l[j].env.instance
  /\ \A i, j \in 1..Len(l) :
       IsEvent(l, i) /\ IsEvent(l, j) /\ EventKey(l[i].env) = EventKey(l[j].env) => i = j

(* The memory m is what the lines of l at the places D make of an empty one. *)
MemOf(l, m, D) ==
  /\ m.receipts = {ReceiptOf(l[i]) : i \in {i \in D : IsEvent(l, i)}}
  /\ \A i \in D : l[i].env.seq <= m.floor[StreamOf(l[i].env)]
  /\ \A i \in D : IsEvent(l, i) =>
       /\ l[i].number <= m.top
       /\ m.bound[l[i].env.gen].instance = l[i].env.instance
  /\ \A g \in Gens : m.bound[g].instance # None =>
       \E i \in D : IsEvent(l, i) /\ l[i].env.gen = g

Loaded == IF phase = "up" THEN 1..Len(log) ELSE 1..read

StoreInv ==
  /\ \A i \in 1..Len(log) : log[i].env.gen <= generation
  /\ DistinctLog(log)
  /\ MemOf(log, mem, Loaded)

LEMMA LineFacts ==
  ASSUME NEW l \in Seq(Line), NEW i \in 1..Len(l)
  PROVE  /\ l[i] \in Line /\ l[i].env.gen \in Gens /\ l[i].env.instance \in Instances
         /\ l[i].env.seq \in Nat /\ l[i].number \in Nat /\ StreamOf(l[i].env) \in Streams
         /\ ReceiptOf(l[i]).env = l[i].env
         /\ l[i].kind \in {"event", "claim"}
<1>1. l[i] \in Line  OBVIOUS
<1>2. \A line \in Line :
        /\ line.env.gen \in Gens /\ line.env.instance \in Instances
        /\ line.env.seq \in Nat /\ line.number \in Nat /\ StreamOf(line.env) \in Streams
        /\ ReceiptOf(line).env = line.env
        /\ line.kind \in {"event", "claim"}
  BY DEF Line, Envelope, StreamOf, Streams, ReceiptOf
<1> QED  BY <1>1, <1>2

(* Replaying one more line of a log, or installing the line just appended. *)
LEMMA InstallStep ==
  ASSUME NEW l \in Seq(Line), NEW m \in MemType,
         NEW D \in SUBSET (1..Len(l)), NEW k \in (1..Len(l)) \ D,
         DistinctLog(l), MemOf(l, m, D)
  PROVE  MemOf(l, Install(m, l[k]), D \cup {k})
<1> DEFINE n == Install(m, l[k])
<1>1. \A i \in 1..Len(l) :
        /\ l[i] \in Line /\ l[i].env.gen \in Gens /\ l[i].env.instance \in Instances
        /\ l[i].env.seq \in Nat /\ l[i].number \in Nat /\ StreamOf(l[i].env) \in Streams
        /\ ReceiptOf(l[i]).env = l[i].env
        /\ l[i].kind \in {"event", "claim"}
  BY LineFacts
<1>2. /\ InstallClaim(m, l[k]).receipts = m.receipts
      /\ InstallClaim(m, l[k]).bound = m.bound
      /\ InstallClaim(m, l[k]).top = m.top
      /\ \A s \in Streams : /\ InstallClaim(m, l[k]).floor[s] \in Nat
                            /\ m.floor[s] <= InstallClaim(m, l[k]).floor[s]
      /\ l[k].env.seq <= InstallClaim(m, l[k]).floor[StreamOf(l[k].env)]
  BY <1>1 DEF InstallClaim, MemType, Higher
<1>3. \A i \in D \cup {k} :
        l[i].env.seq <= InstallClaim(m, l[k]).floor[StreamOf(l[i].env)]
  BY <1>1, <1>2 DEF MemOf, MemType
<1>4. CASE l[k].kind = "claim"
  <2>1. n = InstallClaim(m, l[k])  BY <1>4 DEF Install
  <2>2. {i \in D \cup {k} : IsEvent(l, i)} = {i \in D : IsEvent(l, i)}  BY <1>4 DEF IsEvent
  <2>3. ~IsEvent(l, k)  BY <1>4 DEF IsEvent
  <2>4. n.receipts = {ReceiptOf(l[i]) : i \in {i \in D \cup {k} : IsEvent(l, i)}}
    BY <1>2, <2>1, <2>2 DEF MemOf
  <2>5. \A i \in D \cup {k} : l[i].env.seq <= n.floor[StreamOf(l[i].env)]
    BY <1>3, <2>1
  <2>6. n.bound = m.bound /\ n.top = m.top  BY <1>2, <2>1
  <2> HIDE DEF n
  <2>7. MemOf(l, n, D \cup {k})  BY <2>3, <2>4, <2>5, <2>6 DEF MemOf
  <2> QED  BY <2>7 DEF n
<1>5. CASE l[k].kind = "event"
  <2>0. IsEvent(l, k) /\ k \in 1..Len(l)  BY <1>5 DEF IsEvent
  <2>1. {r \in m.receipts : EventKey(r.env) = EventKey(l[k].env)} = {}
    <3> SUFFICES ASSUME NEW r \in m.receipts, EventKey(r.env) = EventKey(l[k].env)
                 PROVE  FALSE
      OBVIOUS
    <3>1. PICK i \in D : IsEvent(l, i) /\ r = ReceiptOf(l[i])  BY DEF MemOf
    <3>2. EventKey(l[i].env) = EventKey(l[k].env)  BY <1>1, <3>1
    <3> QED  BY <2>0, <3>1, <3>2 DEF DistinctLog
  <2> DEFINE bound == IF m.bound[l[k].env.gen].instance = None
                         \/ m.bound[l[k].env.gen].number < l[k].number
                        THEN [m.bound EXCEPT ![l[k].env.gen] =
                                [instance |-> l[k].env.instance, number |-> l[k].number]]
                        ELSE m.bound
  <2>2. n = [receipts |-> m.receipts \cup {ReceiptOf(l[k])},
             floor |-> InstallClaim(m, l[k]).floor, bound |-> bound,
             top |-> Higher(m.top, l[k].number)]
    <3>1. n = InstallReceipt(m, l[k])  BY <1>5 DEF Install
    <3> QED  BY <2>1, <3>1 DEF InstallReceipt
  <2>3. m.receipts \cup {ReceiptOf(l[k])} =
          {ReceiptOf(l[i]) : i \in {i \in D \cup {k} : IsEvent(l, i)}}
    BY <2>0 DEF MemOf
  <2>4. \A i \in D \cup {k} : IsEvent(l, i) => l[i].number <= Higher(m.top, l[k].number)
    BY <1>1 DEF MemOf, MemType, Higher
  <2>5. bound[l[k].env.gen].instance = l[k].env.instance
    <3>1. CASE m.bound[l[k].env.gen].instance = None
      BY <1>1, <3>1 DEF MemType
    <3>2. CASE m.bound[l[k].env.gen].instance # None
      <4>1. PICK j \in D : IsEvent(l, j) /\ l[j].env.gen = l[k].env.gen
        BY <1>1, <3>2 DEF MemOf
      <4>2. m.bound[l[k].env.gen].instance = l[k].env.instance
        BY <2>0, <4>1 DEF MemOf, DistinctLog
      <4> QED  BY <1>1, <4>2 DEF MemType
    <3> QED  BY <3>1, <3>2
  <2>6. \A g \in Gens : g # l[k].env.gen => bound[g] = m.bound[g]
    BY <1>1 DEF MemType
  <2> HIDE DEF bound
  <2>7. \A i \in D \cup {k} : IsEvent(l, i) =>
          bound[l[i].env.gen].instance = l[i].env.instance
    <3> SUFFICES ASSUME NEW i \in D, IsEvent(l, i)
                 PROVE  bound[l[i].env.gen].instance = l[i].env.instance
      BY <2>5
    <3>1. CASE l[i].env.gen = l[k].env.gen
      BY <2>0, <2>5, <3>1 DEF DistinctLog
    <3>2. CASE l[i].env.gen # l[k].env.gen
      BY <1>1, <2>6, <3>2 DEF MemOf
    <3> QED  BY <3>1, <3>2
  <2>8. \A g \in Gens : bound[g].instance # None =>
          \E i \in D \cup {k} : IsEvent(l, i) /\ l[i].env.gen = g
    BY <2>0, <2>6 DEF MemOf
  <2> HIDE DEF n
  <2> QED  BY <1>3, <2>2, <2>3, <2>4, <2>7, <2>8 DEF MemOf, n
<1> QED  BY <1>1, <1>4, <1>5

(* What an appended line adds to the journal and to the numbers spent. *)
LEMMA AppendLine ==
  ASSUME NEW line, log \in Seq(Line), log' = Append(log, line)
  PROVE  /\ Len(log') = Len(log) + 1 /\ log'[Len(log')] = line
         /\ \A i \in 1..Len(log) : log'[i] = log[i]
         /\ Spent' = Spent \cup {<<StreamOf(line.env), line.env.seq>>}
         /\ Accepted' = IF line.kind = "event" THEN Accepted \cup {ReceiptOf(line)} ELSE Accepted
<1>1. /\ Len(log') = Len(log) + 1 /\ log'[Len(log')] = line
      /\ \A i \in 1..Len(log) : log'[i] = log[i]
  OBVIOUS
<1>2. 1..Len(log') = 1..Len(log) \cup {Len(log')}  BY <1>1
<1>3. Lines' = Lines \cup {line}  BY <1>1, <1>2 DEF Lines
<1> QED  BY <1>1, <1>3 DEF Spent, Accepted

(* In a serving daemon the memory knows every line of the log: an appended    *)
(* line that is above its stream's watermark spends a number that is unspent. *)
LEMMA AboveFloor ==
  ASSUME TypeOK, StoreInv, phase = "up", NEW s \in Streams, NEW n \in Nat, n > mem.floor[s]
  PROVE  Journal!Unspent(s, n)
<1>1. \A i \in 1..Len(log) : /\ log[i].env.seq \in Nat
                              /\ StreamOf(log[i].env) \in Streams
                              /\ log[i].env.seq <= mem.floor[StreamOf(log[i].env)]
  BY LineFacts DEF StoreInv, MemOf, Loaded, TypeOK
<1>2. mem.floor[s] \in Nat  BY DEF TypeOK, MemType
<1> QED  BY <1>1, <1>2 DEF Journal!Unspent, Spent, Lines

(* The log with one more line is as the memory with the line installed. *)
LEMMA StoreGrows ==
  ASSUME TypeOK, StoreInv, phase = "up", NEW line \in Line, log' = Append(log, line),
         line.env.gen = generation, DistinctLog(log')
  PROVE  /\ \A i \in 1..Len(log') : log'[i].env.gen <= generation
         /\ MemOf(log', Install(mem, line), 1..Len(log'))
<1>1. /\ Len(log') = Len(log) + 1 /\ log'[Len(log')] = line
      /\ \A i \in 1..Len(log) : log'[i] = log[i]
  BY AppendLine DEF TypeOK
<1>2. log' \in Seq(Line) /\ Len(log) \in Nat  BY DEF TypeOK
<1>3. generation \in Int  BY IntakeAssumption DEF TypeOK, Gens
<1>4. \A i \in 1..Len(log') : log'[i].env.gen <= generation
  BY <1>1, <1>2, <1>3 DEF StoreInv
<1>5. MemOf(log', mem, 1..Len(log))
  <2>1. MemOf(log, mem, 1..Len(log))  BY DEF StoreInv, Loaded
  <2> QED  BY <1>1, <2>1 DEF MemOf, IsEvent
<1>6. /\ 1..Len(log) \in SUBSET (1..Len(log')) /\ Len(log') \in (1..Len(log')) \ 1..Len(log)
      /\ 1..Len(log') = 1..Len(log) \cup {Len(log')}
  BY <1>1, <1>2
<1>7. mem \in MemType  BY DEF TypeOK
<1>8. MemOf(log', Install(mem, log'[Len(log')]), 1..Len(log) \cup {Len(log')})
  BY <1>2, <1>5, <1>6, <1>7, InstallStep
<1> QED  BY <1>1, <1>4, <1>6, <1>8

(* An event that is written to the log of a serving daemon is an acceptance   *)
(* of the journal.                                                            *)
LEMMA EventStep ==
  ASSUME TypeOK, StoreInv, phase = "up", NEW e \in polls \cup Pushes, Committable(e),
         log' = Append(log, EventLine(e))
  PROVE  /\ \A i \in 1..Len(log') : log'[i].env.gen <= generation
         /\ DistinctLog(log')
         /\ MemOf(log', Install(mem, EventLine(e)), 1..Len(log'))
         /\ Journal!Next
<1> DEFINE line == EventLine(e)
<1>1. /\ e \in Envelope /\ line \in Line /\ line.kind = "event" /\ line.env = e
      /\ line.number = mem.top + 1 /\ mem.top \in Nat /\ e.gen = generation
      /\ e.gen \in Gens /\ e.instance \in Instances /\ e.instance # None
      /\ e.seq \in Nat /\ StreamOf(e) \in Streams
  <2>1. e \in Envelope /\ line \in Line  BY EventLineType
  <2>2. line.kind = "event" /\ line.env = e /\ line.number = mem.top + 1  BY DEF EventLine
  <2>3. mem.top \in Nat /\ e.gen = generation  BY DEF TypeOK, MemType, Committable, Fenced
  <2>4. /\ e.gen \in Gens /\ e.instance \in Instances /\ e.instance # None
        /\ e.seq \in Nat /\ StreamOf(e) \in Streams
    BY <2>1, IntakeAssumption DEF Envelope, StreamOf, Streams
  <2> QED  BY <2>1, <2>2, <2>3, <2>4
<1> HIDE DEF line
<1>2. /\ Len(log') = Len(log) + 1 /\ log'[Len(log')] = line
      /\ \A i \in 1..Len(log) : log'[i] = log[i]
      /\ Spent' = Spent \cup {<<StreamOf(e), e.seq>>}
      /\ Accepted' = Accepted \cup {ReceiptOf(line)}
  BY <1>1, AppendLine DEF TypeOK, line
<1>3. Len(log) \in Nat /\ log \in Seq(Line) BY DEF TypeOK
<1>4. \A i \in 1..Len(log) : IsEvent(log, i) =>
        /\ EventKey(log[i].env) # EventKey(e)
        /\ log[i].number <= mem.top
        /\ mem.bound[log[i].env.gen].instance = log[i].env.instance
        /\ log[i].env.gen <= generation
  <2> SUFFICES ASSUME NEW i \in 1..Len(log), IsEvent(log, i)
               PROVE  EventKey(log[i].env) # EventKey(e)
    BY DEF StoreInv, MemOf, Loaded
  <2>1. ReceiptOf(log[i]) \in mem.receipts  BY DEF StoreInv, MemOf, Loaded
  <2> QED  BY <2>1 DEF Committable, ReceiptOf
<1>5. \A i \in 1..Len(log) : IsEvent(log, i) /\ log[i].env.gen = e.gen =>
        log[i].env.instance = e.instance
  <2>1. \A i \in 1..Len(log) : log[i].env.instance \in Instances
    BY <1>3, LineFacts
  <2> QED  BY <1>4, <2>1, IntakeAssumption DEF Committable
<1>6. DistinctLog(log')
  <2>1. DistinctLog(log)  BY DEF StoreInv
  <2>2. \A i \in 1..Len(log') : i \in 1..Len(log) \/ i = Len(log')  BY <1>2, <1>3
  <2>3. \A i \in 1..Len(log) : IsEvent(log', i) <=> IsEvent(log, i)  BY <1>2 DEF IsEvent
  <2> QED  BY <1>1, <1>2, <1>4, <1>5, <2>1, <2>2, <2>3 DEF DistinctLog
<1>7. /\ \A i \in 1..Len(log') : log'[i].env.gen <= generation
      /\ MemOf(log', Install(mem, line), 1..Len(log'))
  BY <1>1, <1>6, StoreGrows DEF line
<1>8. Journal!Unspent(StreamOf(e), e.seq)
  BY <1>1, AboveFloor DEF Committable
<1>9. \A r \in Accepted : /\ r.number < mem.top + 1
                          /\ r.env.gen <= e.gen
                          /\ r.env.gen = e.gen => r.env.instance = e.instance
  <2> SUFFICES ASSUME NEW i \in 1..Len(log), IsEvent(log, i)
               PROVE  /\ log[i].number < mem.top + 1
                      /\ log[i].env.gen <= e.gen
                      /\ log[i].env.gen = e.gen => log[i].env.instance = e.instance
    BY DEF Accepted, Lines, ReceiptOf, IsEvent
  <2>1. log[i].number \in Nat  BY <1>3, LineFacts
  <2> QED  BY <1>1, <1>4, <1>5, <2>1
<1>10. Journal!Accept(ReceiptOf(line))
  <2>1. ReceiptOf(line).env = e /\ ReceiptOf(line).number = mem.top + 1
    BY <1>1 DEF ReceiptOf
  <2> QED  BY <1>2, <1>8, <1>9, <2>1 DEF Journal!Accept, Journal!Stream, StreamOf
<1> QED  BY <1>2, <1>6, <1>7, <1>10 DEF Journal!Next, line

(* A claim spends a number and accepts nothing. *)
LEMMA ClaimStep ==
  ASSUME TypeOK, StoreInv, phase = "up", NEW r \in Registrations, Claimable(r),
         log' = Append(log, ClaimLine(r))
  PROVE  /\ \A i \in 1..Len(log') : log'[i].env.gen <= generation
         /\ DistinctLog(log')
         /\ MemOf(log', Install(mem, ClaimLine(r)), 1..Len(log'))
         /\ Journal!Next
<1> DEFINE line == ClaimLine(r)
           stream == <<r.gen, r.instance, "push">>
<1>1. /\ line \in Line /\ line.kind = "claim" /\ line.env.gen = generation
      /\ StreamOf(line.env) = stream /\ line.env.seq = r.seq
      /\ r.gen \in Gens /\ r.instance # None /\ r.seq \in Nat /\ stream \in Streams
  BY ClaimLineType, IntakeAssumption
     DEF ClaimLine, Claimable, Fenced, Registration, StreamOf, Streams, Transports
<1>2. r.seq > mem.floor[stream]  BY DEF Claimable
<1> HIDE DEF line, stream
<1>3. /\ Len(log') = Len(log) + 1 /\ log'[Len(log')] = line
      /\ \A i \in 1..Len(log) : log'[i] = log[i]
      /\ Spent' = Spent \cup {<<stream, r.seq>>} /\ Accepted' = Accepted
  BY <1>1, AppendLine DEF TypeOK, line
<1>4. Len(log) \in Nat /\ log \in Seq(Line) BY DEF TypeOK
<1>5. DistinctLog(log')
  <2>1. DistinctLog(log)  BY DEF StoreInv
  <2>2. \A i \in 1..Len(log') : IsEvent(log', i) => i \in 1..Len(log) /\ IsEvent(log, i)
    BY <1>1, <1>3, <1>4 DEF IsEvent
  <2> QED  BY <1>3, <2>1, <2>2 DEF DistinctLog
<1>6. /\ \A i \in 1..Len(log') : log'[i].env.gen <= generation
      /\ MemOf(log', Install(mem, line), 1..Len(log'))
  BY <1>1, <1>5, StoreGrows DEF line
<1>7. Journal!Unspent(stream, r.seq)  BY <1>1, <1>2, AboveFloor
<1>8. \E a \in Accepted : a.env.gen = r.gen /\ a.env.instance = r.instance
  <2>1. mem.bound[r.gen].instance = r.instance  BY DEF Claimable
  <2>2. PICK i \in 1..Len(log) : IsEvent(log, i) /\ log[i].env.gen = r.gen
    BY <1>1, <2>1 DEF StoreInv, MemOf, Loaded
  <2>3. log[i].env.instance = r.instance
    BY <2>1, <2>2 DEF StoreInv, MemOf, Loaded
  <2>4. ReceiptOf(log[i]) \in Accepted /\ ReceiptOf(log[i]).env = log[i].env
    BY <2>2 DEF Accepted, Lines, IsEvent, ReceiptOf
  <2> QED  BY <2>2, <2>3, <2>4
<1>9. Journal!Claim(stream, r.seq)
  BY <1>3, <1>7, <1>8 DEF Journal!Claim, stream
<1>10. <<stream, r.seq>> \in Spent'  BY <1>3
<1> QED  BY <1>5, <1>6, <1>9, <1>10 DEF Journal!Next, line

-----------------------------------------------------------------------------
(* The journal.                                                            *)

LEMMA EmptyMem == ASSUME NEW l PROVE MemOf(l, Empty, {})
BY DEF MemOf, Empty, NoBinding

LEMMA StoreInit == Init => StoreInv /\ Journal!Init
<1> SUFFICES ASSUME Init PROVE StoreInv /\ Journal!Init  OBVIOUS
<1>1. log = <<>> /\ 1..Len(log) = {} /\ Loaded = {} /\ mem = Empty  BY DEF Init, Loaded
<1>2. DistinctLog(log)  BY <1>1 DEF DistinctLog
<1>3. MemOf(log, mem, Loaded)  BY <1>1, EmptyMem
<1>4. Accepted = {} /\ Spent = {}  BY <1>1 DEF Accepted, Spent, Lines
<1> QED  BY <1>1, <1>2, <1>3, <1>4 DEF StoreInv, Journal!Init

(* Every step keeps the invariant, and is a step of the journal or none. *)
LEMMA StoreNext ==
  ASSUME Typed, StoreInv, [Next]_vars
  PROVE  StoreInv' /\ [Journal!Next]_<<Accepted, Spent>>
<1> DEFINE Goal == StoreInv' /\ [Journal!Next]_<<Accepted, Spent>>
<1>0. TypeOK /\ log \in Seq(Line) /\ read \in 0..Len(log) /\ generation \in Int
  BY IntakeAssumption DEF Typed, TypeOK, Gens
<1>1. ASSUME UNCHANGED <<log, mem, read>>, phase' = "up" <=> phase = "up",
             generation' \in Int, generation <= generation'
      PROVE  Goal
  <2>1. UNCHANGED <<Accepted, Spent>>  BY <1>1 DEF Accepted, Spent, Lines
  <2>2. Loaded' = Loaded  BY <1>1 DEF Loaded
  <2>3. \A i \in 1..Len(log') : log'[i].env.gen <= generation'
    <3>1. \A i \in 1..Len(log) : log[i].env.gen \in Int
      BY <1>0, LineFacts, IntakeAssumption DEF Gens
    <3> QED  BY <1>0, <1>1, <3>1 DEF StoreInv
  <2> QED  BY <1>1, <2>1, <2>2, <2>3 DEF StoreInv
<1>2. ASSUME UNCHANGED log, UNCHANGED generation, MemOf(log, mem', Loaded')
      PROVE  Goal
  <2>1. UNCHANGED <<Accepted, Spent>>  BY <1>2 DEF Accepted, Spent, Lines
  <2> QED  BY <1>2, <2>1 DEF StoreInv
<1>3. ASSUME phase = "up", UNCHANGED <<phase, generation>>,
             NEW e \in polls \cup Pushes, Commit(e)
      PROVE  Goal
  <2>1. Committable(e) /\ log' = Append(log, EventLine(e)) /\ mem' = Install(mem, EventLine(e))
    BY <1>0, <1>3 DEF Commit, Write, TypeOK
  <2>2. Loaded' = 1..Len(log')  BY <1>3 DEF Loaded
  <2> QED  BY <1>0, <1>3, <2>1, <2>2, EventStep DEF StoreInv
<1>4. CASE UNCHANGED vars  BY <1>0, <1>1, <1>4 DEF vars, files
<1>5. CASE Start  BY <1>0, <1>1, <1>5 DEF Start
<1>6. CASE Ensure
  <2>1. generation' = NextGeneration /\ NextGeneration \in Int /\ generation <= NextGeneration
    BY <1>0, <1>6 DEF Ensure, NextGeneration
  <2> QED  BY <1>1, <1>6, <2>1 DEF Ensure
<1>7. CASE Restore \/ ExitObserved \/ Retire
  BY <1>0, <1>1, <1>7 DEF Restore, ExitObserved, Retire, files
<1>8. CASE PushRetried \/ ActivateEndpoint \/ Reconcile \/ PollSkipped
  BY <1>0, <1>1, <1>8 DEF PushRetried, ActivateEndpoint, Reconcile, PollSkipped, files
<1>9. CASE Serve
  <2>1. Loaded' = Loaded  BY <1>9 DEF Serve, files, Loaded
  <2> QED  BY <1>2, <1>9, <2>1 DEF Serve, files, StoreInv
<1>10. CASE ReplayLine
  <2>1. read + 1 \in (1..Len(log)) \ (1..read) /\ 1..read \in SUBSET (1..Len(log))
        /\ (1..read) \cup {read + 1} = 1..(read + 1)
    BY <1>0, <1>10 DEF ReplayLine
  <2>2. Loaded = 1..read /\ Loaded' = 1..(read + 1)
    BY <1>10 DEF ReplayLine, files, Loaded
  <2>3. MemOf(log, Install(mem, log[read + 1]), (1..read) \cup {read + 1})
    BY <1>0, <2>1, <2>2, InstallStep DEF StoreInv, TypeOK
  <2> QED  BY <1>2, <1>10, <2>1, <2>2, <2>3 DEF ReplayLine, files
<1>11. CASE PushAccepted
  <2>1. PICK e \in Pushes : Commit(e)  BY <1>11 DEF PushAccepted
  <2> QED  BY <1>3, <1>11, <2>1 DEF PushAccepted
<1>12. CASE PollAnswered
  <2>1. PICK e \in polls : Commit(e)  BY <1>12 DEF PollAnswered
  <2>2. phase = "up"  BY <1>0, <2>1 DEF TypeOK
  <2> QED  BY <1>3, <1>12, <2>1, <2>2 DEF PollAnswered
<1>13. CASE RegisterEndpoint
  <2>1. PICK r \in Registrations : /\ Claimable(r) /\ Write(ClaimLine(r))
                                   /\ mem' = Install(mem, ClaimLine(r))
    BY <1>13 DEF RegisterEndpoint
  <2>2. log' = Append(log, ClaimLine(r))
    BY <1>0, <1>13, <2>1 DEF RegisterEndpoint, Write, TypeOK
  <2>3. phase = "up" /\ generation' = generation /\ Loaded' = 1..Len(log')
    BY <1>13 DEF RegisterEndpoint, Loaded
  <2> QED  BY <1>0, <2>1, <2>2, <2>3, ClaimStep DEF StoreInv
<1>14. CASE Crash
  <2>1. generation' = generation /\ mem' = Empty /\ Loaded' = {}
    BY <1>14 DEF Crash, Loaded
  <2>2. MemOf(log', mem', Loaded')  BY <2>1, EmptyMem
  <2>3. CASE UNCHANGED log  BY <1>2, <2>1, <2>2, <2>3
  <2>4. CASE phase = "up" /\ \E line \in Writing : Write(line)
    <3>1. PICK line \in Writing : Write(line)  BY <2>4
    <3>2. log' = Append(log, line)  BY <1>0, <2>4, <3>1 DEF Write, TypeOK
    <3>3. CASE \E e \in polls \cup Pushes : Committable(e) /\ line = EventLine(e)
      BY <1>0, <2>1, <2>2, <2>4, <3>2, <3>3, EventStep DEF StoreInv
    <3>4. CASE \E r \in Registrations : Claimable(r) /\ line = ClaimLine(r)
      BY <1>0, <2>1, <2>2, <2>4, <3>2, <3>4, ClaimStep DEF StoreInv
    <3> QED  BY <3>1, <3>3, <3>4 DEF Writing
  <2> QED  BY <1>14, <2>3, <2>4 DEF Crash
<1> QED
  BY <1>4, <1>5, <1>6, <1>7, <1>8, <1>9, <1>10, <1>11, <1>12, <1>13, <1>14 DEF Next

LEMMA AlwaysStored == Spec => []StoreInv
<1>1. Init => StoreInv  BY StoreInit
<1>2. Typed /\ StoreInv /\ [Next]_vars => StoreInv'  BY StoreNext
<1> QED  BY <1>1, <1>2, AlwaysTyped, PTL DEF Spec

(* The acceptance log is the journal that AcceptanceJournal promises, across  *)
(* crashes at any step: FileIntakeStore's append, truncation and replay keep  *)
(* one total order, no number is used twice in a stream, and no generation    *)
(* is accepted after a later one.                                             *)
THEOREM JournalImplemented == Spec => ImplementsJournal
<1>1. Init => Journal!Init  BY StoreInit
<1>2. Typed /\ StoreInv /\ [Next]_vars => [Journal!Next]_<<Accepted, Spent>>
  BY StoreNext
<1> QED
  BY <1>1, <1>2, AlwaysStored, AlwaysTyped, PTL DEF Spec, ImplementsJournal, Journal!Spec

-----------------------------------------------------------------------------
(* Receipts.                                                               *)

(* Nothing a producer was told is missing from the log. *)
ToldInv == told \subseteq Accepted

LEMMA ServingReceipts ==
  ASSUME StoreInv, phase = "up"
  PROVE  mem.receipts = Accepted
BY DEF StoreInv, MemOf, Loaded, Accepted, Lines, IsEvent

LEMMA ToldNext ==
  ASSUME Typed, StoreInv, ToldInv, [Next]_vars
  PROVE  ToldInv'
<1>0. TypeOK /\ log \in Seq(Line)  BY DEF Typed, TypeOK
<1>1. Accepted \subseteq Accepted' /\ Spent \subseteq Spent'
  <2>1. [Journal!Next]_<<Accepted, Spent>>  BY StoreNext
  <2> QED  BY <2>1 DEF Journal!Next, Journal!Accept, Journal!Claim
<1>2. ASSUME phase = "up", NEW e \in polls \cup Pushes, Commit(e)
      PROVE  ToldInv'
  <2>1. log' = Append(log, EventLine(e)) /\ told' = told \cup {ReceiptOf(EventLine(e))}
    BY <1>0, <1>2 DEF Commit, Write, TypeOK
  <2>2. EventLine(e).kind = "event"  BY DEF EventLine
  <2>3. ReceiptOf(EventLine(e)) \in Accepted'  BY <1>0, <2>1, <2>2, AppendLine
  <2> QED  BY <1>1, <2>1, <2>3 DEF ToldInv
<1>3. CASE UNCHANGED told  BY <1>1, <1>3 DEF ToldInv
<1>4. CASE PushAccepted
  <2>1. PICK e \in Pushes : Commit(e)  BY <1>4 DEF PushAccepted
  <2> QED  BY <1>2, <1>4, <2>1 DEF PushAccepted
<1>5. CASE PollAnswered
  <2>1. PICK e \in polls : Commit(e)  BY <1>5 DEF PollAnswered
  <2> QED  BY <1>0, <1>2, <2>1 DEF TypeOK
<1>6. CASE PushRetried
  <2>1. mem.receipts = Accepted  BY <1>6, ServingReceipts DEF PushRetried
  <2> QED  BY <1>1, <1>6, <2>1 DEF PushRetried, ToldInv
<1>7. [Next]_vars /\ ~(PushAccepted \/ PollAnswered \/ PushRetried) => UNCHANGED told
  BY DEF Next, vars, files, Start, ReplayLine, Serve, Crash, Ensure, Restore, ExitObserved,
         Retire, RegisterEndpoint, ActivateEndpoint, Reconcile, PollSkipped
<1> QED  BY <1>3, <1>4, <1>5, <1>6, <1>7

(* A retry is answered as the first time, by this daemon process and by every *)
(* later one (commitAgentState's duplicate, and replayReceipts).              *)
THEOREM ReceiptsAreDurable == Spec => []ReceiptsSurvive
<1>1. Init => ToldInv  BY DEF Init, ToldInv
<1>2. Typed /\ StoreInv /\ ToldInv /\ [Next]_vars => ToldInv'  BY ToldNext
<1>3. Typed /\ StoreInv /\ ToldInv => ReceiptsSurvive
  <2> SUFFICES ASSUME Typed, StoreInv, ToldInv PROVE ReceiptsSurvive  OBVIOUS
  <2>1. phase = "up" => told \subseteq mem.receipts  BY ServingReceipts DEF ToldInv
  <2>2. ASSUME NEW r \in told, NEW s \in told, EventKey(r.env) = EventKey(s.env)
        PROVE  r = s
    <3>1. PICK i \in 1..Len(log) : IsEvent(log, i) /\ r = ReceiptOf(log[i])
      BY DEF ToldInv, Accepted, Lines, IsEvent
    <3>2. PICK j \in 1..Len(log) : IsEvent(log, j) /\ s = ReceiptOf(log[j])
      BY DEF ToldInv, Accepted, Lines, IsEvent
    <3>3. r.env = log[i].env /\ s.env = log[j].env  BY <3>1, <3>2 DEF ReceiptOf
    <3> QED  BY <2>2, <3>1, <3>2, <3>3 DEF StoreInv, DistinctLog
  <2> QED  BY <2>1, <2>2 DEF ReceiptsSurvive
<1> QED  BY <1>1, <1>2, <1>3, AlwaysTyped, AlwaysStored, PTL DEF Spec

-----------------------------------------------------------------------------
(* The store and the authority.                                            *)

(* The authority's instance is the one the store has bound, and its           *)
(* watermarks are not above the store's.                                      *)
AgentInv ==
  /\ agent.instance = None => agent.push = 0 /\ agent.poll = 0
  /\ agent.instance # None =>
       /\ mem.bound[agent.gen].instance = agent.instance
       /\ agent.push <= mem.floor[<<agent.gen, agent.instance, "push">>]
       /\ agent.poll <= mem.floor[<<agent.gen, agent.instance, "poll">>]

(* Installing a line raises the watermark of its stream to its number or      *)
(* leaves it alone; the other watermarks stay.                                *)
LEMMA InstallFloor ==
  ASSUME NEW m \in MemType, NEW line \in Line
  PROVE  \A s \in Streams :
           /\ Install(m, line).floor[s] \in Nat
           /\ m.floor[s] <= Install(m, line).floor[s]
           /\ \/ Install(m, line).floor[s] = m.floor[s]
              \/ s = StreamOf(line.env) /\ Install(m, line).floor[s] = line.env.seq
<1>1. line.env.seq \in Nat /\ StreamOf(line.env) \in Streams
  BY DEF Line, Envelope, StreamOf, Streams
<1>2. m.floor \in [Streams -> Nat]  BY DEF MemType
<1>3. InstallClaim(m, line).floor = [m.floor EXCEPT ![StreamOf(line.env)] = Higher(@, line.env.seq)]
  BY DEF InstallClaim, MemType
<1>4. Install(m, line).floor \in {m.floor, InstallClaim(m, line).floor}
  BY DEF Install, InstallReceipt
<1> QED  BY <1>1, <1>2, <1>3, <1>4 DEF Higher

(* Installing an acceptable event binds its instance. *)
LEMMA InstallBinds ==
  ASSUME TypeOK, NEW e \in Envelope, EventLine(e) \in Line, Committable(e)
  PROVE  /\ Install(mem, EventLine(e)).bound[e.gen].instance = e.instance
         /\ e.seq <= Install(mem, EventLine(e)).floor[StreamOf(e)]
<1> DEFINE line == EventLine(e)
<1>1. line.kind = "event" /\ line.env = e /\ line \in Line  BY DEF EventLine
<1>2. /\ e.gen \in Gens /\ e.seq \in Nat /\ StreamOf(e) \in Streams
      /\ mem.bound \in [Gens -> [instance: Instances \cup {None}, number: Nat]]
      /\ mem.floor \in [Streams -> Nat]
  BY DEF Envelope, StreamOf, Streams, TypeOK, MemType
<1> HIDE DEF line
<1>3. \A r \in mem.receipts : EventKey(r.env) # EventKey(line.env)  BY <1>1 DEF Committable
<1>4. /\ Install(mem, line).bound =
           (IF mem.bound[line.env.gen].instance = None
               \/ mem.bound[line.env.gen].number < line.number
             THEN [mem.bound EXCEPT ![line.env.gen] =
                     [instance |-> line.env.instance, number |-> line.number]]
             ELSE mem.bound)
      /\ Install(mem, line).floor = InstallClaim(mem, line).floor
  BY <1>1, <1>3 DEF Install, InstallReceipt
<1>5. Install(mem, line).bound[e.gen].instance = e.instance
  BY <1>1, <1>2, <1>4 DEF Committable
<1>6. e.seq <= Install(mem, line).floor[StreamOf(e)]
  <2>1. InstallClaim(mem, line).floor = [mem.floor EXCEPT ![StreamOf(e)] = Higher(@, e.seq)]
    BY <1>1 DEF InstallClaim, TypeOK, MemType
  <2> QED  BY <1>2, <1>4, <2>1 DEF Higher
<1> QED  BY <1>5, <1>6 DEF line

LEMMA AgentNext ==
  ASSUME Typed, AgentInv, [Next]_vars
  PROVE  AgentInv'
<1>0. /\ TypeOK /\ mem \in MemType
      /\ agent \in [gen: Gens, exited: BOOLEAN, instance: Instances \cup {None},
                    push: Nat, poll: Nat]
      /\ agent.gen \in Gens
      /\ agent.instance # None =>
           /\ <<agent.gen, agent.instance, "push">> \in Streams
           /\ <<agent.gen, agent.instance, "poll">> \in Streams
  BY DEF Typed, TypeOK, Streams, Transports
<1>1. ASSUME UNCHANGED mem,
             agent'.gen = agent.gen \/ agent'.instance = None,
             agent'.instance \in {agent.instance, None},
             \/ agent'.push = agent.push /\ agent'.poll = agent.poll
             \/ agent'.push = 0 /\ agent'.poll = 0,
             agent'.instance = None => agent'.push = 0 /\ agent'.poll = 0
      PROVE  AgentInv'
  <2>1. CASE agent'.instance = None  BY <1>1, <2>1 DEF AgentInv
  <2>2. CASE agent'.instance # None
    <3>1. agent'.instance = agent.instance /\ agent'.gen = agent.gen /\ mem' = mem
      BY <1>1, <2>2
    <3>2. /\ mem.floor[<<agent.gen, agent.instance, "push">>] \in Nat
          /\ mem.floor[<<agent.gen, agent.instance, "poll">>] \in Nat
      BY <1>0, <2>2, <3>1 DEF MemType
    <3>3. /\ agent.push <= mem.floor[<<agent.gen, agent.instance, "push">>]
          /\ agent.poll <= mem.floor[<<agent.gen, agent.instance, "poll">>]
          /\ mem.bound[agent.gen].instance = agent.instance
      BY <2>2, <3>1 DEF AgentInv
    <3> QED  BY <1>0, <1>1, <2>2, <3>1, <3>2, <3>3 DEF AgentInv
  <2> QED  BY <2>1, <2>2
<1>2. \A g \in Gens : /\ Registered(g).instance = None
                      /\ Registered(g).push = 0 /\ Registered(g).poll = 0
  BY DEF Registered, NoAgent
<1>3. NoAgent.instance = None /\ NoAgent.push = 0 /\ NoAgent.poll = 0  BY DEF NoAgent
<1>4. ASSUME phase = "up", NEW e \in polls \cup Pushes, Commit(e)
      PROVE  AgentInv'
  <2>1. e \in Envelope /\ EventLine(e) \in Line  BY <1>0, EventLineType
  <2>2. /\ Committable(e) /\ mem' = Install(mem, EventLine(e))
        /\ agent' = agent \/ agent' = Applied(e)
    BY <1>4 DEF Commit
  <2>3. /\ mem'.bound[e.gen].instance = e.instance
        /\ e.seq <= mem'.floor[StreamOf(e)]
    BY <1>0, <2>1, <2>2, InstallBinds
  <2>4. \A s \in Streams : mem'.floor[s] \in Nat /\ mem.floor[s] <= mem'.floor[s]
    BY <1>0, <2>1, <2>2, InstallFloor
  <2>5. /\ e.gen = agent.gen /\ e.instance # None /\ e.transport \in {"push", "poll"}
        /\ e.seq \in Nat /\ StreamOf(e) = <<e.gen, e.instance, e.transport>>
        /\ e.gen \in Gens /\ e.instance \in Instances
    BY <2>1, <2>2, IntakeAssumption
       DEF Committable, Fenced, Envelope, StreamOf, Transports
  <2>6. agent.instance # None => agent.instance = e.instance
    BY <2>2, <2>5 DEF AgentInv, Committable
  <2>7. mem.floor \in [Streams -> Nat]  BY <1>0 DEF MemType
  <2>8. /\ <<e.gen, e.instance, "push">> \in Streams /\ <<e.gen, e.instance, "poll">> \in Streams
    BY <2>5 DEF Streams, Transports
  <2>9. agent.push <= mem'.floor[<<e.gen, e.instance, "push">>]
        /\ agent.poll <= mem'.floor[<<e.gen, e.instance, "poll">>]
    <3>1. CASE agent.instance = None  BY <2>4, <2>8, <3>1 DEF AgentInv
    <3>2. CASE agent.instance # None
      BY <1>0, <2>4, <2>5, <2>6, <2>7, <2>8, <3>2 DEF AgentInv
    <3> QED  BY <3>1, <3>2
  <2>10. CASE agent' = agent
    BY <2>3, <2>5, <2>6, <2>9, <2>10 DEF AgentInv
  <2>11. CASE agent' = Applied(e)
    <3>1. /\ agent'.instance = e.instance /\ agent'.gen = e.gen
          /\ agent'.push = (IF e.transport = "push" THEN e.seq ELSE agent.push)
          /\ agent'.poll = (IF e.transport = "poll" THEN e.seq ELSE agent.poll)
      BY <1>0, <2>5, <2>11 DEF Applied
    <3> QED  BY <2>3, <2>5, <2>9, <3>1 DEF AgentInv
  <2> QED  BY <2>2, <2>10, <2>11
<1>5. CASE UNCHANGED <<mem, agent>>  BY <1>0, <1>1, <1>5 DEF AgentInv
<1>6. CASE Ensure \/ Restore
  <2>1. UNCHANGED mem /\ \E g \in Gens : agent' = Registered(g)
    BY <1>0, <1>6, IntakeAssumption DEF Ensure, Restore, files, NextGeneration, TypeOK, Gens
  <2> QED  BY <1>1, <1>2, <2>1
<1>7. CASE ExitObserved \/ Retire
  <2>1. UNCHANGED mem /\ agent' = [agent EXCEPT !.exited = TRUE]
    BY <1>7 DEF ExitObserved, Retire, files
  <2> QED  BY <1>0, <1>1, <2>1 DEF AgentInv
<1>8. CASE PushAccepted
  <2>1. PICK e \in Pushes : Commit(e)  BY <1>8 DEF PushAccepted
  <2> QED  BY <1>4, <1>8, <2>1 DEF PushAccepted
<1>9. CASE PollAnswered
  <2>1. PICK e \in polls : Commit(e)  BY <1>9 DEF PollAnswered
  <2> QED  BY <1>0, <1>4, <2>1 DEF TypeOK
<1>10. CASE RegisterEndpoint
  <2>1. PICK r \in Registrations : mem' = Install(mem, ClaimLine(r))
    BY <1>10 DEF RegisterEndpoint
  <2>2. ClaimLine(r) \in Line  BY ClaimLineType
  <2>3. mem'.bound = mem.bound  BY <2>1 DEF Install, InstallClaim, ClaimLine
  <2>4. \A s \in Streams : mem'.floor[s] \in Nat /\ mem.floor[s] <= mem'.floor[s]
    BY <1>0, <2>1, <2>2, InstallFloor
  <2>5. mem.floor \in [Streams -> Nat] /\ agent' = agent
    BY <1>0, <1>10 DEF MemType, RegisterEndpoint
  <2> QED  BY <1>0, <2>3, <2>4, <2>5 DEF AgentInv
<1>11. CASE ReplayLine \/ Crash
  <2>1. agent' = NoAgent  BY <1>0, <1>11 DEF ReplayLine, Crash, TypeOK
  <2> QED  BY <1>3, <2>1 DEF AgentInv
<1>12. [Next]_vars => \/ UNCHANGED <<mem, agent>> \/ Ensure \/ Restore \/ ExitObserved \/ Retire
                      \/ PushAccepted \/ PollAnswered \/ RegisterEndpoint \/ ReplayLine \/ Crash
  BY DEF Next, vars, files, Start, Serve, PushRetried, ActivateEndpoint, Reconcile, PollSkipped
<1> QED
  BY <1>5, <1>6, <1>7, <1>8, <1>9, <1>10, <1>11, <1>12

(* What commitAgentState accepts passes the fences of authority.ingest: the   *)
(* event is applied to the state that is shown.                               *)
THEOREM AcceptedEventsApply == Spec => []AcceptedIsApplied
<1>1. Init => AgentInv  BY DEF Init, AgentInv, NoAgent
<1>2. Typed /\ AgentInv /\ [Next]_vars => AgentInv'  BY AgentNext
<1>3. Typed /\ AgentInv => AcceptedIsApplied
  <2> SUFFICES ASSUME Typed, AgentInv, NEW e \in Pushes \cup polls, Committable(e)
               PROVE  Applicable(e)
    BY DEF AcceptedIsApplied
  <2>1. /\ e \in Envelope /\ mem.floor \in [Streams -> Nat]
        /\ agent.push \in Nat /\ agent.poll \in Nat
    BY EventLineType DEF Typed, TypeOK, MemType
  <2>2. /\ e.transport \in {"push", "poll"} /\ e.seq \in Nat \ {0} /\ e.instance # None
        /\ StreamOf(e) = <<e.gen, e.instance, e.transport>> /\ StreamOf(e) \in Streams
    BY <2>1, IntakeAssumption DEF Envelope, Transports, StreamOf, Streams
  <2>3. agent.gen = e.gen /\ ~agent.exited  BY DEF Committable, Fenced
  <2>4. agent.instance \in {None, e.instance}  BY <2>3 DEF AgentInv, Committable
  <2>5. e.seq > IF e.transport = "push" THEN agent.push ELSE agent.poll
    <3>1. CASE agent.instance = None  BY <2>2, <3>1 DEF AgentInv
    <3>2. CASE agent.instance # None
      BY <2>1, <2>2, <2>3, <2>4, <3>2 DEF AgentInv, Committable
    <3> QED  BY <3>1, <3>2
  <2> QED  BY <2>3, <2>4, <2>5 DEF Applicable
<1> QED  BY <1>1, <1>2, <1>3, AlwaysTyped, PTL DEF Spec

-----------------------------------------------------------------------------
(* The endpoint store and the acceptance log.                              *)

(* The number of the registration is spent. *)
RegisteredInv ==
  endpoint.gen # 0 =>
    <<<<endpoint.gen, endpoint.instance, "push">>, endpoint.seq>> \in Spent

(* An endpoint keeps its generation, instance and number but for a new        *)
(* registration.                                                              *)
LEMMA EndpointKept ==
  ASSUME Typed, [Next]_vars
  PROVE  \/ RegisterEndpoint
         \/ /\ endpoint'.gen = endpoint.gen /\ endpoint'.instance = endpoint.instance
            /\ endpoint'.seq = endpoint.seq
<1>1. endpoint \in [gen: Gens, instance: Instances \cup {None}, seq: Nat,
                  target: Targets \cup {None}, pollSeq: Nat, active: BOOLEAN]
  BY DEF Typed, TypeOK
<1>2. CASE UNCHANGED endpoint  BY <1>2
<1>3. CASE Crash  BY <1>1, <1>3 DEF Crash
<1>4. CASE ActivateEndpoint \/ Reconcile
  BY <1>1, <1>4 DEF ActivateEndpoint, Reconcile, StartPoll
<1>5. [Next]_vars => UNCHANGED endpoint \/ Crash \/ ActivateEndpoint \/ Reconcile \/ RegisterEndpoint
  BY DEF Next, vars, files, Start, ReplayLine, Serve, Ensure, Restore, ExitObserved, Retire,
         PushAccepted, PushRetried, PollAnswered, PollSkipped
<1> QED  BY <1>2, <1>3, <1>4, <1>5

LEMMA RegisteredNext ==
  ASSUME Typed, StoreInv, RegisteredInv, [Next]_vars
  PROVE  RegisteredInv'
<1>0. TypeOK /\ log \in Seq(Line)  BY DEF Typed, TypeOK
<1>1. Spent \subseteq Spent'
  <2>1. [Journal!Next]_<<Accepted, Spent>>  BY StoreNext
  <2> QED  BY <2>1 DEF Journal!Next, Journal!Accept, Journal!Claim
<1>2. CASE RegisterEndpoint
  <2>1. PICK r \in Registrations :
          /\ Write(ClaimLine(r))
          /\ endpoint' = [gen |-> r.gen, instance |-> r.instance, seq |-> r.seq,
                          target |-> r.target, pollSeq |-> PollsMade(r), active |-> FALSE]
    BY <1>2 DEF RegisterEndpoint
  <2>2. log' = Append(log, ClaimLine(r))
    BY <1>0, <1>2, <2>1 DEF RegisterEndpoint, Write, TypeOK
  <2>3. StreamOf(ClaimLine(r).env) = <<r.gen, r.instance, "push">> /\ ClaimLine(r).env.seq = r.seq
    BY DEF ClaimLine, StreamOf
  <2>4. <<StreamOf(ClaimLine(r).env), ClaimLine(r).env.seq>> \in Spent'
    BY <1>0, <2>2, AppendLine
  <2> QED  BY <2>1, <2>3, <2>4 DEF RegisteredInv
<1> QED  BY <1>1, <1>2, EndpointKept DEF RegisteredInv

(* A number the endpoint store has registered under is below the watermark of *)
(* every daemon that serves: claimProducerSequence writes it before the       *)
(* snapshot is replaced.                                                      *)
THEOREM RegistrationsAreClaimed == Spec => []RegistrationIsClaimed
<1>1. Init => RegisteredInv  BY DEF Init, RegisteredInv, NoEndpoint
<1>2. Typed /\ StoreInv /\ RegisteredInv /\ [Next]_vars => RegisteredInv'  BY RegisteredNext
<1>3. Typed /\ StoreInv /\ RegisteredInv => RegistrationIsClaimed
  <2> SUFFICES ASSUME Typed, StoreInv, RegisteredInv, phase = "up", endpoint.gen # 0
               PROVE  endpoint.seq <= mem.floor[<<endpoint.gen, endpoint.instance, "push">>]
    BY DEF RegistrationIsClaimed
  <2>1. PICK i \in 1..Len(log) :
          /\ StreamOf(log[i].env) = <<endpoint.gen, endpoint.instance, "push">>
          /\ log[i].env.seq = endpoint.seq
    BY DEF RegisteredInv, Spent, Lines
  <2> QED  BY <2>1 DEF StoreInv, MemOf, Loaded
<1> QED  BY <1>1, <1>2, <1>3, AlwaysTyped, AlwaysStored, PTL DEF Spec

(* The polls that are out and those that were accepted.                       *)
PollsSeen == polls \cup {line.env : line \in {line \in Lines : line.env.transport = "poll"}}

(* The endpoint's count is not below any poll of its generation, and no poll  *)
(* is of a later generation.                                                  *)
PollInv ==
  /\ endpoint.gen <= generation
  /\ \A e \in PollsSeen : /\ e.gen \in Nat /\ e.seq \in Nat
                          /\ e.gen <= endpoint.gen
                          /\ e.gen = endpoint.gen => e.seq <= endpoint.pollSeq

(* A watermark is no higher than a line that was replayed. *)
FloorInv ==
  \A s \in Streams : mem.floor[s] = 0 \/ \E i \in Loaded :
    StreamOf(log[i].env) = s /\ log[i].env.seq = mem.floor[s]

LEMMA FloorNext ==
  ASSUME Typed, FloorInv, [Next]_vars
  PROVE  FloorInv'
<1>0. TypeOK /\ log \in Seq(Line) /\ read \in 0..Len(log) /\ mem \in MemType
  BY DEF Typed, TypeOK
<1>1. ASSUME UNCHANGED <<log, mem>>, Loaded \subseteq Loaded'
      PROVE  FloorInv'
  BY <1>1 DEF FloorInv
<1>2. ASSUME phase = "up", phase' = "up", NEW line \in Line, Write(line),
             mem' = Install(mem, line)
      PROVE  FloorInv'
  <2>1. log' = Append(log, line)  BY <1>0, <1>2 DEF Write, TypeOK
  <2>2. /\ Len(log') = Len(log) + 1 /\ log'[Len(log')] = line
        /\ \A i \in 1..Len(log) : log'[i] = log[i]
    BY <1>0, <2>1, AppendLine
  <2>3. Loaded = 1..Len(log) /\ Loaded' = 1..Len(log')  BY <1>2 DEF Loaded
  <2>4. Loaded \subseteq Loaded' /\ Len(log') \in Loaded'  BY <1>0, <2>2, <2>3
  <2> QED  BY <1>0, <1>2, <2>2, <2>3, <2>4, InstallFloor DEF FloorInv
<1>3. CASE ReplayLine
  <2>1. read + 1 \in 1..Len(log)  BY <1>0, <1>3 DEF ReplayLine
  <2>2. log[read + 1] \in Line  BY <1>0, <2>1
  <2>3. /\ log' = log /\ mem' = Install(mem, log[read + 1])
        /\ Loaded = 1..read /\ Loaded' = 1..(read + 1)
    BY <1>3 DEF ReplayLine, files, Loaded
  <2>4. Loaded \subseteq Loaded' /\ read + 1 \in Loaded'  BY <1>0, <2>3
  <2> QED  BY <1>0, <2>2, <2>3, <2>4, InstallFloor DEF FloorInv
<1>4. CASE PushAccepted
  <2>1. PICK e \in Pushes : Commit(e)  BY <1>4 DEF PushAccepted
  <2>2. EventLine(e) \in Line  BY <1>0, EventLineType
  <2> QED  BY <1>2, <1>4, <2>1, <2>2 DEF PushAccepted, Commit
<1>5. CASE PollAnswered
  <2>1. PICK e \in polls : Commit(e)  BY <1>5 DEF PollAnswered
  <2>2. EventLine(e) \in Line  BY <1>0, EventLineType
  <2>3. phase = "up" /\ phase' = "up"  BY <1>0, <1>5, <2>1 DEF TypeOK, PollAnswered
  <2> QED  BY <1>2, <2>1, <2>2, <2>3 DEF Commit
<1>6. CASE RegisterEndpoint
  <2>1. PICK r \in Registrations : Write(ClaimLine(r)) /\ mem' = Install(mem, ClaimLine(r))
    BY <1>6 DEF RegisterEndpoint
  <2> QED  BY <1>2, <1>6, <2>1, ClaimLineType DEF RegisterEndpoint
<1>7. CASE Crash
  <2>1. mem' = Empty  BY <1>7 DEF Crash
  <2> QED  BY <2>1 DEF FloorInv, Empty
<1>8. CASE Serve
  <2>1. Loaded' = Loaded /\ UNCHANGED <<log, mem>>  BY <1>8 DEF Serve, files, Loaded
  <2> QED  BY <1>1, <2>1
<1>9. CASE UNCHANGED <<log, mem, read>> /\ (phase' = "up" <=> phase = "up")
  <2>1. Loaded' = Loaded  BY <1>9 DEF Loaded
  <2> QED  BY <1>1, <1>9, <2>1
<1>10. [Next]_vars => \/ UNCHANGED <<log, mem, read>> /\ (phase' = "up" <=> phase = "up")
                      \/ ReplayLine \/ PushAccepted \/ PollAnswered \/ RegisterEndpoint
                      \/ Crash \/ Serve
  BY DEF Next, vars, files, Start, Ensure, Restore, ExitObserved, Retire, PushRetried,
         ActivateEndpoint, Reconcile, PollSkipped
<1> QED  BY <1>3, <1>4, <1>5, <1>6, <1>7, <1>8, <1>9, <1>10

(* A line that is written is of a poll already seen or of no poll. *)
LEMMA WrittenPolls ==
  ASSUME TypeOK, NEW line, log' \in {log, Append(log, line)},
         \/ \E e \in polls \cup Pushes : line = EventLine(e)
         \/ \E r \in Registrations : line = ClaimLine(r)
  PROVE  {x.env : x \in {x \in Lines' : x.env.transport = "poll"}} \subseteq PollsSeen
<1>1. Lines' \subseteq Lines \cup {line}
  <2>1. log \in Seq(Line)  BY DEF TypeOK
  <2>2. CASE log' = log  BY <2>2 DEF Lines
  <2>3. CASE log' = Append(log, line)
    <3>1. /\ Len(log') = Len(log) + 1 /\ log'[Len(log')] = line
          /\ \A i \in 1..Len(log) : log'[i] = log[i]
      BY <2>1, <2>3, AppendLine
    <3>2. 1..Len(log') = 1..Len(log) \cup {Len(log')}  BY <2>1, <3>1
    <3> QED  BY <3>1, <3>2 DEF Lines
  <2> QED  BY <2>2, <2>3
<1>2. line.env.transport = "poll" => line.env \in polls
  <2>1. \A e \in Pushes : e.transport = "push"  BY IntakeAssumption
  <2> QED  BY <2>1 DEF EventLine, ClaimLine
<1> QED  BY <1>1, <1>2 DEF PollsSeen

LEMMA PollNext ==
  ASSUME Typed, PollInv, [Next]_vars
  PROVE  PollInv'
<1>0. /\ TypeOK /\ generation \in Int /\ endpoint.gen \in Int /\ endpoint.pollSeq \in Nat
      /\ endpoint \in [gen: Gens, instance: Instances \cup {None}, seq: Nat,
                       target: Targets \cup {None}, pollSeq: Nat, active: BOOLEAN]
  BY IntakeAssumption DEF Typed, TypeOK, Gens
<1>1. ASSUME PollsSeen' \subseteq PollsSeen, generation' \in Int, generation <= generation',
             endpoint'.gen = endpoint.gen, endpoint'.pollSeq = endpoint.pollSeq
      PROVE  PollInv'
  BY <1>0, <1>1 DEF PollInv
<1>2. ASSUME NEW ep \in {endpoint, [endpoint EXCEPT !.active = TRUE]}, StartPoll(ep),
             UNCHANGED <<log, generation>>
      PROVE  PollInv'
  <2>1. ep.gen = endpoint.gen /\ ep.pollSeq = endpoint.pollSeq /\ ep \in
          [gen: Gens, instance: Instances \cup {None}, seq: Nat,
           target: Targets \cup {None}, pollSeq: Nat, active: BOOLEAN]
    BY <1>0, <1>2
  <2>2. CASE ~Pollable(ep)
    <3>1. endpoint' = ep /\ polls' = polls  BY <1>2, <2>2 DEF StartPoll
    <3> QED  BY <1>0, <1>1, <1>2, <2>1, <3>1 DEF PollsSeen, Lines
  <2>3. CASE Pollable(ep)
    <3> DEFINE e == [gen |-> ep.gen, instance |-> ep.instance,
                     transport |-> "poll", seq |-> ep.pollSeq + 1,
                     id |-> ep.pollSeq + 1, about |-> ep.target]
    <3>1. polls' = polls \cup {e} /\ endpoint' = [ep EXCEPT !.pollSeq = @ + 1]
      BY <1>2, <2>3 DEF StartPoll
    <3>2. endpoint'.gen = endpoint.gen /\ endpoint'.pollSeq = endpoint.pollSeq + 1
      BY <2>1, <3>1
    <3>3. PollsSeen' \subseteq PollsSeen \cup {e}  BY <1>2, <3>1 DEF PollsSeen, Lines
    <3>4. e.gen = endpoint.gen /\ e.seq = endpoint.pollSeq + 1 /\ e.gen \in Nat
      BY <2>1, <1>0, IntakeAssumption DEF Gens
    <3> HIDE DEF e
    <3> QED  BY <1>0, <1>2, <3>2, <3>3, <3>4 DEF PollInv
  <2> QED  BY <2>2, <2>3
<1>3. ASSUME NEW e \in polls \cup Pushes, Commit(e), phase = "up", polls' \subseteq polls
      PROVE  PollsSeen' \subseteq PollsSeen
  <2>1. log' = Append(log, EventLine(e))  BY <1>0, <1>3 DEF Commit, Write, TypeOK
  <2>2. {x.env : x \in {x \in Lines' : x.env.transport = "poll"}} \subseteq PollsSeen
    BY <1>0, <2>1, WrittenPolls
  <2> QED  BY <1>3, <2>2 DEF PollsSeen
<1>4. CASE PushAccepted
  <2>1. PICK e \in Pushes : Commit(e)  BY <1>4 DEF PushAccepted
  <2> QED  BY <1>0, <1>1, <1>3, <1>4, <2>1 DEF PushAccepted
<1>5. CASE PollAnswered
  <2>1. PICK e \in polls : Commit(e) /\ polls' = polls \ {e}  BY <1>5 DEF PollAnswered
  <2>2. phase = "up"  BY <1>0, <2>1 DEF TypeOK
  <2> QED  BY <1>0, <1>1, <1>3, <1>5, <2>1, <2>2 DEF PollAnswered
<1>6. CASE RegisterEndpoint
  <2>1. PICK r \in Registrations :
          /\ Claimable(r) /\ Write(ClaimLine(r))
          /\ endpoint' = [gen |-> r.gen, instance |-> r.instance, seq |-> r.seq,
                          target |-> r.target, pollSeq |-> PollsMade(r), active |-> FALSE]
    BY <1>6 DEF RegisterEndpoint
  <2>2. log' = Append(log, ClaimLine(r)) /\ polls' = polls /\ generation' = generation
    BY <1>0, <1>6, <2>1 DEF RegisterEndpoint, Write, TypeOK
  <2>3. {x.env : x \in {x \in Lines' : x.env.transport = "poll"}} \subseteq PollsSeen
    BY <1>0, <2>2, WrittenPolls
  <2>4. PollsSeen' \subseteq PollsSeen  BY <2>2, <2>3 DEF PollsSeen
  <2>5. r.gen = generation /\ endpoint'.gen = generation /\ endpoint'.pollSeq = PollsMade(r)
    BY <2>1 DEF Claimable, Fenced
  <2>6. CASE endpoint.gen = generation
    BY <1>0, <1>1, <2>2, <2>4, <2>5, <2>6 DEF PollsMade
  <2>7. CASE endpoint.gen # generation
    <3>1. endpoint.gen < generation  BY <1>0, <2>7 DEF PollInv
    <3> QED  BY <1>0, <2>2, <2>4, <2>5, <3>1 DEF PollInv
  <2> QED  BY <2>6, <2>7
<1>7. CASE ActivateEndpoint \/ Reconcile
  BY <1>2, <1>7 DEF ActivateEndpoint, Reconcile
<1>8. CASE Crash
  <2>1. /\ polls' = {} /\ generation' = generation
        /\ endpoint'.gen = endpoint.gen /\ endpoint'.pollSeq = endpoint.pollSeq
    BY <1>0, <1>8 DEF Crash
  <2>2. \E line : /\ log' \in {log, Append(log, line)}
                  /\ \/ \E e \in polls \cup Pushes : line = EventLine(e)
                     \/ \E r \in Registrations : line = ClaimLine(r)
                     \/ log' = log
    <3>1. CASE log' = log  BY <3>1
    <3>2. CASE \E line \in Writing : Write(line)
      BY <3>2 DEF Writing, Write
    <3> QED  BY <1>8, <3>1, <3>2 DEF Crash
  <2>3. {x.env : x \in {x \in Lines' : x.env.transport = "poll"}} \subseteq PollsSeen
    <3>1. CASE log' = log  BY <3>1 DEF PollsSeen, Lines
    <3>2. CASE log' # log  BY <1>0, <2>2, <3>2, WrittenPolls
    <3> QED  BY <3>1, <3>2
  <2>4. PollsSeen' \subseteq PollsSeen  BY <2>1, <2>3 DEF PollsSeen
  <2> QED  BY <1>0, <1>1, <2>1, <2>4
<1>9. CASE Ensure
  <2>1. generation' \in Int /\ generation <= generation'
    BY <1>0, <1>9 DEF Ensure, NextGeneration
  <2>2. UNCHANGED <<polls, log, endpoint>>  BY <1>9 DEF Ensure
  <2>3. PollsSeen' = PollsSeen  BY <2>2 DEF PollsSeen, Lines
  <2> QED  BY <1>1, <2>1, <2>2, <2>3
<1>10. CASE polls' \subseteq polls /\ UNCHANGED <<log, generation, endpoint>>
  <2>1. PollsSeen' \subseteq PollsSeen  BY <1>10 DEF PollsSeen, Lines
  <2> QED  BY <1>0, <1>1, <1>10, <2>1
<1>11. [Next]_vars => \/ PushAccepted \/ PollAnswered \/ RegisterEndpoint \/ ActivateEndpoint
                      \/ Reconcile \/ Crash \/ Ensure
                      \/ polls' \subseteq polls /\ UNCHANGED <<log, generation, endpoint>>
  BY DEF Next, vars, files, Start, ReplayLine, Serve, Restore, ExitObserved, Retire,
         PushRetried, PollSkipped
<1> QED  BY <1>4, <1>5, <1>6, <1>7, <1>8, <1>9, <1>10, <1>11

(* The next poll's answer is above the watermark, whatever was registered     *)
(* again and whichever of the two stores a crash left behind: register keeps  *)
(* prior.pollSeq, and reservePollSequence is durable before the request.      *)
THEOREM PollsAreNew == Spec => []NextPollIsNew
<1>1. Init => PollInv /\ FloorInv
  <2> SUFFICES ASSUME Init PROVE PollInv /\ FloorInv  OBVIOUS
  <2>1. PollsSeen = {}  BY DEF Init, PollsSeen, Lines
  <2>2. PollInv  BY <2>1 DEF Init, PollInv, NoEndpoint
  <2>3. FloorInv  BY DEF Init, FloorInv, Empty
  <2> QED  BY <2>2, <2>3
<1>2. Typed /\ PollInv /\ [Next]_vars => PollInv'  BY PollNext
<1>3. Typed /\ FloorInv /\ [Next]_vars => FloorInv'  BY FloorNext
<1>4. Typed /\ PollInv /\ FloorInv => NextPollIsNew
  <2> SUFFICES ASSUME Typed, PollInv, FloorInv, phase = "up", endpoint.gen # 0
               PROVE  mem.floor[<<endpoint.gen, endpoint.instance, "poll">>] <= endpoint.pollSeq
    BY DEF NextPollIsNew
  <2> DEFINE s == <<endpoint.gen, endpoint.instance, "poll">>
  <2>1. s \in Streams /\ endpoint.pollSeq \in Nat
    BY DEF Typed, TypeOK, EndpointInv, Streams, Transports
  <2> HIDE DEF s
  <2>2. CASE mem.floor[s] = 0  BY <2>1, <2>2 DEF s
  <2>3. CASE mem.floor[s] # 0
    <3>1. PICK i \in 1..Len(log) : StreamOf(log[i].env) = s /\ log[i].env.seq = mem.floor[s]
      BY <2>1, <2>3 DEF FloorInv, Loaded
    <3>2. log[i].env.transport = "poll" /\ log[i].env.gen = endpoint.gen
      BY <3>1 DEF StreamOf, s
    <3>3. log[i].env \in PollsSeen  BY <3>2 DEF PollsSeen, Lines
    <3> QED  BY <3>1, <3>2, <3>3 DEF PollInv, s
  <2> QED  BY <2>2, <2>3
<1> QED  BY <1>1, <1>2, <1>3, <1>4, AlwaysTyped, PTL DEF Spec

(* The endpoint's file and the log agree in every daemon that serves: the     *)
(* number of the registration is spent and the next poll's is not.            *)
THEOREM EndpointAgreed == Spec => []EndpointAgrees
<1>1. NextPollIsNew /\ RegistrationIsClaimed => EndpointAgrees  BY DEF EndpointAgrees
<1> QED  BY <1>1, PollsAreNew, RegistrationsAreClaimed, PTL

=============================================================================
