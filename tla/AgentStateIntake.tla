-------------------------- MODULE AgentStateIntake --------------------------
(***************************************************************************)
(* How the terminal daemon takes in what one session's agent reports of    *)
(* itself: the acceptance log (server/runtime/fileIntakeStore.ts behind    *)
(* shared/controlPlane/intake.ts), the endpoint store whose registrations  *)
(* draw on the producer's sequence (fileAgentEndpointStore.ts), the polls  *)
(* the daemon makes of a registered endpoint (terminalDaemon.ts), and what *)
(* the daemon core and its authority decide for an accepted event          *)
(* (shared/runtime/daemonCore.ts, shared/controlPlane/authority.ts).       *)
(*                                                                         *)
(* The session's registered producer is the one that has all of these      *)
(* paths.  A producer instance numbers what it sends; the daemon numbers   *)
(* what it accepts.  The log and the endpoint snapshot are on disk, the    *)
(* rest is rebuilt by each daemon process.  Handlers do not await, except  *)
(* for the poll's request to the provider.                                 *)
(***************************************************************************)
EXTENDS Integers, Sequences, FiniteSets

CONSTANTS
  Instances,      (* producer instances                                    *)
  Targets,        (* provider sessions an endpoint can speak for           *)
  None,           (* no instance, or an event of no provider session       *)
  Pushes,         (* events that producers may send, in any order and often *)
  Registrations,  (* endpoint registrations they may send                  *)
  MaxGen,         (* bound on generations                                  *)
  MaxPolls,       (* bound on polls of one registered producer             *)
  MaxCrashes      (* bound on deaths of the daemon                         *)

Gens == 0..MaxGen
Transports == {"push", "poll"}
Envelope == [gen: Gens \ {0}, instance: Instances, transport: Transports, seq: Nat \ {0},
             id: Nat, about: Targets \cup {None}]
Registration == [gen: Gens \ {0}, instance: Instances, seq: Nat \ {0}, target: Targets]

ASSUME IntakeAssumption ==
  /\ None \notin Instances
  /\ Pushes \subseteq {e \in Envelope : e.transport = "push"}
  /\ Registrations \subseteq Registration
  /\ MaxGen \in Nat /\ MaxPolls \in Nat /\ MaxCrashes \in Nat

VARIABLES
  phase,       (* the daemon: down, replaying its log, or up               *)
  generation,  (* the generation ledger's current value                    *)
  log,         (* agent-state acceptance log, line by line                 *)
  torn,        (* it ends in a line without its newline                    *)
  read,        (* lines replayed so far                                    *)
  mem,         (* receipts, watermarks, bound instances, acceptedSeq       *)
  live,        (* the session is in DaemonCore.sessions                    *)
  agent,       (* the authority's record of the session                    *)
  endpoint,    (* the registered endpoint, on disk                         *)
  polls,       (* requests to the provider that are not answered           *)
  crashes,     (* deaths so far                                            *)
  told         (* history: receipts producers were given                   *)

files == <<generation, log, torn, endpoint>>
vars == <<phase, files, read, mem, live, agent, polls, crashes, told>>

-----------------------------------------------------------------------------
(* The acceptance log and what it is replayed into.                        *)

StreamOf(e) == <<e.gen, e.instance, e.transport>>
Streams == Gens \X Instances \X Transports
EventKey(e) == <<StreamOf(e), e.id>>

Receipt == [number: Nat, env: Envelope]
Line == [kind: {"event", "claim"}, number: Nat, env: Envelope]
ReceiptOf(line) == [number |-> line.number, env |-> line.env]

NoBinding == [instance |-> None, number |-> 0]
Empty ==
  [receipts |-> {}, floor |-> [s \in Streams |-> 0],
   bound |-> [g \in Gens |-> NoBinding], top |-> 0]

Higher(a, b) == IF a < b THEN b ELSE a

(* installSequenceClaim *)
InstallClaim(m, line) ==
  [m EXCEPT !.floor[StreamOf(line.env)] = Higher(@, line.env.seq)]

(* installReceipt: a line whose event id is taken by another event is skipped. *)
InstallReceipt(m, line) ==
  LET taken == {r \in m.receipts : EventKey(r.env) = EventKey(line.env)}
  IN  IF \E r \in taken : r.env # line.env THEN m
      ELSE [receipts |-> (m.receipts \ taken) \cup {ReceiptOf(line)},
            floor |-> InstallClaim(m, line).floor,
            bound |-> IF m.bound[line.env.gen].instance = None
                         \/ m.bound[line.env.gen].number < line.number
                        THEN [m.bound EXCEPT ![line.env.gen] =
                                [instance |-> line.env.instance, number |-> line.number]]
                        ELSE m.bound,
            top |-> Higher(m.top, line.number)]

Install(m, line) ==
  IF line.kind = "claim" THEN InstallClaim(m, line) ELSE InstallReceipt(m, line)

(* appendRecord: a line after an unterminated one makes one unreadable line. *)
Write(line) ==
  /\ log' = IF torn THEN log ELSE Append(log, line)
  /\ torn' = FALSE

-----------------------------------------------------------------------------
(* Sessions and generations.                                               *)

NoAgent == [gen |-> 0, exited |-> FALSE, instance |-> None, push |-> 0, poll |-> 0]
Registered(g) == [NoAgent EXCEPT !.gen = g]

(* GenerationLedger.next: generation 1 is reserved. *)
NextGeneration == IF generation = 0 THEN 2 ELSE generation + 1

(* ensure: a new session gets a new generation, made durable first. *)
Ensure ==
  /\ phase = "up" /\ ~live /\ NextGeneration <= MaxGen
  /\ generation' = NextGeneration
  /\ agent' = Registered(NextGeneration)
  /\ live' = TRUE
  /\ UNCHANGED <<phase, log, torn, endpoint, read, mem, polls, crashes, told>>

(* restore: a daemon that starts adopts a surviving holder at the generation *)
(* the ledger has; its authority knows nothing of the session yet.           *)
Restore ==
  /\ phase = "up" /\ ~live /\ generation # 0 /\ agent.gen # generation
  /\ agent' = Registered(generation)
  /\ live' = TRUE
  /\ UNCHANGED <<phase, files, read, mem, polls, crashes, told>>

(* markExited for an observed exit: the session stays until it is retired. *)
ExitObserved ==
  /\ phase = "up" /\ agent.gen # 0
  /\ agent' = [agent EXCEPT !.exited = TRUE]
  /\ UNCHANGED <<phase, files, read, mem, live, polls, crashes, told>>

Retire ==
  /\ phase = "up" /\ live
  /\ agent' = [agent EXCEPT !.exited = TRUE]
  /\ live' = FALSE
  /\ UNCHANGED <<phase, files, read, mem, polls, crashes, told>>

-----------------------------------------------------------------------------
(* Accepting an event.                                                     *)

(* Mutant: a producer stays registered when its session has exited. *)
Fenced_AfterExit(g) == g = generation /\ agent.gen = g

(* The generation fence, and expectedProducer. *)
Fenced(g) == g = generation /\ agent.gen = g /\ ~agent.exited

(* Mutant: a producer's sequence number may be used again. *)
Committable_Repeats(e) ==
  /\ Fenced(e.gen)
  /\ \A r \in mem.receipts : EventKey(r.env) # EventKey(e)
  /\ mem.bound[e.gen].instance \in {None, e.instance}
  /\ e.seq >= mem.floor[StreamOf(e)]

(* commitAgentState takes the event: not a retry or a conflict, from the      *)
(* bound instance if there is one, and above the watermark of its stream.     *)
Committable(e) ==
  /\ Fenced(e.gen)
  /\ \A r \in mem.receipts : EventKey(r.env) # EventKey(e)
  /\ mem.bound[e.gen].instance \in {None, e.instance}
  /\ e.seq > mem.floor[StreamOf(e)]

EventLine(e) == [kind |-> "event", number |-> mem.top + 1, env |-> e]

(* The authority's own fences for an accepted event. *)
Applicable(e) ==
  /\ agent.gen = e.gen /\ ~agent.exited
  /\ agent.instance \in {None, e.instance}
  /\ e.seq > IF e.transport = "push" THEN agent.push ELSE agent.poll

Applied(e) ==
  [agent EXCEPT !.instance = e.instance,
                !.push = IF e.transport = "push" THEN e.seq ELSE @,
                !.poll = IF e.transport = "poll" THEN e.seq ELSE @]

(* ingestAgentState for an event that is accepted: on disk, in memory, to the *)
(* authority, then the answer.                                                *)
Commit(e) ==
  /\ Committable(e)
  /\ Write(EventLine(e))
  /\ mem' = Install(mem, EventLine(e))
  /\ agent' = IF Applicable(e) THEN Applied(e) ELSE agent
  /\ told' = told \cup {ReceiptOf(EventLine(e))}

(* agentEvent: a bare heartbeat of a starting plugin, or an event of the       *)
(* provider session and instance whose endpoint is active.                     *)
InScope(e) ==
  e.about = None \/ /\ endpoint.active /\ endpoint.gen = e.gen
                    /\ endpoint.instance = e.instance /\ endpoint.target = e.about

PushAccepted ==
  /\ phase = "up"
  /\ \E e \in Pushes : InScope(e) /\ Commit(e)
  /\ UNCHANGED <<phase, generation, endpoint, read, live, polls, crashes>>

(* A retry gets the receipt of the first time and goes no further. *)
PushRetried ==
  /\ phase = "up"
  /\ \E e \in Pushes, r \in mem.receipts :
       /\ InScope(e) /\ Fenced(e.gen)
       /\ r.env = e
       /\ told' = told \cup {r}
  /\ UNCHANGED <<phase, files, read, mem, live, agent, polls, crashes>>

-----------------------------------------------------------------------------
(* Endpoints.                                                              *)

NoEndpoint ==
  [gen |-> 0, instance |-> None, seq |-> 0, target |-> None, pollSeq |-> 0, active |-> FALSE]

(* claimProducerSequence, and what register checks before it. *)
Claimable(r) ==
  /\ Fenced(r.gen)
  /\ endpoint.gen = r.gen => endpoint.instance = r.instance /\ endpoint.seq < r.seq
  /\ mem.bound[r.gen].instance = r.instance
  /\ r.seq > mem.floor[<<r.gen, r.instance, "push">>]

ClaimLine(r) ==
  [kind |-> "claim", number |-> 0,
   env |-> [gen |-> r.gen, instance |-> r.instance, transport |-> "push", seq |-> r.seq,
            id |-> 0, about |-> None]]

(* Mutant: a new registration counts its polls from the start. *)
PollsMade_Reset(r) == 0

PollsMade(r) == IF endpoint.gen = r.gen THEN endpoint.pollSeq ELSE 0

(* register: the sequence number is claimed in the log, then the snapshot is   *)
(* replaced; the entry of an older generation goes.                            *)
RegisterEndpoint ==
  /\ phase = "up"
  /\ \E r \in Registrations :
       /\ Claimable(r)
       /\ Write(ClaimLine(r))
       /\ mem' = Install(mem, ClaimLine(r))
       /\ endpoint' = [gen |-> r.gen, instance |-> r.instance, seq |-> r.seq,
                       target |-> r.target, pollSeq |-> PollsMade(r), active |-> FALSE]
  /\ UNCHANGED <<phase, generation, read, live, agent, polls, crashes, told>>

(* reconcileOne up to its await: the poll's number is on disk before the        *)
(* provider is asked.                                                           *)
Pollable(ep) ==
  /\ agent.gen # 0 /\ ~agent.exited
  /\ ep.active /\ ep.gen = agent.gen
  /\ mem.bound[ep.gen].instance = ep.instance

StartPoll(ep) ==
  IF Pollable(ep)
    THEN /\ ep.pollSeq < MaxPolls
         /\ endpoint' = [ep EXCEPT !.pollSeq = @ + 1]
         /\ polls' = polls \cup {[gen |-> ep.gen, instance |-> ep.instance,
                                  transport |-> "poll", seq |-> ep.pollSeq + 1,
                                  id |-> ep.pollSeq + 1, about |-> ep.target]}
    ELSE endpoint' = ep /\ UNCHANGED polls

(* activateAgentEndpoint reconciles at once, also when it already was active. *)
ActivateEndpoint ==
  /\ phase = "up" /\ endpoint.gen # 0
  /\ StartPoll([endpoint EXCEPT !.active = TRUE])
  /\ UNCHANGED <<phase, generation, log, torn, read, mem, live, agent, crashes, told>>

(* reconcileAgentProviders, at the daemon's start or on request. *)
Reconcile ==
  /\ phase = "up"
  /\ StartPoll(endpoint)
  /\ UNCHANGED <<phase, generation, log, torn, read, mem, live, agent, crashes, told>>

(* The provider answers: the event it becomes carries the generation, the       *)
(* instance and the provider session read before the await.                     *)
PollAnswered ==
  /\ \E e \in polls :
       /\ polls' = polls \ {e}
       /\ Commit(e)
  /\ UNCHANGED <<phase, generation, endpoint, read, live, crashes>>

(* The request fails, has no facts for the session, or its event is refused. *)
PollSkipped ==
  /\ \E e \in polls : polls' = polls \ {e}
  /\ UNCHANGED <<phase, files, read, mem, live, agent, crashes, told>>

-----------------------------------------------------------------------------
(* Death and restart.                                                      *)

(* Lines a handler may be writing when the daemon dies. *)
Writing ==
  {EventLine(e) : e \in {e \in polls \cup {p \in Pushes : InScope(p)} : Committable(e)}}
  \cup {ClaimLine(r) : r \in {r \in Registrations : Claimable(r)}}

(* Between handlers, or inside one: with part of a line written, with the line  *)
(* written and nothing after it, or with an activation saved and no poll made.  *)
Crash ==
  /\ phase # "down" /\ crashes < MaxCrashes
  /\ crashes' = crashes + 1
  /\ \/ UNCHANGED <<log, torn, endpoint>>
     \/ /\ phase = "up" /\ UNCHANGED endpoint
        /\ \E line \in Writing : Write(line) \/ (torn' = TRUE /\ UNCHANGED log)
     \/ /\ phase = "up" /\ endpoint.gen # 0 /\ UNCHANGED <<log, torn>>
        /\ endpoint' = [endpoint EXCEPT !.active = TRUE]
  /\ phase' = "down" /\ read' = 0 /\ mem' = Empty
  /\ live' = FALSE /\ agent' = NoAgent /\ polls' = {}
  /\ UNCHANGED <<generation, told>>

(* Mutant: the unterminated line is left in place. *)
Start_KeepsTail ==
  /\ phase = "down"
  /\ phase' = "replaying"
  /\ UNCHANGED <<files, read, mem, live, agent, polls, crashes, told>>

(* replayReceipts begins: an unterminated last line is cut off. *)
Start ==
  /\ phase = "down"
  /\ phase' = "replaying"
  /\ torn' = FALSE
  /\ UNCHANGED <<generation, log, endpoint, read, mem, live, agent, polls, crashes, told>>

ReplayLine ==
  /\ phase = "replaying" /\ read < Len(log)
  /\ mem' = Install(mem, log[read + 1])
  /\ read' = read + 1
  /\ UNCHANGED <<phase, files, live, agent, polls, crashes, told>>

Serve ==
  /\ phase = "replaying" /\ read = Len(log)
  /\ phase' = "up"
  /\ UNCHANGED <<files, read, mem, live, agent, polls, crashes, told>>

-----------------------------------------------------------------------------
Init ==
  /\ phase = "down" /\ generation = 0 /\ log = <<>> /\ torn = FALSE /\ read = 0
  /\ mem = Empty /\ live = FALSE /\ agent = NoAgent /\ endpoint = NoEndpoint
  /\ polls = {} /\ crashes = 0 /\ told = {}

Next ==
  \/ Start \/ ReplayLine \/ Serve \/ Crash
  \/ Ensure \/ Restore \/ ExitObserved \/ Retire
  \/ PushAccepted \/ PushRetried
  \/ RegisterEndpoint \/ ActivateEndpoint \/ Reconcile \/ PollAnswered \/ PollSkipped

Spec == Init /\ [][Next]_vars

-----------------------------------------------------------------------------
(* Properties.                                                             *)

MemType ==
  [receipts: SUBSET Receipt, floor: [Streams -> Nat],
   bound: [Gens -> [instance: Instances \cup {None}, number: Nat]], top: Nat]

(* Every variable has its type; no session outlives its daemon process; and a *)
(* daemon that starts has cut off what an earlier one left unfinished.        *)
TypeOK ==
  /\ phase \in {"down", "replaying", "up"}
  /\ generation \in Gens /\ log \in Seq(Line) /\ torn \in BOOLEAN
  /\ read \in 0..Len(log)
  /\ mem \in MemType
  /\ live \in BOOLEAN
  /\ agent \in [gen: Gens, exited: BOOLEAN, instance: Instances \cup {None},
               push: Nat, poll: Nat]
  /\ endpoint \in [gen: Gens, instance: Instances \cup {None}, seq: Nat,
                  target: Targets \cup {None}, pollSeq: Nat, active: BOOLEAN]
  /\ polls \subseteq Envelope
  /\ crashes \in Nat /\ told \subseteq Receipt
  /\ phase # "down" => ~torn
  /\ phase # "up" => ~live /\ agent = NoAgent /\ polls = {}

(* A receipt a producer was given is the one it gets for its retry, from this *)
(* and from every later daemon process: "the same durable receipt after       *)
(* restart".                                                                  *)
ReceiptsSurvive ==
  /\ phase = "up" => told \subseteq mem.receipts
  /\ \A r, s \in told : EventKey(r.env) = EventKey(s.env) => r = s

(* What the intake accepts the authority applies: two parties keep a          *)
(* watermark and an instance each, one of them across restarts, and never     *)
(* disagree, so no accepted event is dropped on its way to the state shown.   *)
AcceptedIsApplied ==
  phase = "up" =>
    \A e \in Pushes \cup polls : Committable(e) => Applicable(e)

(* Both files keep a count of the polls made of the registered producer: the   *)
(* number its next poll gets is above the log's watermark, so that its answer  *)
(* is not taken for an old one.                                                *)
NextPollIsNew ==
  phase = "up" /\ endpoint.gen # 0 =>
    mem.floor[<<endpoint.gen, endpoint.instance, "poll">>] <= endpoint.pollSeq

(* A number the endpoint store registered under is spent for good.             *)
RegistrationIsClaimed ==
  phase = "up" /\ endpoint.gen # 0 =>
    endpoint.seq <= mem.floor[<<endpoint.gen, endpoint.instance, "push">>]

(* The endpoint store and the acceptance log, two files a crash can part,      *)
(* agree whenever a daemon serves: the number of the registration is spent,    *)
(* and the next poll's is not.                                                 *)
EndpointAgrees == NextPollIsNew /\ RegistrationIsClaimed

(* The log as consumers see it: one order of acceptances that nothing          *)
(* rewrites, numbers of a producer used once and in order, one instance to a   *)
(* generation, no generation after a later one, across crashes at any step.    *)
Lines == {log[i] : i \in 1..Len(log)}
Accepted == {ReceiptOf(line) : line \in {line \in Lines : line.kind = "event"}}
Spent == {<<StreamOf(line.env), line.env.seq>> : line \in Lines}

Journal == INSTANCE AcceptanceJournal WITH journal <- Accepted, spent <- Spent

ImplementsJournal == Journal!Spec

=============================================================================
