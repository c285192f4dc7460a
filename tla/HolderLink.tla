------------------------------ MODULE HolderLink ------------------------------
(***************************************************************************)
(* The input path of one session, from the browser surfaces and the        *)
(* control plane to the terminal: the daemon's link to the session's       *)
(* holder (sessionManager.ts, moorMasterClient.ts) and the lease of the    *)
(* holder (vendor/moor/src/session.rs).  The link may be lost at any time; *)
(* a recovery slot keeps what was typed, a new link resumes the lease, and *)
(* the one request whose receipt did not come is sent again under its old  *)
(* number.                                                                 *)
(*                                                                         *)
(* An input is its number in the order of arrival.  0 stands for "none".   *)
(***************************************************************************)
EXTENDS Integers, Sequences, FiniteSets

CONSTANTS
    Surfaces,       \* the browser surfaces that may type
    ControlPlane,   \* surface 0: prompts submitted by the channels engine
    MaxInputs,      \* bound on inputs made
    MaxQueue,       \* inputs that fit a queue (RECOVERY_INPUT_MAX_BYTES)
    MaxLinks,       \* connections open, or closed and not yet read to the end
    MaxFaults       \* bound on what goes wrong: transports lost, inputs too old,
                    \* writes refused, leases ended by a stall or taken by others

ASSUME LinkAssumption ==
    /\ ControlPlane \notin Surfaces
    /\ {MaxInputs, MaxQueue, MaxLinks, MaxFaults} \subseteq Nat
    /\ MaxLinks # 0   \* one connection at least, the adopted one

VARIABLES
    made,       \* the surface each input came from, in order of arrival
    hidden,     \* surfaces that lost visibility or unsubscribed
    client,     \* the latest MoorMasterClient
    link,       \* the SessionMasterLink around it, once adopted
    slot,       \* the recovery slot
    lease,      \* the holder's lease
    allocated,  \* the highest lease epoch the holder granted
    tokens,     \* lease tokens made so far
    toHolder,   \* per connection: frames the holder has not read
    toClient,   \* frames the latest client has not read
    ended,      \* connections the holder has ended
    writer,     \* the holder's queue to the terminal
    written,    \* what the terminal received
    fate,       \* what the daemon last decided about an input
    touched,    \* the lease was refreshed after the retained input's clock began
    faults      \* what went wrong so far

vars == <<made, hidden, client, link, slot, lease, allocated, tokens, toHolder,
          toClient, ended, writer, written, fate, touched, faults>>
desk == <<client, link, slot>>
holder == <<lease, allocated, tokens, ended, writer, written>>
people == <<made, hidden>>

Links == 1..MaxLinks
Inputs == 1..MaxInputs
Other == MaxLinks + 1   \* another controller, as an owner of the lease

NoLink == [queue |-> <<>>, retained |-> 0, reset |-> "no"]
NoSnapshot == [epoch |-> 0, token |-> 0, next |-> 1, pending |-> 0]
NoSlot == [stage |-> "none", lease |-> NoSnapshot, queue |-> <<>>,
           observer |-> FALSE, timed |-> FALSE]
FreeLease == [epoch |-> 0, owner |-> 0, token |-> 0, high |-> 0, item |-> 0,
              ok |-> FALSE, inflight |-> 0]

Frame(kind, epoch, n, item) ==
    [kind |-> kind, epoch |-> epoch, n |-> n, item |-> item]
Eof == Frame("eof", 0, 0, 0)
InputFrame(c, item) == Frame("input", c.epoch, c.next - 1, item)
Answer(kind, epoch, n, ok) == [kind |-> kind, epoch |-> epoch, n |-> n, ok |-> ok]

Closed(c) == [conn |-> c, phase |-> "closed", resume |-> NoSnapshot, asked |-> 0,
              epoch |-> 0, token |-> 0, next |-> 1, pending |-> 0]

Recovering == slot.stage # "none"
Attached == client.phase = "attached"

\* client.sendInput would put the bytes on the wire.
Sendable == Attached /\ client.epoch # 0 /\ client.pending = 0 /\ link.reset = "no"
\* The bytes wait behind the request in flight, or behind a lease reset.
Behind == Attached /\ (link.reset # "no" \/ (client.epoch # 0 /\ client.pending # 0))

OfSurface(s) == {i \in 1..Len(made) : made[i] = s}
\* Mutant: what a surface typed is not taken out of the queues.
Without_Nothing(queue, S) == queue
Without(queue, S) ==
    LET kept == {k \in 1..Len(queue) : queue[k] \notin S}
        nth(j) == CHOOSE k \in kept : Cardinality({l \in kept : l <= k}) = j
    IN [j \in 1..Cardinality(kept) |-> queue[nth(j)]]
ItemsOf(queue) == {queue[k] : k \in 1..Len(queue)}
Decide(S, what) == [i \in Inputs |-> IF i \in S THEN what ELSE fate[i]]
Fault == faults < MaxFaults /\ faults' = faults + 1

-----------------------------------------------------------------------------
(* The wire *)

Send(frame) == toHolder' = [toHolder EXCEPT ![client.conn] = Append(@, frame)]
Taken(c) == toHolder' = [toHolder EXCEPT ![c] = Tail(@)]

\* An answer to connection c; one to a connection the client has left is lost.
Reply(c, answer) ==
    toClient' = IF c = client.conn /\ client.phase # "closed"
                THEN Append(toClient, answer) ELSE toClient

Incoming(kind) == toClient # <<>> /\ Head(toClient).kind = kind

-----------------------------------------------------------------------------
(* The holder: session.rs *)

\* Mutant: the epoch granted is not counted as allocated.
Granted_Uncounted(c) ==
    /\ UNCHANGED allocated
    /\ tokens' = tokens + 1
    /\ lease' = [FreeLease EXCEPT !.epoch = allocated + 1, !.owner = c,
                                  !.token = tokens + 1]
Granted(c) ==
    /\ allocated' = allocated + 1
    /\ tokens' = tokens + 1
    /\ lease' = [FreeLease EXCEPT !.epoch = allocated + 1, !.owner = c,
                                  !.token = tokens + 1]

\* LEASE_REQUEST(resume): the ownerless lease of this very token continues
\* under a new token.
HolderResumes(c) ==
    LET f == Head(toHolder[c])
        busy == lease.epoch # 0 /\ lease.owner # 0
        continues == lease.epoch # 0 /\ ~busy /\ f.epoch = lease.epoch
                        /\ f.n = lease.token IN
    /\ f.kind = "resume"
    /\ Taken(c)
    /\ IF continues
       THEN /\ lease' = [lease EXCEPT !.owner = c, !.token = tokens + 1]
            /\ tokens' = tokens + 1
            /\ touched' = slot.timed
            /\ Reply(c, Answer("resumed", lease.epoch, tokens + 1, TRUE))
       ELSE /\ Reply(c, Answer("refused", 0, 0, busy))
            /\ UNCHANGED <<lease, tokens, touched>>
    /\ UNCHANGED <<desk, people, allocated, ended, writer, written, fate, faults>>

\* ATTACH, with the request for a fresh lease or after a resume.
HolderAttaches(c) ==
    LET f == Head(toHolder[c]) IN
    /\ f.kind = "attach"
    /\ Taken(c)
    /\ \/ /\ f.n = 1 /\ lease.epoch = 0
          /\ Granted(c)
          /\ Reply(c, Answer("attached", allocated + 1, tokens + 1, TRUE))
       \/ /\ f.n = 1 /\ lease.epoch # 0
          /\ Reply(c, Answer("attached", 0, 0, TRUE))
          /\ UNCHANGED <<lease, allocated, tokens>>
       \/ /\ f.n = 0
          /\ Reply(c, Answer("attached", lease.epoch, lease.token, lease.owner = c))
          /\ UNCHANGED <<lease, allocated, tokens>>
    /\ UNCHANGED <<desk, people, ended, writer, written, fate, touched, faults>>

\* LEASE_REQUEST(fresh) of an attached observer.
HolderGrants(c) ==
    /\ Head(toHolder[c]).kind = "acquire"
    /\ Taken(c)
    /\ IF lease.epoch = 0
       THEN Granted(c) /\ Reply(c, Answer("acquired", allocated + 1, tokens + 1, TRUE))
       ELSE /\ Reply(c, Answer("acquired", 0, 0, FALSE))
            /\ UNCHANGED <<lease, allocated, tokens>>
    /\ UNCHANGED <<desk, people, ended, writer, written, fate, touched, faults>>

\* LEASE_RELEASE frees the lease and forgets its requests.
HolderReleases(c) ==
    /\ Head(toHolder[c]).kind = "release" /\ lease.owner = c
    /\ Taken(c)
    /\ lease' = FreeLease
    /\ Reply(c, Answer("released", lease.epoch, 0, TRUE))
    /\ UNCHANGED <<desk, people, allocated, tokens, ended, writer, written, fate,
                   touched, faults>>

\* Mutant: the number at the high-water mark is written, too.
IsNext_OrLast(f) == lease.inflight = 0 /\ f.n \in {lease.high, lease.high + 1}
IsNext(f) == lease.inflight = 0 /\ f.n = lease.high + 1
IsInFlight(f) == lease.inflight # 0 /\ f.item = lease.inflight /\ f.n = lease.high + 1
IsLast(f) == lease.inflight = 0 /\ f.item = lease.item /\ f.n = lease.high
Receipt(f, ok) == Answer("receipt", f.epoch, f.n, ok)

\* INPUT: only the number after the high-water mark is written; the number at
\* the mark, with the same bytes, gets the receipt kept for it.
HolderInput(c) ==
    LET f == Head(toHolder[c])
        next == IsNext(f)
        same == IsInFlight(f)
        replayed == ~next /\ IsLast(f) IN
    /\ f.kind = "input" /\ lease.owner = c
    /\ Taken(c)
    /\ touched' = (touched \/ (slot.timed /\ (same \/ replayed \/ next)))
    /\ \/ /\ next
          /\ lease' = [lease EXCEPT !.inflight = f.item]
          /\ writer' = Append(writer, [epoch |-> f.epoch, item |-> f.item, conn |-> c])
          /\ UNCHANGED <<toClient, faults>>
       \/ /\ next
          /\ lease' = [lease EXCEPT !.high = f.n, !.item = f.item, !.ok = FALSE]
          /\ Reply(c, Receipt(f, FALSE))
          /\ Fault
          /\ UNCHANGED writer
       \/ /\ same
          /\ UNCHANGED <<lease, writer, toClient, faults>>
       \/ /\ replayed
          /\ Reply(c, Receipt(f, lease.ok))
          /\ UNCHANGED <<lease, writer, faults>>
       \/ /\ ~next /\ ~same /\ ~replayed
          /\ Reply(c, Receipt(f, FALSE))
          /\ UNCHANGED <<lease, writer, faults>>
    /\ UNCHANGED <<desk, people, allocated, tokens, ended, written, fate>>

\* The end of a connection leaves the lease reserved for its token.
Ownerless(c) == IF lease.owner = c THEN [lease EXCEPT !.owner = 0] ELSE lease

HolderDisconnects(c) ==
    /\ Head(toHolder[c]).kind = "eof"
    /\ Taken(c)
    /\ lease' = Ownerless(c)
    /\ UNCHANGED <<desk, people, allocated, tokens, toClient, ended, writer, written,
                   fate, touched, faults>>

\* A frame of a lease owner from a connection that is none: it is ended.
HolderRefuses(c) ==
    /\ Head(toHolder[c]).kind \in {"input", "release"} /\ lease.owner # c
    /\ Taken(c)
    /\ ended' = ended \cup {c}
    /\ Reply(c, Answer("close", 0, 0, FALSE))
    /\ UNCHANGED <<desk, people, lease, allocated, tokens, writer, written, fate,
                   touched, faults>>

\* What arrives on a connection the holder has ended is not read.
HolderIgnores(c) ==
    /\ Taken(c)
    /\ UNCHANGED <<desk, people, holder, toClient, fate, touched, faults>>

HolderReads(c) ==
    /\ toHolder[c] # <<>>
    /\ IF c \in ended THEN HolderIgnores(c)
       ELSE \/ HolderResumes(c) \/ HolderAttaches(c) \/ HolderGrants(c)
            \/ HolderReleases(c) \/ HolderInput(c) \/ HolderDisconnects(c)
            \/ HolderRefuses(c)

\* The terminal took the bytes: the receipt is kept and goes to whoever owns
\* the lease now; if the lease has gone, the connection that asked is ended.
WriteCompletes ==
    LET w == Head(writer)
        current == lease.epoch = w.epoch /\ lease.inflight = w.item IN
    /\ writer # <<>>
    /\ writer' = Tail(writer)
    /\ written' = Append(written, w.item)
    /\ IF current
       THEN /\ lease' = [lease EXCEPT !.high = @ + 1, !.item = w.item, !.ok = TRUE,
                                      !.inflight = 0]
            /\ Reply(lease.owner, Answer("receipt", w.epoch, lease.high + 1, TRUE))
            /\ UNCHANGED ended
       ELSE /\ lease' = Ownerless(w.conn)
            /\ ended' = ended \cup {w.conn}
            /\ Reply(w.conn, Answer("close", 0, 0, FALSE))
    /\ UNCHANGED <<desk, people, allocated, tokens, toHolder, fate, touched, faults>>

\* Ten seconds without lease traffic: always possible once the owner is gone,
\* under a live link only if the daemon stood still (its keepalive is 3 s).
LeaseExpires ==
    /\ lease.epoch # 0 /\ lease.owner # Other
    /\ IF lease.owner = 0 THEN UNCHANGED faults
       ELSE Fault
    /\ lease' = FreeLease
    /\ UNCHANGED <<desk, people, allocated, tokens, toHolder, toClient, ended, writer,
                   written, fate, touched>>

\* Another controller (moor attach, another desk) takes the free lease, leaves.
OtherTakes ==
    /\ lease.epoch = 0
    /\ Granted(Other)
    /\ Fault
    /\ UNCHANGED <<desk, people, toHolder, toClient, ended, writer, written, fate, touched>>

OtherLeaves ==
    /\ lease.owner = Other
    /\ lease' = FreeLease
    /\ UNCHANGED <<desk, people, allocated, tokens, toHolder, toClient, ended, writer,
                   written, fate, touched, faults>>

-----------------------------------------------------------------------------
(* Losing the link *)

\* What the next link may resume: nothing once a lease reset has begun.
Snapshot ==
    IF client.epoch = 0 \/ link.reset # "no" THEN NoSnapshot
    ELSE [epoch |-> client.epoch, token |-> client.token, next |-> client.next,
          pending |-> client.pending]

\* A lost link opens the slot, or replaces it; a lost candidate leaves it.
OpenSlot ==
    /\ slot' = [stage |-> "waiting", lease |-> Snapshot,
                queue |-> slot.queue \o link.queue, observer |-> FALSE,
                timed |-> slot.timed \/ Snapshot.pending # 0]
    /\ touched' = (slot.timed /\ touched)

\* The client is torn down.  The holder still reads the first k frames that
\* were under way, and then the end of the connection.
LinkLost(k) ==
    /\ client.phase # "closed"
    /\ toHolder' = [toHolder EXCEPT ![client.conn] =
                        Append(SubSeq(@, 1, k), Eof)]
    /\ toClient' = <<>>
    /\ client' = Closed(client.conn)
    /\ link' = NoLink
    /\ IF Attached THEN OpenSlot ELSE UNCHANGED <<slot, touched>>

Lose == LinkLost(Len(toHolder[client.conn]))

TransportDrops ==
    /\ Fault
    /\ \E k \in 0..Len(toHolder[client.conn]) : LinkLost(k)
    /\ UNCHANGED <<people, holder, fate>>

\* A keepalive of a lease this link no longer holds is refused and the
\* connection closed.
KeepaliveRefused ==
    /\ Attached /\ client.epoch # 0 /\ link.reset = "no"
    /\ lease.owner # client.conn
    /\ toClient = <<>>
    /\ Lose
    /\ UNCHANGED <<people, holder, fate, faults>>

\* The receipt of the request in flight, on an attached link.
Expected(a) ==
    Attached /\ client.pending # 0 /\ a.epoch = client.epoch /\ a.n = client.next - 1

\* A frame that the protocol does not allow here, the holder's end of the
\* connection, or a reset that finds the lease taken.
ProtocolError ==
    /\ toClient # <<>>
    /\ LET a == Head(toClient) IN
       \/ a.kind = "close"
       \/ a.kind = "receipt" /\ ~Expected(a)
       \/ a.kind = "attached" /\ ~a.ok
       \/ a.kind = "acquired" /\ ~a.ok /\ link.reset = "acquiring"
    /\ Lose
    /\ UNCHANGED <<people, holder, fate, faults>>

-----------------------------------------------------------------------------
(* Input *)

StartInput(i) ==
    /\ client' = [client EXCEPT !.pending = i, !.next = @ + 1]
    /\ Send(Frame("input", client.epoch, client.next, i))

\* Bytes of a surface: into the slot while a recovery is under way, else on
\* the wire, behind the request in flight, or refused.
BrowserInput(s) ==
    LET i == Len(made) + 1 IN
    /\ i \in Inputs /\ s \in Surfaces \ hidden
    /\ made' = Append(made, s)
    /\ \/ /\ Recovering /\ Len(slot.queue) < MaxQueue
          /\ slot' = [slot EXCEPT !.queue = Append(@, i)]
          /\ UNCHANGED <<client, link, toHolder, fate>>
       \/ /\ ~Recovering /\ Sendable
          /\ StartInput(i)
          /\ UNCHANGED <<slot, link, fate>>
       \/ /\ ~Recovering /\ Behind /\ Len(link.queue) < MaxQueue
          /\ link' = [link EXCEPT !.queue = Append(@, i)]
          /\ UNCHANGED <<client, slot, toHolder, fate>>
       \/ /\ IF Recovering THEN Len(slot.queue) >= MaxQueue
             ELSE ~Sendable /\ (Behind => Len(link.queue) >= MaxQueue)
          /\ fate' = Decide({i}, "dropped")
          /\ UNCHANGED <<desk, toHolder>>
    /\ UNCHANGED <<hidden, holder, toClient, touched, faults>>

\* Mutant: a prompt is kept behind the request in flight like typed input.
Prompt_Kept ==
    LET i == Len(made) + 1 IN
    /\ i \in Inputs
    /\ made' = Append(made, ControlPlane)
    /\ fate' = IF Behind THEN Decide({i}, "no") ELSE fate
    /\ link' = IF Behind THEN [link EXCEPT !.queue = Append(@, i)] ELSE link
    /\ UNCHANGED <<hidden, client, slot, holder, toHolder, toClient, touched, faults>>

\* A prompt is one request or none: it is never kept back.
Prompt ==
    LET i == Len(made) + 1 IN
    /\ i \in Inputs
    /\ made' = Append(made, ControlPlane)
    /\ IF ~Recovering /\ Sendable
       THEN /\ client' = [client EXCEPT !.pending = i, !.next = @ + 1, !.asked = i]
            /\ Send(Frame("input", client.epoch, client.next, i))
            /\ UNCHANGED fate
       ELSE fate' = Decide({i}, "no") /\ UNCHANGED <<client, toHolder>>
    /\ UNCHANGED <<hidden, link, slot, holder, toClient, touched, faults>>

\* A surface that is hidden or leaves takes back what still waits for it.
Hide(s) ==
    LET mine == OfSurface(s)
        retained == {slot.lease.pending} \cap mine
        waiting == mine \cap (ItemsOf(slot.queue) \cup ItemsOf(link.queue)) IN
    /\ s \in Surfaces \ hidden
    /\ hidden' = hidden \cup {s}
    /\ slot' = [slot EXCEPT !.queue = Without(@, mine),
                            !.lease.pending = IF retained # {} THEN 0 ELSE @,
                            !.timed = @ /\ retained = {}]
    /\ link' = [link EXCEPT !.queue = Without(@, mine)]
    /\ fate' = [i \in Inputs |-> IF i \in waiting THEN "dropped"
                                 ELSE IF i \in retained THEN "withdrawn" ELSE fate[i]]
    /\ touched' = (touched /\ retained = {})
    /\ UNCHANGED <<made, client, holder, toHolder, toClient, faults>>

\* The retained request reaches its age.  Ten seconds in which nothing
\* refreshed the lease have ended the lease first.
RetainedExpires ==
    /\ slot.timed
    /\ touched \/ lease.epoch = 0 \/ lease.epoch # slot.lease.epoch
    /\ slot' = [slot EXCEPT !.lease.pending = 0, !.timed = FALSE]
    /\ fate' = Decide({slot.lease.pending} \ {0}, "withdrawn")
    /\ touched' = FALSE
    /\ Fault
    /\ UNCHANGED <<people, client, link, holder, toHolder, toClient>>

\* The oldest input of the slot reaches its age.
QueuedExpires ==
    /\ slot.queue # <<>>
    /\ slot' = [slot EXCEPT !.queue = Tail(@)]
    /\ fate' = Decide({Head(slot.queue)}, "dropped")
    /\ Fault
    /\ UNCHANGED <<people, client, link, holder, toHolder, toClient, touched>>

\* flushQueue: the inputs of link.queue that are too old are reported, the next
\* one goes out.  c is the client, told the fates, as they are before.
Flush(c, told, reset) ==
    \E n \in 0..Len(link.queue) :
        LET rest == SubSeq(link.queue, n + 1, Len(link.queue))
            old == {link.queue[k] : k \in 1..n} IN
        /\ faults + n <= MaxFaults /\ faults' = faults + n
        /\ fate' = [i \in Inputs |-> IF i \in old THEN "dropped" ELSE told[i]]
        /\ link' = [link EXCEPT !.queue = IF rest = <<>> THEN <<>> ELSE Tail(rest),
                                !.reset = reset]
        /\ IF rest = <<>>
           THEN client' = c /\ UNCHANGED toHolder
           ELSE /\ client' = [c EXCEPT !.pending = Head(rest), !.next = @ + 1]
                /\ Send(Frame("input", c.epoch, c.next, Head(rest)))

\* The receipt of the request in flight; a prompt is told whether it was written.
ReceiptArrives ==
    LET a == Head(toClient) IN
    /\ Incoming("receipt") /\ Expected(a)
    /\ toClient' = Tail(toClient)
    /\ Flush([client EXCEPT !.pending = 0, !.asked = 0],
             IF client.asked = 0 THEN fate
             ELSE [fate EXCEPT ![client.asked] = IF a.ok THEN "yes" ELSE "no"],
             link.reset)
    /\ UNCHANGED <<people, slot, holder, touched>>

-----------------------------------------------------------------------------
(* Recovery *)

Idle(c) ==
    /\ c # client.conn /\ toHolder[c] = <<>> /\ lease.owner # c
    /\ \A k \in 1..Len(writer) : writer[k].conn # c

Resume == Frame("resume", slot.lease.epoch, slot.lease.token, 0)
FreshAttach == Frame("attach", 0, 1, 0)

\* A new client takes a copy of the slot's snapshot and resumes its lease, or
\* attaches with a request for a fresh one.
Attempt ==
    /\ slot.stage = "waiting" /\ ~slot.observer /\ client.phase = "closed"
    /\ \E c \in Links :
        /\ Idle(c)
        /\ client' = [Closed(c) EXCEPT
                        !.resume = slot.lease,
                        !.phase = IF slot.lease.epoch # 0 THEN "resuming" ELSE "attaching"]
        /\ toHolder' = [toHolder EXCEPT ![c] =
                            <<IF slot.lease.epoch # 0 THEN Resume ELSE FreshAttach>>]
        /\ ended' = ended \ {c}
    /\ UNCHANGED <<people, link, slot, lease, allocated, tokens, writer, written,
                   toClient, fate, touched, faults>>

Resumed ==
    LET a == Head(toClient) IN
    /\ Incoming("resumed")
    /\ toClient' = Tail(toClient)
    /\ client' = [client EXCEPT !.phase = "attaching", !.epoch = a.epoch, !.token = a.n,
                                !.next = client.resume.next,
                                !.pending = client.resume.pending]
    /\ Send(Frame("attach", 0, 0, 0))
    /\ UNCHANGED <<people, link, slot, holder, fate, touched, faults>>

\* Mutant: a client that finds the lease busy does not ask again.
ResumeBusy_Once ==
    /\ Incoming("refused") /\ Head(toClient).ok
    /\ toClient' = Tail(toClient)
    /\ UNCHANGED <<people, desk, holder, toHolder, fate, touched, faults>>

\* Busy: the holder has not seen the old connection end; ask again.
ResumeBusy ==
    /\ Incoming("refused") /\ Head(toClient).ok
    /\ toClient' = Tail(toClient)
    /\ Send(Frame("resume", client.resume.epoch, client.resume.token, 0))
    /\ UNCHANGED <<people, desk, holder, fate, touched, faults>>

\* Refused: the request whose receipt did not come is reported and given up.
ResumeRefused ==
    /\ Incoming("refused") /\ ~Head(toClient).ok
    /\ toClient' = Tail(toClient)
    /\ client' = [client EXCEPT !.phase = "attaching"]
    /\ Send(FreshAttach)
    /\ IF client.resume.pending = 0 THEN UNCHANGED <<slot, fate>>
       ELSE /\ slot' = [slot EXCEPT !.lease.pending =
                            IF @ = client.resume.pending THEN 0 ELSE @]
            /\ fate' = Decide({client.resume.pending}, "withdrawn")
    /\ UNCHANGED <<people, link, holder, touched, faults>>

\* The link is adopted; what waits for it is released by Accept.
AttachAnswered ==
    LET a == Head(toClient)
        resumed == client.epoch # 0 IN
    /\ Incoming("attached") /\ a.ok
    /\ toClient' = Tail(toClient)
    /\ client' = IF resumed THEN [client EXCEPT !.phase = "attached"]
                 ELSE [client EXCEPT !.phase = "attached", !.epoch = a.epoch, !.token = a.n]
    /\ link' = [NoLink EXCEPT !.retained = IF resumed THEN client.resume.pending ELSE 0]
    /\ slot' = [slot EXCEPT !.stage = "accepting"]
    /\ UNCHANGED <<people, holder, toHolder, fate, touched, faults>>

\* The retained request goes out again, or, if it was withdrawn while the
\* client kept a copy, its lease is given up; then what the slot kept.
Finish(c) ==
    LET again == link.retained # 0 /\ c.pending = link.retained
        revoked == again /\ slot.lease.pending # link.retained
        first == ~again /\ slot.queue # <<>> IN
    /\ slot' = NoSlot
    /\ touched' = FALSE
    /\ link' = [link EXCEPT !.reset = IF revoked THEN "releasing" ELSE "no",
                            !.queue = IF first THEN Tail(slot.queue) ELSE slot.queue]
    /\ client' = IF first THEN [c EXCEPT !.pending = Head(slot.queue), !.next = @ + 1]
                 ELSE c
    /\ IF revoked THEN Send(Frame("release", c.epoch, c.token, 0))
       ELSE IF again THEN Send(InputFrame(c, c.pending))
       ELSE IF first THEN Send(Frame("input", c.epoch, c.next, Head(slot.queue)))
       ELSE UNCHANGED toHolder

\* The observer of the new link is installed.
Accept ==
    /\ slot.stage = "accepting" /\ Attached
    /\ IF client.epoch = 0
       THEN /\ slot' = [slot EXCEPT !.stage = "waiting", !.observer = TRUE]
            /\ UNCHANGED <<client, link, toHolder, touched>>
       ELSE Finish(client)
    /\ UNCHANGED <<people, holder, toClient, fate, faults>>

\* A link without the lease asks for it until it has it.
AcquireLease ==
    /\ slot.stage = "waiting" /\ slot.observer /\ Attached
    /\ slot' = [slot EXCEPT !.stage = "leasing"]
    /\ Send(Frame("acquire", 0, 0, 0))
    /\ UNCHANGED <<people, client, link, holder, toClient, fate, touched, faults>>

LeaseAcquired ==
    LET a == Head(toClient) IN
    /\ Incoming("acquired") /\ slot.stage = "leasing"
    /\ toClient' = Tail(toClient)
    /\ IF a.ok
       THEN Finish([client EXCEPT !.epoch = a.epoch, !.token = a.n, !.next = 1])
       ELSE /\ slot' = [slot EXCEPT !.stage = "waiting"]
            /\ UNCHANGED <<client, link, toHolder, touched>>
    /\ UNCHANGED <<people, holder, fate, faults>>

-----------------------------------------------------------------------------
(* Giving up the lease of a withdrawn request *)

ResetReleased ==
    /\ Incoming("released")
    /\ toClient' = Tail(toClient)
    /\ client' = [client EXCEPT !.epoch = 0, !.token = 0, !.pending = 0]
    /\ link' = [link EXCEPT !.reset = "acquiring"]
    /\ Send(Frame("acquire", 0, 0, 0))
    /\ UNCHANGED <<people, slot, holder, fate, touched, faults>>

ResetAcquired ==
    LET a == Head(toClient) IN
    /\ Incoming("acquired") /\ link.reset = "acquiring" /\ a.ok
    /\ toClient' = Tail(toClient)
    /\ Flush([client EXCEPT !.epoch = a.epoch, !.token = a.n, !.next = 1], fate,
             "no")
    /\ UNCHANGED <<people, slot, holder, touched>>

-----------------------------------------------------------------------------
Init ==
    /\ made = <<>> /\ hidden = {}
    /\ client = [Closed(1) EXCEPT !.phase = "attached", !.epoch = 1, !.token = 1]
    /\ link = NoLink /\ slot = NoSlot
    /\ lease = [FreeLease EXCEPT !.epoch = 1, !.owner = 1, !.token = 1]
    /\ allocated = 1 /\ tokens = 1
    /\ toHolder = [c \in Links |-> <<>>] /\ toClient = <<>> /\ ended = {}
    /\ writer = <<>> /\ written = <<>>
    /\ fate = [i \in Inputs |-> "none"]
    /\ touched = FALSE
    /\ faults = 0

ClientReads ==
    \/ ReceiptArrives \/ ProtocolError
    \/ Resumed \/ ResumeBusy \/ ResumeRefused \/ AttachAnswered
    \/ LeaseAcquired \/ ResetReleased \/ ResetAcquired

Next ==
    \/ \E c \in Links : HolderReads(c)
    \/ WriteCompletes \/ LeaseExpires \/ OtherTakes \/ OtherLeaves
    \/ TransportDrops \/ KeepaliveRefused
    \/ \E s \in Surfaces : BrowserInput(s) \/ Hide(s)
    \/ Prompt \/ RetainedExpires \/ QueuedExpires
    \/ ClientReads
    \/ Attempt \/ Accept \/ AcquireLease

Spec == Init /\ [][Next]_vars

\* Sockets are drained, timers fire, the terminal takes what it is given and
\* other controllers leave.
Fairness ==
    /\ \A c \in Links : WF_vars(HolderReads(c))
    /\ WF_vars(ClientReads) /\ WF_vars(WriteCompletes)
    /\ WF_vars(KeepaliveRefused)
    /\ WF_vars(LeaseExpires /\ lease.owner = 0) /\ WF_vars(OtherLeaves)
    /\ WF_vars(Attempt) /\ WF_vars(Accept) /\ WF_vars(AcquireLease)

LiveSpec == Spec /\ Fairness

-----------------------------------------------------------------------------
TypeOK ==
    /\ made \in Seq(Surfaces \cup {ControlPlane}) /\ Len(made) <= MaxInputs
    /\ hidden \subseteq Surfaces
    /\ client.phase \in {"closed", "resuming", "attaching", "attached"}
    /\ client.conn \in Links /\ client.pending \in 0..Len(made)
    /\ link.reset \in {"no", "releasing", "acquiring"} /\ link.retained \in 0..Len(made)
    /\ slot.stage \in {"none", "waiting", "accepting", "leasing"}
    /\ slot.lease.pending \in 0..Len(made) /\ slot.observer \in BOOLEAN
    /\ lease.epoch \in 0..allocated /\ lease.owner \in 0..Other
    /\ lease.token \in 0..tokens /\ lease.inflight \in 0..Len(made)
    /\ ended \subseteq Links
    /\ \A k \in 1..Len(written) : written[k] \in 1..Len(made)
    /\ fate \in [Inputs -> {"none", "dropped", "withdrawn", "yes", "no"}]

\* What the terminal gets is what was typed, each input at most once and in the
\* order of arrival, whatever links, leases and receipts were lost between
\* (MoorMasterClient.retryPendingInput, session.rs input).
WrittenInOrder ==
    \A j, k \in 1..Len(written) : j < k => written[j] < written[k]

OnWire(i) ==
    \/ \E c \in Links \ ended : \E k \in 1..Len(toHolder[c]) :
            toHolder[c][k].kind = "input" /\ toHolder[c][k].item = i
    \/ \E k \in 1..Len(writer) : writer[k].item = i

\* The channels engine reverts a prompt that was answered "no": it must not
\* reach the terminal then or later; one answered "yes" has reached it
\* (sendPrompt, submitInput).
PromptVerdict ==
    \A i \in 1..Len(made) :
        made[i] = ControlPlane =>
            /\ fate[i] = "no" => i \notin ItemsOf(written) /\ ~OnWire(i)
            /\ fate[i] = "yes" => i \in ItemsOf(written)

\* A link at rest numbers its next input one above the holder's high-water mark:
\* any other number is refused, and so is every number after it ("more than one
\* above the high-water mark is BAD_SEQUENCE", moor-wire-schema.md).
InStep ==
    /\ Attached /\ ~Recovering /\ link.reset = "no" /\ client.pending = 0
    /\ lease.owner = client.conn /\ lease.inflight = 0
    /\ toHolder[client.conn] = <<>> /\ toClient = <<>>
    => client.next = lease.high + 1

Sends(i) ==
    \E c \in Links :
        /\ Len(toHolder'[c]) > Len(toHolder[c])
        /\ LET f == toHolder'[c][Len(toHolder'[c])] IN f.kind = "input" /\ f.item = i

\* What was reported as dropped is not sent afterwards (sendInputUnavailable).
DropsAreFinal == [][\A i \in Inputs : fate[i] = "dropped" => ~Sends(i)]_vars

\* What waits in a queue is sent or reported, once no more is typed: every
\* recovery ends, however often it must ask for the lease, and every receipt
\* lets the next input go (runControllerRecovery, runObserverLeaseRecovery,
\* flushQueue).
Waiting == ItemsOf(slot.queue) \cup ItemsOf(link.queue)
InputSettles == (Waiting # {}) ~> (Waiting = {})
=============================================================================
