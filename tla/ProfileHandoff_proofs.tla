------------------------ MODULE ProfileHandoff_proofs ------------------------
(***************************************************************************)
(* Proofs about ProfileHandoff (claudeProfileContinuity.ts and its         *)
(* callers): whose generation is in force, and where the newest files of   *)
(* the conversation are.                                                   *)
(*                                                                         *)
(* The invariant has four parts.  Typed and Control say who holds the      *)
(* continuity lock and how far journal, marker and generation have come;   *)
(* HomeInv says whose generation is in force; and, unless a start raced an *)
(* edit, Quiet says who runs and Files which inode is where.  What may     *)
(* still be undone is described twice: by the files as they are and by     *)
(* the files as they were before (Before), so that an undo that stops at   *)
(* any link, and a recovery that starts from there, keep what the          *)
(* properties need.                                                        *)
(***************************************************************************)
EXTENDS ProfileHandoff, SequenceTheorems, TLAPS

(* The journal's generation, and what the section that holds the lock does   *)
(* about it: an unsettled journal is Open; a section lays the links and      *)
(* records of a generation or unwinds them.                                  *)
Open == journal.phase \in {"preparing", "prepared"}
Laying == sec.at \in {"backup", "link", "prepared", "marker", "current", "committed"}
Catching == Undoing /\ sec.why = "catch"
Preparing == sec.job = "prepare" /\ (Laying \/ Catching)
Arts == Rec(journal.id).arts
Dests == {"store", "target"}

(* An edit whose generation is committed and whose manifest is not may still *)
(* undo it; so may the recovery of an unsettled journal.                     *)
Claims(e) == act[e].at \in {"commit", "undo"} \/ (sec.by = e /\ sec.job = "undo")
Owns(e) == Claims(e) /\ act[e].id = journal.id
Undoable == Open \/ (journal.phase = "committed" /\ \E e \in Edits : Owns(e))

-----------------------------------------------------------------------------
(* Types.                                                                    *)

Jobs == {"none", "prepare", "undo", "finalize", "start", "confirm"}
Stages == {"free", "recover", "open", "check", "backup", "link", "prepared", "marker",
           "current", "committed", "activate", "confirmed",
           "undo", "ungen", "uncurrent", "uncommit", "unjournal"}
Doing == {"idle", "retire", "prepare", "commit", "finalize", "undo",
          "start", "starting", "spawn", "post", "busy"}
Phases == {"none", "preparing", "prepared", "committed", "rolled-back"}
Generations == [src : Profiles, tgt : Profiles, arts : SUBSET Artifacts]
Links == [Artifacts -> Nat]
Actor == [at : Doing, src : Profiles, tgt : Profiles, was : BOOLEAN, id : Nat]

TypedFiles ==
    /\ file \in [Places -> Links]
    /\ backup \in [Dests -> Links]
    /\ latest \in [Artifacts -> Nat \ {0}]
TypedRecords ==
    /\ journal \in [id : Nat, prev : Nat, phase : Phases, was : [Dests -> Links]]
    /\ commit \in Nat /\ current \in Nat /\ immut \subseteq Nat
    /\ activation \in [id : Nat, state : {"none", "starting", "ready", "needs-attention"}]
    /\ made \in Seq(Generations)
TypedAct == act \in [Actors -> Actor]
TypedSec ==
    sec \in [by : Actors \cup {"none"}, job : Jobs, at : Stages, k : Nat,
             why : {"none", "recover", "refresh", "catch", "undo"}, bad : BOOLEAN]
TypedRest ==
    /\ manifest \in Profiles /\ running \in Profiles \cup {"none"}
    /\ torn \in BOOLEAN /\ abandoned \in BOOLEAN /\ raced \in BOOLEAN /\ returned \in BOOLEAN
    /\ edits \in Nat /\ starts \in Nat /\ faults \in Nat
TypedActors == TypedAct /\ TypedSec /\ TypedRest
Typed == TypedFiles /\ TypedRecords /\ TypedActors

-----------------------------------------------------------------------------
(* Control: who holds the lock, and how far the records are.                 *)

(* What each job passes through, and for whom.                               *)
Shaped ==
    /\ sec.at = "free" => sec = NoSection
    /\ sec.job = "none" => sec.at = "free"
    /\ sec.at # "free" => sec.by \in Actors
    /\ sec.job \in {"prepare", "undo", "finalize"} => sec.by \in Edits
    /\ sec.job = "prepare" => sec.at \in {"recover", "check"} \/ Laying \/ Undoing
    /\ sec.job = "undo" => sec.at = "open" \/ Undoing
    /\ sec.job = "finalize" => sec.at = "open"
    /\ sec.job = "start" => sec.by # "hook" /\ sec.at # "confirmed"
    /\ sec.job = "confirm" => sec.by = "hook" /\ sec.at \in {"open", "confirmed"}
    /\ sec.why = "refresh" => sec.job = "start"
    /\ sec.job = "start" /\ (Laying \/ sec.at = "check") => sec.why = "refresh"
    /\ Undoing => \/ sec.why = "undo" /\ sec.job = "undo"
                  \/ sec.why \in {"recover", "catch"} /\ sec.job \in {"prepare", "start"}
    /\ sec.why = "catch" => Undoing

(* The holder of the lock is the actor that waits for its section.           *)
Held ==
    /\ sec.at # "free" =>
          \/ act[sec.by].at = IF sec.job = "start" THEN "starting" ELSE "busy"
          \/ sec.job = "confirm" /\ act["hook"].at = "post"
    /\ \A p \in Actors : act[p].at = "busy" => sec.by = p /\ sec.job \notin {"none", "start"}
    /\ \A p \in Actors : act[p].at = "starting" => sec.by = p /\ sec.job = "start"

(* An edit moves the conversation; a start stays where it is.                *)
Roles ==
    /\ \A p \in Actors : act[p].at \in {"start", "starting", "spawn"} => act[p].src = act[p].tgt
    /\ \A e \in Edits : act[e].at # "post" /\ (Moving(e) => act[e].src # act[e].tgt)
    /\ act["hook"].at \in {"idle", "post", "busy"}
    /\ act["user"].at \in {"idle", "start", "starting", "spawn"}

(* Generations are numbered in order; the journal is that of the last.       *)
Counted ==
    /\ journal.id = Len(made)
    /\ journal.phase = "none" <=> journal.id = 0
    /\ journal.id = 0 => journal.prev = 0
    /\ journal.id # 0 => journal.prev < journal.id
    /\ journal.prev \in immut \cup {0}
    /\ immut \subseteq 1..journal.id
    /\ activation.id <= journal.id /\ (Open => activation.id # journal.id)
    /\ \A g \in 1..Len(made) : 1 \in made[g].arts

(* The marker is written before generation.json and restored after it.       *)
Marked ==
    /\ \/ commit = journal.prev /\ current = journal.prev
       \/ commit = journal.id /\ current \in {journal.prev, journal.id}
    /\ journal.phase \in {"preparing", "rolled-back"} => commit = journal.prev
    /\ journal.phase = "committed" /\ Own /\ journal.id \in immut => current = journal.id
    /\ ~torn /\ sec.at \notin {"uncurrent", "uncommit", "unjournal"} =>
          /\ Open /\ Own => journal.id \in immut
          /\ journal.phase = "committed" => Own /\ current = journal.id /\ journal.id \in immut

(* How far the section that holds the lock has come.                         *)
Staged ==
    /\ sec.at \in {"check", "activate"} \/ In("start", "open") =>
          /\ ~Open
          /\ journal.phase = "committed" => Own /\ current = journal.id /\ journal.id \in immut
    /\ sec.at \in {"backup", "link", "prepared"} => journal.phase = "preparing"
    /\ sec.at \in {"marker", "current", "committed"} => journal.phase = "prepared"
    /\ sec.at \in {"prepared", "marker", "current", "committed"} => journal.id \in immut
    /\ sec.at = "marker" => commit = journal.prev
    /\ sec.at = "current" => Own /\ current = journal.prev
    /\ sec.at = "committed" => Own /\ current = journal.id
    /\ Laying \/ Catching => Rec(journal.id).src = From /\ Target = To
    /\ Undoing => journal.id # 0 /\ (IF sec.why = "undo" THEN journal.phase = "committed" ELSE Open)
    /\ Undoing /\ sec.why = "recover" => ~Own
    /\ sec.at \in {"uncurrent", "uncommit", "unjournal"} => journal.id \notin immut
    /\ sec.at \in {"uncommit", "unjournal"} => current = journal.prev
    /\ sec.at = "unjournal" => commit = journal.prev

(* What an edit may undo is the journal's generation or lies under it.       *)
Claiming ==
    /\ \A e \in Edits : Claims(e) =>
          /\ act[e].id \in 1..Len(made)
          /\ Rec(act[e].id).src = act[e].src /\ Rec(act[e].id).tgt = act[e].tgt
          /\ act[e].id <= journal.prev \/ (act[e].id = journal.id /\ journal.phase = "committed")
    /\ \A e, x \in Edits : Claims(e) /\ Claims(x) /\ act[e].id = act[x].id => e = x
    /\ sec.job = "undo" /\ Undoing => act[sec.by].id = journal.id

(* A generation that may still be undone is in force, but for its undo.      *)
Owning ==
    \A e \in Edits : Owns(e) /\ ~Undoing =>
        Own /\ current = journal.id /\ journal.id \in immut

(* A start that renews the generation in force has found it its own.         *)
Renewing ==
    sec.why = "refresh" /\ sec.at \in {"recover", "check"} =>
        ~Open /\ current # 0 /\ Rec(current).tgt = To

Control == Shaped /\ Held /\ Roles /\ Counted /\ Marked /\ Staged /\ Claiming /\ Renewing
               /\ Owning

-----------------------------------------------------------------------------
(* Whose generation is in force.                                             *)

(* A generation is at home when it is the manifest's profile's or an edit    *)
(* on its way to commit or undo is for its profile; while an edit can still  *)
(* commit, the manifest's profile is not enough, since it is about to change. *)
Named(g, X) == g # 0 /\ \E e \in Edits \ X : Claims(e) /\ act[e].tgt = Rec(g).tgt
Viable(e) == act[e].at = "commit" /\ act[e].src = manifest
Home(g, X) ==
    /\ g = 0 \/ Rec(g).tgt = manifest \/ Named(g, X)
    /\ (\E e \in Edits \ X : Viable(e)) => Named(g, X)

(* The generation an unsettled journal goes back to, and the one its owner   *)
(* would go back to, are at home as the one in force is.                     *)
Base == IF Open THEN journal.prev ELSE current
Homed ==
    /\ Home(Base, {})
    /\ Open => Preparing \/ (journal.prev # 0 /\ Target = Rec(journal.prev).tgt)
    /\ \A x \in Edits : Owns(x) => Home(journal.prev, {x})
HomeInv == ~abandoned /\ ~returned => Homed
-----------------------------------------------------------------------------
(* Who runs, and what the started conversation may assume.                   *)

Up == running # "none" \/ \E p \in Actors : act[p].at = "spawn"

(* The journal renews a generation in the profile it is for.                 *)
Refreshing ==
    /\ journal.prev # 0 /\ Target = Rec(journal.prev).tgt /\ Rec(journal.id).src = Target

(* A generation that is in force, or comes back into force by an undo.       *)
Recallable(g) == g = current \/ (Undoable /\ g = journal.prev)

Quiet ==
    /\ \A p \in Actors : act[p].at = "spawn" =>
          act[p].tgt = manifest /\ \A e \in Edits : ~Moving(e)
    /\ running # "none" =>
          running = manifest /\ \A e \in Edits : Moving(e) => act[e].at = "retire" /\ act[e].src = manifest
    /\ Up => (current = 0 \/ Rec(current).tgt = manifest) /\ (Open => Refreshing)
    /\ Open /\ ~Refreshing => ~Up /\ (act["hook"].at = "idle" \/ Preparing)
    /\ activation.id # 0 /\ Recallable(activation.id) =>
          /\ Rec(activation.id).tgt = manifest
          /\ \A e \in Edits : Moving(e) => act[e].src = manifest
    /\ \A e \in Edits : Claims(e) => activation.id < act[e].id

-----------------------------------------------------------------------------
(* The files.                                                                *)

(* The files as they were before the journal's generation.                   *)
Place(d) == IF d = "store" THEN "store" ELSE Target
Before ==
    [p \in Places |-> [a \in Artifacts |->
        IF a \in Arts /\ p = "store" THEN journal.was["store"][a]
        ELSE IF a \in Arts /\ p = Target THEN journal.was["target"][a]
        ELSE file[p][a]]]

(* A profile is safe to go on in: what it has is the newest, and the store   *)
(* has the newest of what it lacks.                                          *)
SafeIn(f, p) ==
    \A a \in Artifacts : f[p][a] = latest[a] \/ (f[p][a] = 0 /\ f["store"][a] = latest[a])

(* A start for the generation's profile cannot put an older file into the    *)
(* store than is there; before the first generation nothing is there.        *)
Harmless(f, g) ==
    /\ g = 0 => \A a \in Artifacts : f["store"][a] = 0
    /\ g # 0 => \A a \in Artifacts : f[Rec(g).tgt][a] \in {0, latest[a], f["store"][a]}

(* The profiles that must be safe: the manifest's, those edits are about to  *)
(* prepare from, and those they are about to name in the manifest.           *)
Homes(p) ==
    \/ p = manifest
    \/ \E e \in Edits : Pending(e) /\ p = act[e].src
Goals(p) == \E e \in Edits : act[e].at = "commit" /\ p = act[e].tgt
Others(p) == \E e \in Edits : act[e].at = "commit" /\ ~Owns(e) /\ p = act[e].tgt

Usable == journal.phase \notin {"none", "rolled-back"} =>
              journal.phase = "committed" /\ Own /\ journal.id \in immut

SafeNow == \A p \in Profiles : Homes(p) \/ Goals(p) => SafeIn(file, p)
SafeThen == Undoable => \A p \in Profiles : Homes(p) \/ Others(p) => SafeIn(Before, p)
HarmNow == Usable => Harmless(file, current)
HarmThen == Undoable => Harmless(Before, journal.prev)

(* What may be undone is recorded well enough to be undone.                  *)
PlanAt(a, d) == IF d = "store" THEN 2 * a - 1 ELSE 2 * a
Shared(a) == file["store"][a] # 0 /\ file["store"][a] = file[Target][a]
Unlinked(a, d) == file[Place(d)][a] = journal.was[d][a]
Tracked ==
    Undoable =>
        /\ \A a \in Arts, d \in Dests : file[Place(d)][a] = latest[a] \/ Unlinked(a, d)
        /\ \A a \in Arts : IF Rec(journal.id).src = Target
              THEN journal.was["target"][a] # 0 /\ journal.was["target"][a] \in {latest[a], journal.was["store"][a]}
              ELSE journal.was["target"][a] \in {0, latest[a]}
        /\ \A a \in Artifacts \ Arts : file[Target][a] = 0
        /\ backup = NoBackup \/ backup = journal.was
Backed ==
    /\ Open => backup = journal.was \/ \A a \in Arts, d \in Dests : Unlinked(a, d)
    /\ sec.at = "check" => backup = NoBackup
    /\ sec.at = "link" => backup = journal.was
    /\ Open /\ Undoing => ~sec.bad

(* Laying the links, and undoing them one by one.                            *)
Laid ==
    /\ Laying =>
          /\ \A a \in Arts : file[From][a] # 0 /\ file[From][a] \in {latest[a], journal.was["store"][a]}
          /\ \A a \in Artifacts \ Arts : file[From][a] = 0
    /\ sec.at = "link" => \A a \in Arts, d \in Dests :
          PlanAt(a, d) < sec.k => file[Place(d)][a] = file[From][a]
    /\ sec.at \in {"prepared", "marker", "current", "committed"} =>
          \A a \in Arts : Shared(a) /\ file["store"][a] = file[From][a]
    /\ (\E e \in Edits : Owns(e)) /\ ~Undoing => \A a \in Arts : Shared(a)
    /\ ~torn /\ Open /\ Own /\ ~Undoing => \A a \in Arts : Shared(a)
Unlaid ==
    /\ sec.at = "undo" /\ ~sec.bad => \A a \in Arts, d \in Dests :
          sec.k < PlanAt(a, d) => Unlinked(a, d)
    /\ sec.at \in {"ungen", "uncurrent", "uncommit", "unjournal"} =>
          \A a \in Arts, d \in Dests : Unlinked(a, d)

(* The generation in force has its files in the store.                       *)
Stored ==
    ~torn =>
        /\ ~Undoing /\ current # 0 => \A a \in Rec(current).arts : file["store"][a] # 0
        /\ Undoable /\ journal.prev # 0 => \A a \in Rec(journal.prev).arts : Before["store"][a] # 0

(* What is started has its transcript.                                       *)
Started ==
    /\ In("start", "activate") /\ ~Unmanaged => Rec(current).tgt = To /\ file[To][1] # 0
    /\ sec.job = "start" /\ (sec.why = "refresh" \/ Catching) =>
          Base # 0 /\ Rec(Base).tgt = To /\ file[To][1] # 0
    /\ Up => file[manifest][1] # 0

Files == SafeNow /\ SafeThen /\ HarmNow /\ HarmThen /\ Tracked /\ Backed /\ Laid /\ Unlaid
             /\ Stored /\ Started
Guarded == ~raced => Quiet /\ Files
Inv == Typed /\ Control /\ HomeInv /\ Guarded

-----------------------------------------------------------------------------
(* The caller of a section, when the section returns.                        *)

LEMMA NoActorTyped == NoActor \in Actor /\ NoActor.at = "idle" /\ NoActor.src = NoActor.tgt
BY HandoffAssumption DEF NoActor, Actor, Doing

LEMMA ResumeIs ==
  ASSUME Typed, NEW p \in Actors, NEW q \in Profiles
  PROVE  /\ Resume(p, q) \in Actor
         /\ Resume(p, q).src = Resume(p, q).tgt
         /\ Resume(p, q) = NoActor \/ Resume(p, q).at = "start"
<1>1. act[p] \in Actor
  BY DEF Typed, TypedActors, TypedAct
<1>2. [act[p] EXCEPT !.at = "start", !.src = q, !.tgt = q] \in Actor
  BY <1>1 DEF Actor, Doing
<1>3. LET m == [act[p] EXCEPT !.at = "start", !.src = q, !.tgt = q]
      IN  m.at = "start" /\ m.src = q /\ m.tgt = q
  BY <1>1 DEF Actor
<1> QED
  BY <1>1, <1>2, <1>3, NoActorTyped DEF Resume

LEMMA ContinuesTyped ==
  ASSUME Typed, NEW p \in Actors, NEW job \in Jobs, NEW ok \in BOOLEAN
  PROVE  Continues(p, job, ok) \in Actor
<1>1. act[p] \in Actor /\ journal.id \in Nat
  BY DEF Typed, TypedActors, TypedAct, TypedRecords
<1>2. [act[p] EXCEPT !.at = "commit", !.id = journal.id] \in Actor
  BY <1>1 DEF Actor, Doing
<1>3. [act[p] EXCEPT !.at = "spawn"] \in Actor
  BY <1>1 DEF Actor, Doing
<1>4. act[p].src \in Profiles /\ act[p].tgt \in Profiles
  BY <1>1 DEF Actor
<1> QED
  BY <1>1, <1>2, <1>3, <1>4, ResumeIs, NoActorTyped DEF Continues, Jobs

(* What a section promises nothing to does next: nothing, a start in place,  *)
(* or it is the hook that was posted meanwhile.                              *)
Parting(n, p, job) ==
    \/ n = NoActor
    \/ n = act[p] /\ n.at = "post" /\ job \notin {"prepare", "undo", "finalize"}
    \/ n.at = "start" /\ n.src = n.tgt /\ job \in {"prepare", "undo", "finalize"}

LEMMA ContinuesParts ==
  ASSUME Typed, NEW p \in Actors, NEW job \in Jobs, NEW ok \in BOOLEAN,
         ~ok \/ job \notin {"prepare", "start"}
  PROVE  Parting(Continues(p, job, ok), p, job)
<1>1. act[p].src \in Profiles /\ act[p].tgt \in Profiles
  BY DEF Typed, TypedActors, TypedAct, Actor
<1> QED
  BY <1>1, ResumeIs DEF Continues, Jobs, Parting

(* The section returns and promises its caller nothing.                      *)
Leaves ==
    /\ sec' = NoSection
    /\ act' = [act EXCEPT ![sec.by] = act'[sec.by]]
    /\ act'[sec.by] \in Actor
    /\ \/ act'[sec.by].at \in {"idle", "start"} /\ act'[sec.by].src = act'[sec.by].tgt
       \/ sec.by = "hook" /\ act'[sec.by] = act[sec.by] /\ act[sec.by].at = "post"
    /\ act'[sec.by].at = "start" => sec.job \in {"prepare", "undo", "finalize"}

(* The section returns with what its caller asked for.                       *)
Granted(n) == sec' = NoSection /\ act' = [act EXCEPT ![sec.by] = n]

LEMMA ReturnLeaves ==
  ASSUME Typed, Shaped, Held, sec.at # "free", NEW ok \in BOOLEAN, Return(ok),
         ~ok \/ sec.job \notin {"prepare", "start"}
  PROVE  Leaves
<1>1. sec.by \in Actors /\ sec.job \in Jobs \ {"none"} /\ act[sec.by] \in Actor
  BY DEF Typed, TypedActors, TypedAct, TypedSec, Shaped
<1> DEFINE n == Continues(sec.by, sec.job, ok)
<1>2. sec' = NoSection /\ act' = [act EXCEPT ![sec.by] = n]
  BY DEF Return
<1>3. n \in Actor
  BY <1>1, ContinuesTyped
<1>4. Parting(n, sec.by, sec.job)
  BY <1>1, ContinuesParts
<1> HIDE DEF n
<1>5. act'[sec.by] = n
  BY <1>1, <1>2 DEF Typed, TypedActors, TypedAct
<1>6. CASE n = NoActor
  BY <1>2, <1>3, <1>5, <1>6, NoActorTyped DEF Leaves
<1>7. CASE n = act[sec.by] /\ n.at = "post" /\ sec.job \notin {"prepare", "undo", "finalize"}
  BY <1>1, <1>7, <1>2, <1>3, <1>5 DEF Held, Shaped, Jobs, Leaves
<1>8. CASE n.at = "start" /\ n.src = n.tgt /\ sec.job \in {"prepare", "undo", "finalize"}
  BY <1>2, <1>3, <1>5, <1>8 DEF Leaves
<1> QED
  BY <1>4, <1>6, <1>7, <1>8 DEF Parting

LEMMA ReturnStarts ==
  ASSUME Typed, Shaped, sec.at # "free", sec.job = "start", Return(TRUE)
  PROVE  Granted([act[sec.by] EXCEPT !.at = "spawn"])
BY DEF Return, Granted, Continues

LEMMA ReturnPrepares ==
  ASSUME Typed, Shaped, sec.at # "free", sec' = NoSection,
         act' = [act EXCEPT ![sec.by] = Continues(sec.by, "prepare", TRUE)]
  PROVE  Granted([act[sec.by] EXCEPT !.at = "commit", !.id = journal.id])
BY DEF Granted, Continues

LEMMA LeavesSteps ==
  ASSUME Typed, Shaped, Held,
         \/ RecoveryThrows \/ UndoRefused \/ PrepareRefused \/ Finalizes
         \/ StartRefused \/ HookIgnored \/ HookMismatched \/ HookConfirms
         \/ (UndoBackups /\ sec.bad) \/ (UndoJournal /\ sec.why # "recover")
  PROVE  Leaves /\ sec.at # "free"
<1>1. \/ sec.at # "free" /\ Return(FALSE)
      \/ sec.at # "free" /\ sec.job \notin {"prepare", "start"} /\ (Return(TRUE) \/ Return(MayUndo))
  BY DEF RecoveryThrows, UndoRefused, PrepareRefused, Finalizes, StartRefused, HookIgnored,
         HookMismatched, HookConfirms, UndoBackups, UndoJournal, In
<1>2. MayUndo \in BOOLEAN
  BY DEF MayUndo
<1> QED
  BY <1>1, <1>2, ReturnLeaves

LEMMA StartsSteps ==
  ASSUME Typed, Shaped, StartUnmanaged \/ StartActivates
  PROVE  Granted([act[sec.by] EXCEPT !.at = "spawn"])
BY ReturnStarts DEF StartUnmanaged, StartActivates, In

LEMMA PreparesStep ==
  ASSUME Typed, Shaped, WriteCommitted, sec.job = "prepare"
  PROVE  Granted([act[sec.by] EXCEPT !.at = "commit", !.id = journal.id])
BY ReturnPrepares DEF WriteCommitted

-----------------------------------------------------------------------------
(* Types.                                                                    *)

LEMMA RecTyped ==
  ASSUME Typed, NEW g \in 1..Len(made)
  PROVE  Rec(g) \in Generations /\ Rec(g).src \in Profiles /\ Rec(g).tgt \in Profiles
         /\ Rec(g).arts \subseteq Artifacts
<1>1. made \in Seq(Generations)
  BY DEF Typed, TypedRecords
<1>2. Rec(g) \in Generations
  BY <1>1 DEF Rec
<1> QED
  BY <1>2 DEF Generations

LEMMA FileUpdated ==
  ASSUME TypedFiles, NEW p \in Places, NEW a \in Artifacts, NEW v \in Nat
  PROVE  [file EXCEPT ![p][a] = v] \in [Places -> Links]
BY DEF TypedFiles, Links

LEMMA PlanTyped ==
  ASSUME NEW k \in Nat
  PROVE  PlanDest(k) \in Dests
BY DEF PlanDest, Dests

LEMMA JournalRec ==
  ASSUME Typed, Counted, journal.id # 0
  PROVE  journal.id \in 1..Len(made) /\ Target \in Profiles /\ Arts \subseteq Artifacts
BY RecTyped DEF Counted, Typed, TypedRecords, Target, Arts

LEMMA HolderTyped ==
  ASSUME Typed, Shaped, sec.at # "free"
  PROVE  sec.by \in Actors /\ act[sec.by] \in Actor /\ From \in Profiles /\ To \in Profiles
         /\ From \in Places /\ To \in Places
BY DEF Typed, TypedActors, TypedAct, TypedSec, Shaped, From, To, Actor, Places

LEMMA JournalPhase ==
  ASSUME Typed, Control, Laying \/ Undoing
  PROVE  journal.id # 0
BY DEF Control, Counted, Staged, Laying, Open

LEMMA NoSectionTyped ==
  /\ NoSection \in [by : Actors \cup {"none"}, job : Jobs, at : Stages, k : Nat,
                   why : {"none", "recover", "refresh", "catch", "undo"}, bad : BOOLEAN]
  /\ NoSection.by = "none" /\ NoSection.job = "none" /\ NoSection.at = "free"
  /\ NoSection.why = "none"
BY DEF NoSection, Jobs, Stages

LEMMA UndoTyped ==
  ASSUME Typed, NEW why \in {"recover", "catch", "undo"}, ToUndo(why)
  PROVE  TypedSec'
<1>1. Plans \in Nat
  BY HandoffAssumption DEF Plans
<1> QED
  BY <1>1 DEF Typed, TypedActors, TypedSec, ToUndo, Stages

LEMMA GrantedTyped ==
  ASSUME Typed, sec.by \in Actors
  PROVE  /\ [act[sec.by] EXCEPT !.at = "spawn"] \in Actor
         /\ [act[sec.by] EXCEPT !.at = "commit", !.id = journal.id] \in Actor
BY ZenonT(60) DEF Typed, TypedActors, TypedAct, TypedRecords, Actor, Doing

LEMMA FilesTyped ==
  ASSUME Typed, Control, [Next]_vars
  PROVE  TypedFiles'
<1>1. ASSUME NothingToRecover PROVE TypedFiles'
  BY <1>1 DEF NothingToRecover, Goto, records, history, bounds, TypedFiles, TypedRecords,
    TypedActors, Typed, NoBackup, NoFiles, Dests, Links
<1>2. ASSUME UndoLink PROVE TypedFiles'
  <2> USE <1>2 DEF UndoLink
  <2>1. journal.id # 0 /\ sec.k \in Nat
    BY JournalPhase DEF Undoing, Typed, TypedActors, TypedSec
  <2>2. Target \in Profiles /\ Arts \subseteq Artifacts
    BY <2>1, JournalRec DEF Control
  <2>3. PlanPlace(sec.k) \in Places /\ PlanDest(sec.k) \in Dests
    BY <2>1, <2>2, PlanTyped DEF PlanPlace, Places
  <2>4. CASE PlanArtifact(sec.k) \notin Arts
    BY <2>4 DEF Typed, TypedFiles, history, Arts
  <2>5. CASE PlanArtifact(sec.k) \in Arts
    <3> DEFINE v == backup[PlanDest(sec.k)][PlanArtifact(sec.k)]
    <3>1. v \in Nat
      BY <2>2, <2>3, <2>5 DEF Typed, TypedFiles, Links
    <3>2. [file EXCEPT ![PlanPlace(sec.k)][PlanArtifact(sec.k)] = v] \in [Places -> Links]
      BY <2>2, <2>3, <2>5, <3>1, FileUpdated DEF Typed
    <3> QED
      BY <3>2 DEF Typed, TypedFiles, history
  <2> QED
    BY <2>4, <2>5
<1>3. ASSUME UndoBackups PROVE TypedFiles'
  BY <1>3, LeavesSteps DEF UndoBackups, Goto, records, history, bounds, Leaves, NoSection,
    TypedFiles, TypedRecords, TypedActors, Typed, NoBackup, NoFiles, Dests, Links
<1>4. ASSUME Backup PROVE TypedFiles'
  BY <1>4 DEF Backup, records, history, bounds, TypedFiles, TypedRecords, TypedActors, Typed, Dests,
    Links
<1>5. ASSUME LinkStep PROVE TypedFiles'
  <2> USE <1>5 DEF LinkStep
  <2>1. journal.id # 0 /\ sec.k \in Nat
    BY JournalPhase DEF Laying, Typed, TypedActors, TypedSec
  <2>2. Target \in Profiles /\ Arts \subseteq Artifacts
    BY <2>1, JournalRec DEF Control
  <2>3. PlanPlace(sec.k) \in Places /\ From \in Places
    BY <2>1, <2>2, HolderTyped DEF PlanPlace, Places, Control
  <2>4. CASE PlanArtifact(sec.k) \notin Arts
    BY <2>4 DEF Typed, TypedFiles, Arts, history
  <2>5. CASE PlanArtifact(sec.k) \in Arts
    <3> DEFINE v == file[From][PlanArtifact(sec.k)]
    <3>1. v \in Nat
      BY <2>2, <2>3, <2>5 DEF Typed, TypedFiles, Links
    <3>2. [file EXCEPT ![PlanPlace(sec.k)][PlanArtifact(sec.k)] = v] \in [Places -> Links]
      BY <2>2, <2>3, <2>5, <3>1, FileUpdated DEF Typed
    <3> QED
      BY <2>5, <3>2 DEF Typed, TypedFiles, history, Arts
  <2> QED
    BY <2>4, <2>5
<1>6. ASSUME WriteCommitted PROVE TypedFiles'
  <2> USE <1>6 DEF WriteCommitted
  <2>1. backup' = backup \/ backup' = NoBackup
    BY DEF Goto
  <2> QED
    BY <2>1 DEF history, Typed, TypedFiles, NoBackup, NoFiles, Dests, Links
<1>7. ASSUME Finalizes PROVE TypedFiles'
  BY <1>7, LeavesSteps DEF Finalizes, In, MayUndo, records, history, bounds, Leaves, NoSection,
    TypedFiles, TypedRecords, TypedActors, Typed, NoBackup, NoFiles, Dests, Links
<1>8. ASSUME StartOpens PROVE TypedFiles'
  BY <1>8, HolderTyped DEF StartOpens, In, Control, Places, Typed, TypedFiles, Links, Materialised,
    history
<1>9. ASSUME HookCleans PROVE TypedFiles'
  BY <1>9 DEF HookCleans, In, records, history, bounds, TypedFiles, TypedRecords, TypedActors,
    Typed, NoBackup, NoFiles, Dests, Links
<1>10. ASSUME NEW a \in Artifacts, Writes(a) PROVE TypedFiles'
  BY <1>10, FileUpdated DEF Writes, Typed, TypedFiles, TypedActors, TypedRest, Places
<1>11. ASSUME NEW p \in Profiles, NEW a \in Artifacts, Deleted(p, a) PROVE TypedFiles'
  BY <1>11 DEF Deleted, Fault, records, history, bounds, TypedFiles, TypedRecords, TypedActors,
    Typed, NoBackup, NoFiles, Dests, Links
<1>12. ASSUME 
            
      \/ (\E e \in Edits, p \in Profiles : EditBegins(e, p))
      \/ (\E e \in Edits : Retires(e))
      \/ (\E e \in Edits : Commits(e))
      \/ (\E e \in Edits : CommitRejected(e))
      \/ StartAsked
      \/ (\E p \in Actors : Spawns(p))
      \/ (\E p \in Actors : Enter(p))
      \/ RecoveryThrows
      \/ RecoveryAdopts
      \/ RecoveryUndoes
      \/ UndoClaimed
      \/ UndoRefused
      \/ UndoGeneration
      \/ UndoCurrent
      \/ UndoCommit
      \/ UndoJournal
      \/ PrepareRefused
      \/ PrepareBegins
      \/ WriteGeneration
      \/ WritePrepared
      \/ WriteCommit
      \/ WriteCurrent
      \/ PrepareFails
      \/ StartUnmanaged
      \/ StartRefused
      \/ StartActivates
      \/ HookIgnored
      \/ HookMismatched
      \/ HookConfirms
      \/ Exits
      \/ WebDies
      \/ DaemonDies
            PROVE TypedFiles'
  BY <1>12 DEF files, records, history, bounds, TypedFiles, TypedRecords, TypedActors, Typed,
       NoBackup, NoFiles, Dests, Links, EditBegins, Retires, Commits, CommitRejected,
       StartAsked, Spawns, Enter, RecoveryThrows, RecoveryAdopts, RecoveryUndoes, UndoClaimed,
       UndoRefused, UndoGeneration, UndoCurrent, UndoCommit, UndoJournal, PrepareRefused,
       PrepareBegins, WriteGeneration, WritePrepared, WriteCommit, WriteCurrent, PrepareFails,
       StartUnmanaged, StartRefused, StartActivates, HookIgnored, HookMismatched, HookConfirms,
       Exits, WebDies, DaemonDies
<1>13. ASSUME UNCHANGED vars PROVE TypedFiles'
  BY <1>13 DEF vars, files, records, history, bounds, TypedFiles, TypedRecords, TypedActors,
       Typed, NoBackup, NoFiles, Dests, Links
<1> QED
  BY <1>1, <1>2, <1>3, <1>4, <1>5, <1>6, <1>7, <1>8, <1>9, <1>10, <1>11, <1>12, <1>13 DEF Next,
       Edit, Recovery, Undo, Prepare, StartSection, Hook, Environment

LEMMA RecordsTyped ==
  ASSUME Typed, Control, [Next]_vars
  PROVE  TypedRecords'
<1>1. ASSUME RecoveryAdopts PROVE TypedRecords'
  BY <1>1 DEF RecoveryAdopts, files, history, bounds, TypedFiles, TypedRecords, TypedActors, Typed,
    Phases
<1>2. ASSUME UndoGeneration PROVE TypedRecords'
  BY <1>2 DEF UndoGeneration, Goto, files, history, bounds, TypedFiles, TypedRecords, TypedActors,
    Typed, Phases
<1>3. ASSUME UndoCurrent PROVE TypedRecords'
  BY <1>3 DEF UndoCurrent, Goto, Restored, files, history, bounds, TypedFiles, TypedRecords,
    TypedActors, Typed, Phases
<1>4. ASSUME UndoCommit PROVE TypedRecords'
  BY <1>4 DEF UndoCommit, Goto, files, history, bounds, TypedFiles, TypedRecords, TypedActors,
    Typed, Phases
<1>5. ASSUME UndoJournal PROVE TypedRecords'
  BY <1>5, LeavesSteps DEF UndoJournal, Goto, files, history, bounds, Leaves, NoSection, TypedFiles,
    TypedRecords, TypedActors, Typed, Phases
<1>6. ASSUME PrepareBegins PROVE TypedRecords'
  BY <1>6, HolderTyped DEF PrepareBegins, Control, Places, Generations, Present, Typed,
    TypedRecords, TypedFiles, Links, Dests, Phases
<1>7. ASSUME WriteGeneration PROVE TypedRecords'
  BY <1>7 DEF WriteGeneration, Goto, Planned, files, history, bounds, TypedFiles, TypedRecords,
    TypedActors, Typed, Phases
<1>8. ASSUME WritePrepared PROVE TypedRecords'
  BY <1>8 DEF WritePrepared, Goto, Linked, files, history, bounds, TypedFiles, TypedRecords,
    TypedActors, Typed, Phases
<1>9. ASSUME WriteCommit PROVE TypedRecords'
  BY <1>9 DEF WriteCommit, Goto, files, history, bounds, TypedFiles, TypedRecords, TypedActors,
    Typed, Phases
<1>10. ASSUME WriteCurrent PROVE TypedRecords'
  BY <1>10 DEF WriteCurrent, Goto, files, history, bounds, TypedFiles, TypedRecords, TypedActors,
    Typed, Phases
<1>11. ASSUME WriteCommitted PROVE TypedRecords'
  BY <1>11, PreparesStep DEF WriteCommitted, Goto, files, history, bounds, Granted, NoSection,
    TypedFiles, TypedRecords, TypedActors, Typed, Phases
<1>12. ASSUME StartActivates PROVE TypedRecords'
  BY <1>12, StartsSteps DEF StartActivates, In, Races, files, history, bounds, Granted, NoSection,
    TypedFiles, TypedRecords, TypedActors, Typed, Phases
<1>13. ASSUME HookMismatched PROVE TypedRecords'
  BY <1>13, LeavesSteps DEF HookMismatched, In, Fault, files, history, bounds, Leaves, NoSection,
    TypedFiles, TypedRecords, TypedActors, Typed, Phases
<1>14. ASSUME HookConfirms PROVE TypedRecords'
  BY <1>14, LeavesSteps DEF HookConfirms, In, files, history, bounds, Leaves, NoSection, TypedFiles,
    TypedRecords, TypedActors, Typed, Phases
<1>15. ASSUME 
            
      \/ (\E e \in Edits, p \in Profiles : EditBegins(e, p))
      \/ (\E e \in Edits : Retires(e))
      \/ (\E e \in Edits : Commits(e))
      \/ (\E e \in Edits : CommitRejected(e))
      \/ StartAsked
      \/ (\E p \in Actors : Spawns(p))
      \/ (\E p \in Actors : Enter(p))
      \/ RecoveryThrows
      \/ NothingToRecover
      \/ RecoveryUndoes
      \/ UndoClaimed
      \/ UndoRefused
      \/ UndoLink
      \/ UndoBackups
      \/ PrepareRefused
      \/ Backup
      \/ LinkStep
      \/ PrepareFails
      \/ Finalizes
      \/ StartUnmanaged
      \/ StartRefused
      \/ StartOpens
      \/ HookIgnored
      \/ HookCleans
      \/ (\E a \in Artifacts : Writes(a))
      \/ (\E p \in Profiles, a \in Artifacts : Deleted(p, a))
      \/ Exits
      \/ WebDies
      \/ DaemonDies
            PROVE TypedRecords'
  BY <1>15 DEF files, records, history, bounds, TypedFiles, TypedRecords, TypedActors, Typed,
       Phases, EditBegins, Retires, Commits, CommitRejected, StartAsked, Spawns, Enter,
       RecoveryThrows, NothingToRecover, RecoveryUndoes, UndoClaimed, UndoRefused, UndoLink,
       UndoBackups, PrepareRefused, Backup, LinkStep, PrepareFails, Finalizes, StartUnmanaged,
       StartRefused, StartOpens, HookIgnored, HookCleans, Writes, Deleted, Exits, WebDies,
       DaemonDies
<1>16. ASSUME UNCHANGED vars PROVE TypedRecords'
  BY <1>16 DEF vars, files, records, history, bounds, TypedFiles, TypedRecords, TypedActors,
       Typed, Phases
<1> QED
  BY <1>1, <1>2, <1>3, <1>4, <1>5, <1>6, <1>7, <1>8, <1>9, <1>10, <1>11, <1>12, <1>13, <1>14,
       <1>15, <1>16 DEF Next, Edit, Recovery, Undo, Prepare, StartSection, Hook, Environment

LEMMA ActTyped ==
  ASSUME Typed, Control, [Next]_vars
  PROVE  TypedAct'
<1>1. ASSUME NEW e \in Edits, NEW p \in Profiles, EditBegins(e, p) PROVE TypedAct'
  BY <1>1, NoActorTyped DEF EditBegins, files, records, TypedAct, TypedRest, TypedRecords,
    TypedActors, Typed, Control, Actor, Doing
<1>2. ASSUME NEW e \in Edits, Retires(e) PROVE TypedAct'
  BY <1>2, NoActorTyped DEF Retires, files, records, history, bounds, TypedAct, TypedRest,
       TypedRecords, TypedActors, Typed, Control, Actor, Doing
<1>3. ASSUME NEW e \in Edits, Commits(e) PROVE TypedAct'
  BY <1>3, NoActorTyped DEF Commits, Unchanged, files, records, bounds, TypedAct, TypedRest,
    TypedRecords, TypedActors, Typed, Control, Actor, Doing
<1>4. ASSUME NEW e \in Edits, CommitRejected(e) PROVE TypedAct'
  BY <1>4, NoActorTyped DEF CommitRejected, Unchanged, Fault, files, records, history, TypedAct,
    TypedRest, TypedRecords, TypedActors, Typed, Control, Actor, Doing
<1>5. ASSUME StartAsked PROVE TypedAct'
  BY <1>5, NoActorTyped DEF StartAsked, NoActor, files, records, history, TypedAct, TypedRest,
    TypedRecords, TypedActors, Typed, Control, Actor, Doing
<1>6. ASSUME NEW p \in Actors, Spawns(p) PROVE TypedAct'
  BY <1>6, NoActorTyped DEF Spawns, NoActor, files, records, history, bounds, TypedAct,
       TypedRest, TypedRecords, TypedActors, Typed, Control, Actor, Doing
<1>7. ASSUME NEW p \in Actors, Enter(p) PROVE TypedAct'
  BY <1>7 DEF Typed, TypedActors, TypedAct, Actor, Doing, Enter
<1>8. ASSUME RecoveryThrows PROVE TypedAct'
  BY <1>8, LeavesSteps, NoActorTyped, HolderTyped DEF history, bounds, Leaves, NoSection, TypedAct,
    TypedRest, TypedRecords, TypedActors, Typed, Control, Actor, Doing
<1>9. ASSUME UndoRefused PROVE TypedAct'
  BY <1>9, LeavesSteps, NoActorTyped, HolderTyped DEF records, bounds, Leaves, NoSection, TypedAct,
    TypedRest, TypedRecords, TypedActors, Typed, Control, Actor, Doing
<1>10. ASSUME UndoBackups PROVE TypedAct'
  BY <1>10, LeavesSteps, NoActorTyped, HolderTyped DEF UndoBackups, Goto, records, bounds, Leaves,
    NoSection, TypedAct, TypedRest, TypedRecords, TypedActors, Typed, Control, Actor, Doing
<1>11. ASSUME UndoJournal PROVE TypedAct'
  BY <1>11, LeavesSteps, NoActorTyped, HolderTyped DEF UndoJournal, Goto, files, history, bounds,
    Leaves, NoSection, TypedAct, TypedRest, TypedRecords, TypedActors, Typed, Control, Actor, Doing
<1>12. ASSUME PrepareRefused PROVE TypedAct'
  BY <1>12, LeavesSteps, NoActorTyped, HolderTyped DEF history, bounds, Leaves, NoSection, TypedAct,
    TypedRest, TypedRecords, TypedActors, Typed, Control, Actor, Doing
<1>13. ASSUME WriteCommitted PROVE TypedAct'
  <2> USE <1>13 DEF WriteCommitted, Control
  <2>1. sec.by \in Actors
    BY HolderTyped
  <2>2. TypedAct
    BY DEF Typed, TypedActors
  <2>3. CASE sec.job # "prepare"
    BY <2>2, <2>3 DEF Goto, TypedAct
  <2>4. CASE sec.job = "prepare"
    BY <2>1, <2>2, <2>4, PreparesStep, GrantedTyped DEF Granted, TypedAct
  <2> QED
    BY <2>3, <2>4
<1>14. ASSUME Finalizes PROVE TypedAct'
  BY <1>14, LeavesSteps, NoActorTyped, HolderTyped DEF history, bounds, Leaves, NoSection, TypedAct,
    TypedRest, TypedRecords, TypedActors, Typed, Control, Actor, Doing
<1>15. ASSUME StartUnmanaged PROVE TypedAct'
  BY <1>15, HolderTyped, StartsSteps, GrantedTyped DEF StartUnmanaged, Control, In, Typed,
    TypedActors, Granted, TypedAct
<1>16. ASSUME StartRefused PROVE TypedAct'
  BY <1>16, LeavesSteps, NoActorTyped, HolderTyped DEF history, bounds, Leaves, NoSection, TypedAct,
    TypedRest, TypedRecords, TypedActors, Typed, Control, Actor, Doing
<1>17. ASSUME StartActivates PROVE TypedAct'
  BY <1>17, HolderTyped, StartsSteps, GrantedTyped DEF StartActivates, Control, In, Typed,
    TypedActors, Granted, TypedAct
<1>18. ASSUME HookIgnored PROVE TypedAct'
  BY <1>18, LeavesSteps, NoActorTyped, HolderTyped DEF history, bounds, Leaves, NoSection, TypedAct,
    TypedRest, TypedRecords, TypedActors, Typed, Control, Actor, Doing
<1>19. ASSUME HookMismatched PROVE TypedAct'
  BY <1>19, LeavesSteps, NoActorTyped, HolderTyped DEF records, history, bounds, Leaves, NoSection,
    TypedAct, TypedRest, TypedRecords, TypedActors, Typed, Control, Actor, Doing
<1>20. ASSUME HookConfirms PROVE TypedAct'
  BY <1>20, LeavesSteps, NoActorTyped, HolderTyped DEF history, bounds, Leaves, NoSection, TypedAct,
    TypedRest, TypedRecords, TypedActors, Typed, Control, Actor, Doing
<1>21. ASSUME WebDies PROVE TypedAct'
  BY <1>21, NoActorTyped DEF WebDies, NoActor, NoSection, Fault, Cut, files, records, history,
       bounds, TypedAct, TypedRest, TypedRecords, TypedActors, Typed, Control, Actor, Doing
<1>22. ASSUME DaemonDies PROVE TypedAct'
  BY <1>22, NoActorTyped DEF DaemonDies, NoActor, NoSection, Fault, Cut, files, records,
       history, bounds, TypedAct, TypedRest, TypedRecords, TypedActors, Typed, Control, Actor,
       Doing
<1>23. ASSUME 
            
      \/ NothingToRecover
      \/ RecoveryAdopts
      \/ RecoveryUndoes
      \/ UndoClaimed
      \/ UndoLink
      \/ UndoGeneration
      \/ UndoCurrent
      \/ UndoCommit
      \/ PrepareBegins
      \/ Backup
      \/ LinkStep
      \/ WriteGeneration
      \/ WritePrepared
      \/ WriteCommit
      \/ WriteCurrent
      \/ PrepareFails
      \/ StartOpens
      \/ HookCleans
      \/ (\E a \in Artifacts : Writes(a))
      \/ (\E p \in Profiles, a \in Artifacts : Deleted(p, a))
      \/ Exits
            PROVE TypedAct'
  BY <1>23 DEF files, records, history, bounds, TypedAct, TypedRest, TypedRecords, TypedActors,
       Typed, Control, Actor, Doing, NothingToRecover, RecoveryAdopts, RecoveryUndoes,
       UndoClaimed, UndoLink, UndoGeneration, UndoCurrent, UndoCommit, PrepareBegins, Backup,
       LinkStep, WriteGeneration, WritePrepared, WriteCommit, WriteCurrent, PrepareFails,
       StartOpens, HookCleans, Writes, Deleted, Exits
<1>24. ASSUME UNCHANGED vars PROVE TypedAct'
  BY <1>24 DEF vars, files, records, history, bounds, TypedAct, TypedRest, TypedRecords,
       TypedActors, Typed, Control, Actor, Doing
<1> QED
  BY <1>1, <1>2, <1>3, <1>4, <1>5, <1>6, <1>7, <1>8, <1>9, <1>10, <1>11, <1>12, <1>13, <1>14,
       <1>15, <1>16, <1>17, <1>18, <1>19, <1>20, <1>21, <1>22, <1>23, <1>24 DEF Next, Edit,
       Recovery, Undo, Prepare, StartSection, Hook, Environment

LEMMA SecTyped ==
  ASSUME Typed, Control, [Next]_vars
  PROVE  TypedSec'
<1>1. ASSUME NEW p \in Actors, Enter(p) PROVE TypedSec'
  BY <1>1 DEF Enter, NoSection, files, records, history, bounds, TypedAct, TypedSec,
       TypedActors, Typed, Control, Actor, Jobs, Stages
<1>2. ASSUME RecoveryThrows PROVE TypedSec'
  BY <1>2, NoSectionTyped DEF RecoveryThrows, Return, TypedSec
<1>3. ASSUME NothingToRecover PROVE TypedSec'
  BY <1>3 DEF NothingToRecover, Goto, records, history, bounds, TypedAct, TypedSec, TypedActors,
    Typed, Control, Actor, Jobs, Stages
<1>4. ASSUME RecoveryUndoes PROVE TypedSec'
  BY <1>4, UndoTyped DEF RecoveryUndoes
<1>5. ASSUME UndoClaimed PROVE TypedSec'
  BY <1>5, UndoTyped DEF UndoClaimed
<1>6. ASSUME UndoRefused PROVE TypedSec'
  BY <1>6, NoSectionTyped DEF UndoRefused, Return, TypedSec
<1>7. ASSUME UndoLink PROVE TypedSec'
  <2> DEFINE a == PlanArtifact(sec.k)
             c == PlanDest(sec.k)
             broken == sec.bad \/ (a \in Rec(journal.id).arts /\ journal.was[c][a] # 0
                          /\ backup[c][a] = 0 /\ file[PlanPlace(sec.k)][a] # journal.was[c][a])
  <2>1. broken \in BOOLEAN /\ sec.k - 1 \in Nat
    BY <1>7 DEF UndoLink, Typed, TypedActors, TypedSec
  <2>2. sec' = [sec EXCEPT !.k = @ - 1, !.bad = broken]
    BY <1>7 DEF UndoLink
  <2> HIDE DEF broken
  <2> QED
    BY <2>1, <2>2 DEF Typed, TypedActors, TypedSec
<1>8. ASSUME UndoBackups PROVE TypedSec'
  BY <1>8, NoSectionTyped DEF UndoBackups, Return, Goto, Typed, TypedActors, TypedSec, Stages
<1>9. ASSUME UndoGeneration PROVE TypedSec'
  BY <1>9 DEF UndoGeneration, Goto, files, history, bounds, TypedAct, TypedSec, TypedActors, Typed,
    Control, Actor, Jobs, Stages
<1>10. ASSUME UndoCurrent PROVE TypedSec'
  BY <1>10 DEF UndoCurrent, Goto, Restored, files, history, bounds, TypedAct, TypedSec, TypedActors,
    Typed, Control, Actor, Jobs, Stages
<1>11. ASSUME UndoCommit PROVE TypedSec'
  BY <1>11 DEF UndoCommit, Goto, files, history, bounds, TypedAct, TypedSec, TypedActors, Typed,
    Control, Actor, Jobs, Stages
<1>12. ASSUME UndoJournal PROVE TypedSec'
  BY <1>12, NoSectionTyped DEF UndoJournal, Return, Goto, Typed, TypedActors, TypedSec, Stages
<1>13. ASSUME PrepareRefused PROVE TypedSec'
  BY <1>13, NoSectionTyped DEF PrepareRefused, Return, TypedSec
<1>14. ASSUME PrepareBegins PROVE TypedSec'
  BY <1>14 DEF PrepareBegins, Goto, Preparable, files, history, bounds, TypedAct, TypedSec,
    TypedActors, Typed, Control, Actor, Jobs, Stages
<1>15. ASSUME Backup PROVE TypedSec'
  BY <1>15 DEF Backup, records, history, bounds, TypedAct, TypedSec, TypedActors, Typed, Control,
    Actor, Jobs, Stages
<1>16. ASSUME LinkStep PROVE TypedSec'
  BY <1>16 DEF LinkStep, Planned, records, history, bounds, TypedAct, TypedSec, TypedActors, Typed,
    Control, Actor, Jobs, Stages
<1>17. ASSUME WriteGeneration PROVE TypedSec'
  BY <1>17 DEF WriteGeneration, Goto, Planned, files, history, bounds, TypedAct, TypedSec,
    TypedActors, Typed, Control, Actor, Jobs, Stages
<1>18. ASSUME WritePrepared PROVE TypedSec'
  BY <1>18 DEF WritePrepared, Goto, Linked, files, history, bounds, TypedAct, TypedSec, TypedActors,
    Typed, Control, Actor, Jobs, Stages
<1>19. ASSUME WriteCommit PROVE TypedSec'
  BY <1>19 DEF WriteCommit, Goto, files, history, bounds, TypedAct, TypedSec, TypedActors, Typed,
    Control, Actor, Jobs, Stages
<1>20. ASSUME WriteCurrent PROVE TypedSec'
  BY <1>20 DEF WriteCurrent, Goto, files, history, bounds, TypedAct, TypedSec, TypedActors, Typed,
    Control, Actor, Jobs, Stages
<1>21. ASSUME WriteCommitted PROVE TypedSec'
  BY <1>21, NoSectionTyped DEF WriteCommitted, Goto, Typed, TypedActors, TypedSec, Stages
<1>22. ASSUME PrepareFails PROVE TypedSec'
  BY <1>22, UndoTyped DEF PrepareFails
<1>23. ASSUME Finalizes PROVE TypedSec'
  BY <1>23, NoSectionTyped DEF Finalizes, Return, TypedSec
<1>24. ASSUME StartUnmanaged PROVE TypedSec'
  BY <1>24, NoSectionTyped DEF StartUnmanaged, Return, TypedSec
<1>25. ASSUME StartRefused PROVE TypedSec'
  BY <1>25, NoSectionTyped DEF StartRefused, Return, TypedSec
<1>26. ASSUME StartOpens PROVE TypedSec'
  BY <1>26 DEF StartOpens, In, records, history, bounds, TypedAct, TypedSec, TypedActors, Typed,
    Control, Actor, Jobs, Stages
<1>27. ASSUME StartActivates PROVE TypedSec'
  BY <1>27, NoSectionTyped DEF StartActivates, Return, TypedSec
<1>28. ASSUME HookIgnored PROVE TypedSec'
  BY <1>28, NoSectionTyped DEF HookIgnored, Return, TypedSec
<1>29. ASSUME HookMismatched PROVE TypedSec'
  BY <1>29, NoSectionTyped DEF HookMismatched, Return, TypedSec
<1>30. ASSUME HookCleans PROVE TypedSec'
  BY <1>30 DEF HookCleans, In, records, history, bounds, TypedAct, TypedSec, TypedActors, Typed,
    Control, Actor, Jobs, Stages
<1>31. ASSUME HookConfirms PROVE TypedSec'
  BY <1>31, NoSectionTyped DEF HookConfirms, Return, TypedSec
<1>32. ASSUME WebDies PROVE TypedSec'
  BY <1>32, NoSectionTyped DEF WebDies, Typed, TypedActors, TypedSec
<1>33. ASSUME DaemonDies PROVE TypedSec'
  BY <1>33, NoSectionTyped DEF DaemonDies, Typed, TypedActors, TypedSec
<1>34. ASSUME 
            
      \/ (\E e \in Edits, p \in Profiles : EditBegins(e, p))
      \/ (\E e \in Edits : Retires(e))
      \/ (\E e \in Edits : Commits(e))
      \/ (\E e \in Edits : CommitRejected(e))
      \/ StartAsked
      \/ (\E p \in Actors : Spawns(p))
      \/ Exits
      \/ (\E a \in Artifacts : Writes(a))
      \/ (\E p \in Profiles, a \in Artifacts : Deleted(p, a))
      \/ RecoveryAdopts
            PROVE TypedSec'
  BY <1>34 DEF TypedSec, TypedActors, Typed, Control, Actor, Jobs, Stages, EditBegins, Retires,
    Commits, CommitRejected, StartAsked, Spawns, Exits, Writes, Deleted, RecoveryAdopts
<1>35. ASSUME UNCHANGED vars PROVE TypedSec'
  BY <1>35 DEF vars, files, records, history, bounds, TypedAct, TypedSec, TypedActors, Typed,
       Control, Actor, Jobs, Stages
<1> QED
  BY <1>1, <1>2, <1>3, <1>4, <1>5, <1>6, <1>7, <1>8, <1>9, <1>10, <1>11, <1>12, <1>13, <1>14,
       <1>15, <1>16, <1>17, <1>18, <1>19, <1>20, <1>21, <1>22, <1>23, <1>24, <1>25, <1>26,
       <1>27, <1>28, <1>29, <1>30, <1>31, <1>32, <1>33, <1>34, <1>35 DEF Next, Edit, Recovery,
       Undo, Prepare, StartSection, Hook, Environment

LEMMA RestTyped ==
  ASSUME Typed, Control, [Next]_vars
  PROVE  TypedRest'
<1>1. ASSUME NEW e \in Edits, NEW p \in Profiles, EditBegins(e, p) PROVE TypedRest'
  BY <1>1 DEF EditBegins, files, records, TypedAct, TypedRest, TypedActors, Typed, Actor
<1>2. ASSUME NEW e \in Edits, Retires(e) PROVE TypedRest'
  BY <1>2 DEF Retires, files, records, history, bounds, TypedAct, TypedRest, TypedActors, Typed,
       Actor
<1>3. ASSUME NEW e \in Edits, Commits(e) PROVE TypedRest'
  BY <1>3 DEF Commits, Typed, TypedActors, TypedAct, Actor, Actors, TypedRest, bounds
<1>4. ASSUME NEW e \in Edits, CommitRejected(e) PROVE TypedRest'
  BY <1>4 DEF CommitRejected, Unchanged, Fault, files, records, history, TypedAct, TypedRest,
    TypedActors, Typed, Actor
<1>5. ASSUME StartAsked PROVE TypedRest'
  BY <1>5 DEF StartAsked, NoActor, files, records, history, TypedAct, TypedRest, TypedActors, Typed,
    Actor
<1>6. ASSUME NEW p \in Actors, Spawns(p) PROVE TypedRest'
  BY <1>6 DEF Spawns, NoActor, files, records, history, bounds, TypedAct, TypedRest,
       TypedActors, Typed, Actor
<1>7. ASSUME UndoRefused PROVE TypedRest'
  BY <1>7, LeavesSteps DEF UndoRefused, In, MayUndo, files, records, bounds, Leaves, NoSection,
    TypedAct, TypedRest, TypedActors, Typed, Actor
<1>8. ASSUME UndoBackups PROVE TypedRest'
  BY <1>8, LeavesSteps DEF UndoBackups, Goto, records, bounds, Leaves, NoSection, TypedAct,
    TypedRest, TypedActors, Typed, Actor
<1>9. ASSUME PrepareFails PROVE TypedRest'
  BY <1>9 DEF PrepareFails, ToUndo, Fault, files, records, history, TypedAct, TypedRest,
    TypedActors, Typed, Actor
<1>10. ASSUME StartUnmanaged PROVE TypedRest'
  BY <1>10, StartsSteps DEF StartUnmanaged, In, Races, files, records, bounds, Granted, NoSection,
    TypedAct, TypedRest, TypedActors, Typed, Actor
<1>11. ASSUME StartActivates PROVE TypedRest'
  BY <1>11, StartsSteps DEF StartActivates, In, Races, files, bounds, Granted, NoSection, TypedAct,
    TypedRest, TypedActors, Typed, Actor
<1>12. ASSUME HookMismatched PROVE TypedRest'
  BY <1>12, LeavesSteps DEF HookMismatched, In, Fault, files, history, Leaves, NoSection, TypedAct,
    TypedRest, TypedActors, Typed, Actor
<1>13. ASSUME NEW a \in Artifacts, Writes(a) PROVE TypedRest'
  BY <1>13 DEF Writes, records, bounds, TypedAct, TypedRest, TypedActors, Typed, Actor
<1>14. ASSUME NEW p \in Profiles, NEW a \in Artifacts, Deleted(p, a) PROVE TypedRest'
  BY <1>14 DEF Deleted, Fault, records, history, TypedAct, TypedRest, TypedActors, Typed, Actor
<1>15. ASSUME Exits PROVE TypedRest'
  BY <1>15 DEF Exits, files, records, history, bounds, TypedAct, TypedRest, TypedActors, Typed,
       Actor
<1>16. ASSUME WebDies PROVE TypedRest'
  <2>1. torn' \in BOOLEAN /\ abandoned' \in BOOLEAN
    BY <1>16 DEF WebDies, Cut, Typed, TypedActors, TypedRest
  <2> QED
    BY <1>16, <2>1 DEF WebDies, Fault, Typed, TypedActors, TypedRest
<1>17. ASSUME DaemonDies PROVE TypedRest'
  <2>1. torn' \in BOOLEAN
    BY <1>17 DEF DaemonDies, Cut, Typed, TypedActors, TypedRest
  <2> QED
    BY <1>17, <2>1 DEF DaemonDies, Fault, Typed, TypedActors, TypedRest
<1>18. ASSUME 
            
      \/ (\E p \in Actors : Enter(p))
      \/ RecoveryThrows
      \/ NothingToRecover
      \/ RecoveryAdopts
      \/ RecoveryUndoes
      \/ UndoClaimed
      \/ UndoLink
      \/ UndoGeneration
      \/ UndoCurrent
      \/ UndoCommit
      \/ UndoJournal
      \/ PrepareRefused
      \/ PrepareBegins
      \/ Backup
      \/ LinkStep
      \/ WriteGeneration
      \/ WritePrepared
      \/ WriteCommit
      \/ WriteCurrent
      \/ WriteCommitted
      \/ Finalizes
      \/ StartRefused
      \/ StartOpens
      \/ HookIgnored
      \/ HookCleans
      \/ HookConfirms
            PROVE TypedRest'
  BY <1>18 DEF files, records, history, bounds, TypedAct, TypedRest, TypedActors, Typed, Actor,
       Enter, RecoveryThrows, NothingToRecover, RecoveryAdopts, RecoveryUndoes, UndoClaimed,
       UndoLink, UndoGeneration, UndoCurrent, UndoCommit, UndoJournal, PrepareRefused,
       PrepareBegins, Backup, LinkStep, WriteGeneration, WritePrepared, WriteCommit,
       WriteCurrent, WriteCommitted, Finalizes, StartRefused, StartOpens, HookIgnored,
       HookCleans, HookConfirms
<1>19. ASSUME UNCHANGED vars PROVE TypedRest'
  BY <1>19 DEF vars, files, records, history, bounds, TypedAct, TypedRest, TypedActors, Typed,
       Actor
<1> QED
  BY <1>1, <1>2, <1>3, <1>4, <1>5, <1>6, <1>7, <1>8, <1>9, <1>10, <1>11, <1>12, <1>13, <1>14,
       <1>15, <1>16, <1>17, <1>18, <1>19 DEF Next, Edit, Recovery, Undo, Prepare, StartSection,
       Hook, Environment

LEMMA TypedStep ==
  ASSUME Typed, Control, [Next]_vars
  PROVE  Typed'
BY FilesTyped, RecordsTyped, ActTyped, SecTyped, RestTyped DEF Typed, TypedActors

LEMMA LeavesShaped ==
  ASSUME Leaves
  PROVE  Shaped'
BY NoSectionTyped, HandoffAssumption DEF Leaves, Shaped, Laying, Undoing, Actors

LEMMA ShapedStep ==
  ASSUME Typed, Control, [Next]_vars
  PROVE  Shaped'
<1>1. ASSUME NEW p \in Actors, Enter(p) PROVE Shaped'
  BY <1>1, NoSectionTyped, HandoffAssumption DEF Enter, NoSection, files, records, history, bounds,
    Typed, TypedActors, TypedAct, TypedSec, TypedRest, Actor, Actors, Control, Shaped, Roles, Jobs,
    Laying, Undoing
<1>2. ASSUME RecoveryThrows PROVE Shaped'
  BY <1>2, LeavesSteps, LeavesShaped DEF Control
<1>3. ASSUME NothingToRecover PROVE Shaped'
  BY <1>3, NoSectionTyped, HandoffAssumption DEF NothingToRecover, Goto, records, history, bounds,
    Typed, TypedActors, TypedAct, TypedSec, TypedRest, Actor, Actors, Control, Shaped, Roles, Jobs,
    Laying, Undoing
<1>4. ASSUME RecoveryUndoes PROVE Shaped'
  BY <1>4, NoSectionTyped, HandoffAssumption DEF RecoveryUndoes, ToUndo, files, records, history,
    bounds, Typed, TypedActors, TypedAct, TypedSec, TypedRest, Actor, Actors, Control, Shaped,
    Roles, Jobs, Laying, Undoing
<1>5. ASSUME UndoClaimed PROVE Shaped'
  BY <1>5, NoSectionTyped, HandoffAssumption DEF UndoClaimed, ToUndo, In, MayUndo, files,
       records, history, bounds, Typed, TypedActors, TypedAct, TypedSec, TypedRest, Actor,
       Actors, Control, Shaped, Roles, Jobs, Laying, Undoing
<1>6. ASSUME UndoRefused PROVE Shaped'
  BY <1>6, LeavesSteps, LeavesShaped DEF Control
<1>7. ASSUME UndoLink PROVE Shaped'
  BY <1>7, NoSectionTyped, HandoffAssumption DEF UndoLink, records, history, bounds, Typed,
    TypedActors, TypedAct, TypedSec, TypedRest, Actor, Actors, Control, Shaped, Roles, Jobs, Laying,
    Undoing
<1>8. ASSUME UndoBackups PROVE Shaped'
  <2>1. CASE sec.bad
    BY <1>8, <2>1, LeavesSteps, LeavesShaped DEF Control
  <2>2. CASE ~sec.bad
    BY <1>8, <2>2, NoSectionTyped DEF UndoBackups, Goto, Typed, TypedActors, TypedAct, TypedSec,
      TypedRest, Actor, Actors, Control, Shaped, Roles, Jobs, Laying, Undoing, records, bounds
  <2> QED
    BY <2>1, <2>2
<1>9. ASSUME UndoGeneration PROVE Shaped'
  BY <1>9, NoSectionTyped, HandoffAssumption DEF UndoGeneration, Goto, files, history, bounds,
    Typed, TypedActors, TypedAct, TypedSec, TypedRest, Actor, Actors, Control, Shaped, Roles, Jobs,
    Laying, Undoing
<1>10. ASSUME UndoCurrent PROVE Shaped'
  BY <1>10, NoSectionTyped, HandoffAssumption DEF UndoCurrent, Goto, Restored, files, history,
    bounds, Typed, TypedActors, TypedAct, TypedSec, TypedRest, Actor, Actors, Control, Shaped,
    Roles, Jobs, Laying, Undoing
<1>11. ASSUME UndoCommit PROVE Shaped'
  BY <1>11, NoSectionTyped, HandoffAssumption DEF UndoCommit, Goto, files, history, bounds, Typed,
    TypedActors, TypedAct, TypedSec, TypedRest, Actor, Actors, Control, Shaped, Roles, Jobs, Laying,
    Undoing
<1>12. ASSUME UndoJournal PROVE Shaped'
  <2>1. CASE sec.why # "recover"
    BY <1>12, <2>1, LeavesSteps, LeavesShaped DEF Control
  <2>2. CASE sec.why = "recover"
    BY <1>12, <2>2, NoSectionTyped DEF UndoJournal, Goto, Typed, TypedActors, TypedAct, TypedSec,
      TypedRest, Actor, Actors, Control, Shaped, Roles, Jobs, Laying, Undoing, files, history,
      bounds
  <2> QED
    BY <2>1, <2>2
<1>13. ASSUME PrepareRefused PROVE Shaped'
  BY <1>13, LeavesSteps, LeavesShaped DEF Control
<1>14. ASSUME PrepareBegins PROVE Shaped'
  BY <1>14, NoSectionTyped, HandoffAssumption DEF PrepareBegins, Goto, Preparable, files, history,
    bounds, Typed, TypedActors, TypedAct, TypedSec, TypedRest, Actor, Actors, Control, Shaped,
    Roles, Jobs, Laying, Undoing
<1>15. ASSUME Backup PROVE Shaped'
  BY <1>15, NoSectionTyped, HandoffAssumption DEF Backup, records, history, bounds, Typed,
    TypedActors, TypedAct, TypedSec, TypedRest, Actor, Actors, Control, Shaped, Roles, Jobs, Laying,
    Undoing
<1>16. ASSUME LinkStep PROVE Shaped'
  BY <1>16, NoSectionTyped, HandoffAssumption DEF LinkStep, Planned, records, history, bounds,
    Typed, TypedActors, TypedAct, TypedSec, TypedRest, Actor, Actors, Control, Shaped, Roles, Jobs,
    Laying, Undoing
<1>17. ASSUME WriteGeneration PROVE Shaped'
  BY <1>17, NoSectionTyped, HandoffAssumption DEF WriteGeneration, Goto, Planned, files, history,
    bounds, Typed, TypedActors, TypedAct, TypedSec, TypedRest, Actor, Actors, Control, Shaped,
    Roles, Jobs, Laying, Undoing
<1>18. ASSUME WritePrepared PROVE Shaped'
  BY <1>18, NoSectionTyped, HandoffAssumption DEF WritePrepared, Goto, Linked, files, history,
    bounds, Typed, TypedActors, TypedAct, TypedSec, TypedRest, Actor, Actors, Control, Shaped,
    Roles, Jobs, Laying, Undoing
<1>19. ASSUME WriteCommit PROVE Shaped'
  BY <1>19, NoSectionTyped, HandoffAssumption DEF WriteCommit, Goto, files, history, bounds, Typed,
    TypedActors, TypedAct, TypedSec, TypedRest, Actor, Actors, Control, Shaped, Roles, Jobs, Laying,
    Undoing
<1>20. ASSUME WriteCurrent PROVE Shaped'
  BY <1>20, NoSectionTyped, HandoffAssumption DEF WriteCurrent, Goto, files, history, bounds, Typed,
    TypedActors, TypedAct, TypedSec, TypedRest, Actor, Actors, Control, Shaped, Roles, Jobs, Laying,
    Undoing
<1>21. ASSUME WriteCommitted PROVE Shaped'
  BY <1>21, PreparesStep, NoSectionTyped, HandoffAssumption, ZenonT(60) DEF WriteCommitted, Goto, history,
    bounds, Granted, NoSection, Typed, TypedActors, TypedAct, TypedSec, TypedRest, Actor, Actors,
    Control, Shaped, Roles, Jobs, Laying, Undoing
<1>22. ASSUME PrepareFails PROVE Shaped'
  BY <1>22, NoSectionTyped, HandoffAssumption DEF PrepareFails, ToUndo, Fault, files, records,
    history, Typed, TypedActors, TypedAct, TypedSec, TypedRest, Actor, Actors, Control, Shaped,
    Roles, Jobs, Laying, Undoing
<1>23. ASSUME Finalizes PROVE Shaped'
  BY <1>23, LeavesSteps, LeavesShaped DEF Control
<1>24. ASSUME StartUnmanaged PROVE Shaped'
  BY <1>24, StartsSteps, NoSectionTyped, HandoffAssumption DEF bounds, Granted, NoSection, Typed,
    TypedActors, TypedAct, TypedSec, TypedRest, Actor, Actors, Control, Shaped, Roles, Jobs, Laying,
    Undoing
<1>25. ASSUME StartRefused PROVE Shaped'
  BY <1>25, LeavesSteps, LeavesShaped DEF Control
<1>26. ASSUME StartOpens PROVE Shaped'
  BY <1>26, NoSectionTyped, HandoffAssumption DEF StartOpens, In, records, history, bounds, Typed,
    TypedActors, TypedAct, TypedSec, TypedRest, Actor, Actors, Control, Shaped, Roles, Jobs, Laying,
    Undoing
<1>27. ASSUME StartActivates PROVE Shaped'
  BY <1>27, StartsSteps, NoSectionTyped, HandoffAssumption DEF Granted, NoSection, Typed,
    TypedActors, TypedAct, TypedSec, TypedRest, Actor, Actors, Control, Shaped, Roles, Jobs, Laying,
    Undoing
<1>28. ASSUME HookIgnored PROVE Shaped'
  BY <1>28, LeavesSteps, LeavesShaped DEF Control
<1>29. ASSUME HookMismatched PROVE Shaped'
  BY <1>29, LeavesSteps, LeavesShaped DEF Control
<1>30. ASSUME HookCleans PROVE Shaped'
  BY <1>30, NoSectionTyped, HandoffAssumption DEF HookCleans, In, records, history, bounds, Typed,
    TypedActors, TypedAct, TypedSec, TypedRest, Actor, Actors, Control, Shaped, Roles, Jobs, Laying,
    Undoing
<1>31. ASSUME HookConfirms PROVE Shaped'
  BY <1>31, LeavesSteps, LeavesShaped DEF Control
<1>32. ASSUME WebDies PROVE Shaped'
  BY <1>32, NoSectionTyped, HandoffAssumption DEF WebDies, NoActor, NoSection, Fault, Cut, files,
    records, Typed, TypedActors, TypedAct, TypedSec, TypedRest, Actor, Actors, Control, Shaped,
    Roles, Jobs, Laying, Undoing
<1>33. ASSUME DaemonDies PROVE Shaped'
  BY <1>33, NoSectionTyped, HandoffAssumption DEF DaemonDies, NoActor, NoSection, Fault, Cut, files,
    records, Typed, TypedActors, TypedAct, TypedSec, TypedRest, Actor, Actors, Control, Shaped,
    Roles, Jobs, Laying, Undoing
<1>34. ASSUME 
            
      \/ (\E e \in Edits, p \in Profiles : EditBegins(e, p))
      \/ (\E e \in Edits : Retires(e))
      \/ (\E e \in Edits : Commits(e))
      \/ (\E e \in Edits : CommitRejected(e))
      \/ StartAsked
      \/ (\E p \in Actors : Spawns(p))
      \/ Exits
      \/ (\E a \in Artifacts : Writes(a))
      \/ (\E p \in Profiles, a \in Artifacts : Deleted(p, a))
      \/ RecoveryAdopts
            PROVE Shaped'
  BY <1>34 DEF TypedAct, TypedSec, TypedRest, Actor, Actors, Control, Shaped, Roles, Jobs, Laying,
    Undoing, EditBegins, Retires, Commits, CommitRejected, StartAsked, Spawns, Exits, Writes,
    Deleted, RecoveryAdopts
<1>35. ASSUME UNCHANGED vars PROVE Shaped'
  BY <1>35 DEF vars, files, records, history, bounds, Typed, TypedActors, TypedAct, TypedSec,
    TypedRest, Actor, Actors, Control, Shaped, Roles, Jobs, Laying, Undoing, files, records,
    history, bounds
<1> QED
  BY <1>1, <1>2, <1>3, <1>4, <1>5, <1>6, <1>7, <1>8, <1>9, <1>10, <1>11, <1>12, <1>13, <1>14,
       <1>15, <1>16, <1>17, <1>18, <1>19, <1>20, <1>21, <1>22, <1>23, <1>24, <1>25, <1>26,
       <1>27, <1>28, <1>29, <1>30, <1>31, <1>32, <1>33, <1>34, <1>35 DEF Next, Edit, Recovery,
       Undo, Prepare, StartSection, Hook, Environment

LEMMA LeavesHeld ==
  ASSUME Typed, Control, sec.at # "free", Leaves
  PROVE  Held'
<1>1. \A p \in Actors \ {sec.by} : act'[p] = act[p]
  BY DEF Leaves, Typed, TypedActors, TypedAct
<1>2. sec.by \in Actors /\ act'[sec.by].at \notin {"busy", "starting"}
  BY HolderTyped DEF Leaves, Control
<1>3. \A p \in Actors : act'[p].at \notin {"busy", "starting"}
  BY <1>1, <1>2 DEF Control, Held
<1> QED
  BY <1>3, NoSectionTyped DEF Leaves, Held

LEMMA PreparesHeld ==
  ASSUME Typed, Control, WriteCommitted, sec.job = "prepare"
  PROVE  Held'
<1>1. sec.by \in Actors
  BY HolderTyped DEF Control, WriteCommitted
<1>2. \A p \in Actors \ {sec.by} : act'[p] = act[p]
  BY PreparesStep DEF Granted, Typed, TypedActors, TypedAct, Control
<1>3. act'[sec.by].at = "commit"
  BY <1>1, PreparesStep, ZenonT(60) DEF Granted, Typed, TypedActors, TypedAct, Control, Actor
<1>4. \A p \in Actors : act'[p].at \notin {"busy", "starting"}
  BY <1>2, <1>3 DEF Control, Held
<1> QED
  BY <1>4, NoSectionTyped, PreparesStep DEF Granted, Held, Control

LEMMA HeldStep ==
  ASSUME Typed, Control, [Next]_vars
  PROVE  Held'
<1>1. ASSUME NEW e \in Edits, NEW p \in Profiles, EditBegins(e, p) PROVE Held'
  BY <1>1, NoSectionTyped, NoActorTyped, HandoffAssumption DEF EditBegins, files, records, Typed,
    TypedActors, TypedAct, TypedSec, TypedRest, Actor, Actors, Control, Shaped, Held, Roles, Jobs,
    InDaemon
<1>2. ASSUME NEW e \in Edits, Retires(e) PROVE Held'
  BY <1>2, NoSectionTyped, NoActorTyped, HandoffAssumption DEF Retires, files, records, history,
    bounds, Typed, TypedActors, TypedAct, TypedSec, TypedRest, Actor, Actors, Control, Shaped, Held,
    Roles, Jobs
<1>3. ASSUME NEW e \in Edits, Commits(e) PROVE Held'
  BY <1>3, NoSectionTyped, NoActorTyped, HandoffAssumption DEF Commits, Unchanged, files, records,
    bounds, Typed, TypedActors, TypedAct, TypedSec, TypedRest, Actor, Actors, Control, Shaped, Held,
    Roles, Jobs
<1>4. ASSUME NEW e \in Edits, CommitRejected(e) PROVE Held'
  BY <1>4, NoSectionTyped, NoActorTyped, HandoffAssumption DEF CommitRejected, Unchanged, Fault,
    files, records, history, Typed, TypedActors, TypedAct, TypedSec, TypedRest, Actor, Actors,
    Control, Shaped, Held, Roles, Jobs
<1>5. ASSUME StartAsked PROVE Held'
  BY <1>5, NoSectionTyped, NoActorTyped, HandoffAssumption DEF StartAsked, NoActor, files, records,
    history, Typed, TypedActors, TypedAct, TypedSec, TypedRest, Actor, Actors, Control, Shaped,
    Held, Roles, Jobs
<1>6. ASSUME NEW p \in Actors, Spawns(p) PROVE Held'
  BY <1>6, NoSectionTyped, NoActorTyped, HandoffAssumption DEF Spawns, NoActor, files, records,
    history, bounds, Typed, TypedActors, TypedAct, TypedSec, TypedRest, Actor, Actors, Control,
    Shaped, Held, Roles, Jobs
<1>7. ASSUME NEW p \in Actors, Enter(p) PROVE Held'
  BY <1>7, NoSectionTyped, NoActorTyped, HandoffAssumption DEF Enter, NoSection, files, records,
    history, bounds, Typed, TypedActors, TypedAct, TypedSec, TypedRest, Actor, Actors, Control,
    Shaped, Held, Roles, Jobs
<1>8. ASSUME RecoveryThrows PROVE Held'
  BY <1>8, LeavesSteps, LeavesHeld DEF Control
<1>9. ASSUME NothingToRecover PROVE Held'
  BY <1>9, NoSectionTyped, NoActorTyped, HandoffAssumption DEF NothingToRecover, Goto, records,
    history, bounds, Typed, TypedActors, TypedAct, TypedSec, TypedRest, Actor, Actors, Control,
    Shaped, Held, Roles, Jobs
<1>10. ASSUME RecoveryUndoes PROVE Held'
  BY <1>10, NoSectionTyped, NoActorTyped, HandoffAssumption DEF RecoveryUndoes, ToUndo, files,
    records, history, bounds, Typed, TypedActors, TypedAct, TypedSec, TypedRest, Actor, Actors,
    Control, Shaped, Held, Roles, Jobs
<1>11. ASSUME UndoClaimed PROVE Held'
  BY <1>11, NoSectionTyped, NoActorTyped, HandoffAssumption DEF UndoClaimed, ToUndo, In, MayUndo,
    files, records, history, bounds, Typed, TypedActors, TypedAct, TypedSec, TypedRest, Actor,
    Actors, Control, Shaped, Held, Roles, Jobs
<1>12. ASSUME UndoRefused PROVE Held'
  BY <1>12, LeavesSteps, LeavesHeld DEF Control
<1>13. ASSUME UndoLink PROVE Held'
  BY <1>13, NoSectionTyped, NoActorTyped, HandoffAssumption DEF UndoLink, records, history, bounds,
    Typed, TypedActors, TypedAct, TypedSec, TypedRest, Actor, Actors, Control, Shaped, Held, Roles,
    Jobs
<1>14. ASSUME UndoBackups PROVE Held'
  <2>1. CASE sec.bad
    BY <1>14, <2>1, LeavesSteps, LeavesHeld DEF Control
  <2>2. CASE ~sec.bad
    BY <1>14, <2>2, NoSectionTyped DEF UndoBackups, Goto, Typed, TypedActors, TypedAct, TypedSec,
      TypedRest, Actor, Actors, Control, Shaped, Held, Roles, Jobs, records, bounds
  <2> QED
    BY <2>1, <2>2
<1>15. ASSUME UndoGeneration PROVE Held'
  BY <1>15, NoSectionTyped, NoActorTyped, HandoffAssumption DEF UndoGeneration, Goto, files,
    history, bounds, Typed, TypedActors, TypedAct, TypedSec, TypedRest, Actor, Actors, Control,
    Shaped, Held, Roles, Jobs
<1>16. ASSUME UndoCurrent PROVE Held'
  BY <1>16, NoSectionTyped, NoActorTyped, HandoffAssumption DEF UndoCurrent, Goto, Restored, files,
    history, bounds, Typed, TypedActors, TypedAct, TypedSec, TypedRest, Actor, Actors, Control,
    Shaped, Held, Roles, Jobs
<1>17. ASSUME UndoCommit PROVE Held'
  BY <1>17, NoSectionTyped, NoActorTyped, HandoffAssumption DEF UndoCommit, Goto, files, history,
    bounds, Typed, TypedActors, TypedAct, TypedSec, TypedRest, Actor, Actors, Control, Shaped, Held,
    Roles, Jobs
<1>18. ASSUME UndoJournal PROVE Held'
  <2>1. CASE sec.why # "recover"
    BY <1>18, <2>1, LeavesSteps, LeavesHeld DEF Control
  <2>2. CASE sec.why = "recover"
    BY <1>18, <2>2, NoSectionTyped DEF UndoJournal, Goto, Typed, TypedActors, TypedAct, TypedSec,
      TypedRest, Actor, Actors, Control, Shaped, Held, Roles, Jobs, files, history, bounds
  <2> QED
    BY <2>1, <2>2
<1>19. ASSUME PrepareRefused PROVE Held'
  BY <1>19, LeavesSteps, LeavesHeld DEF Control
<1>20. ASSUME PrepareBegins PROVE Held'
  BY <1>20, NoSectionTyped, NoActorTyped, HandoffAssumption DEF PrepareBegins, Goto, Preparable,
    files, history, bounds, Typed, TypedActors, TypedAct, TypedSec, TypedRest, Actor, Actors,
    Control, Shaped, Held, Roles, Jobs
<1>21. ASSUME Backup PROVE Held'
  BY <1>21, NoSectionTyped, NoActorTyped, HandoffAssumption DEF Backup, records, history, bounds,
    Typed, TypedActors, TypedAct, TypedSec, TypedRest, Actor, Actors, Control, Shaped, Held, Roles,
    Jobs
<1>22. ASSUME LinkStep PROVE Held'
  BY <1>22, NoSectionTyped, NoActorTyped, HandoffAssumption DEF LinkStep, Planned, records, history,
    bounds, Typed, TypedActors, TypedAct, TypedSec, TypedRest, Actor, Actors, Control, Shaped, Held,
    Roles, Jobs
<1>23. ASSUME WriteGeneration PROVE Held'
  BY <1>23, NoSectionTyped, NoActorTyped, HandoffAssumption DEF WriteGeneration, Goto, Planned,
    files, history, bounds, Typed, TypedActors, TypedAct, TypedSec, TypedRest, Actor, Actors,
    Control, Shaped, Held, Roles, Jobs
<1>24. ASSUME WritePrepared PROVE Held'
  BY <1>24, NoSectionTyped, NoActorTyped, HandoffAssumption DEF WritePrepared, Goto, Linked, files,
    history, bounds, Typed, TypedActors, TypedAct, TypedSec, TypedRest, Actor, Actors, Control,
    Shaped, Held, Roles, Jobs
<1>25. ASSUME WriteCommit PROVE Held'
  BY <1>25, NoSectionTyped, NoActorTyped, HandoffAssumption DEF WriteCommit, Goto, files, history,
    bounds, Typed, TypedActors, TypedAct, TypedSec, TypedRest, Actor, Actors, Control, Shaped, Held,
    Roles, Jobs
<1>26. ASSUME WriteCurrent PROVE Held'
  BY <1>26, NoSectionTyped, NoActorTyped, HandoffAssumption DEF WriteCurrent, Goto, files, history,
    bounds, Typed, TypedActors, TypedAct, TypedSec, TypedRest, Actor, Actors, Control, Shaped, Held,
    Roles, Jobs
<1>27. ASSUME WriteCommitted PROVE Held'
  <2>1. CASE sec.job = "prepare"
    BY <1>27, <2>1, PreparesHeld
  <2>2. CASE sec.job # "prepare"
    BY <1>27, <2>2, NoSectionTyped DEF WriteCommitted, Goto, Typed, TypedActors, TypedAct, TypedSec,
      TypedRest, Actor, Actors, Control, Shaped, Held, Roles, Jobs, history, bounds
  <2> QED
    BY <2>1, <2>2
<1>28. ASSUME PrepareFails PROVE Held'
  BY <1>28, NoSectionTyped, NoActorTyped, HandoffAssumption DEF PrepareFails, ToUndo, Fault, files,
    records, history, Typed, TypedActors, TypedAct, TypedSec, TypedRest, Actor, Actors, Control,
    Shaped, Held, Roles, Jobs
<1>29. ASSUME Finalizes PROVE Held'
  BY <1>29, LeavesSteps, LeavesHeld DEF Control
<1>30. ASSUME StartUnmanaged PROVE Held'
  BY <1>30, StartsSteps, NoSectionTyped, NoActorTyped, HandoffAssumption DEF bounds, Granted,
    NoSection, Typed, TypedActors, TypedAct, TypedSec, TypedRest, Actor, Actors, Control, Shaped,
    Held, Roles, Jobs
<1>31. ASSUME StartRefused PROVE Held'
  BY <1>31, LeavesSteps, LeavesHeld DEF Control
<1>32. ASSUME StartOpens PROVE Held'
  BY <1>32, NoSectionTyped, NoActorTyped, HandoffAssumption DEF StartOpens, In, records, history,
    bounds, Typed, TypedActors, TypedAct, TypedSec, TypedRest, Actor, Actors, Control, Shaped, Held,
    Roles, Jobs
<1>33. ASSUME StartActivates PROVE Held'
  BY <1>33, StartsSteps, NoSectionTyped, NoActorTyped, HandoffAssumption DEF bounds, Granted,
    NoSection, Typed, TypedActors, TypedAct, TypedSec, TypedRest, Actor, Actors, Control, Shaped,
    Held, Roles, Jobs
<1>34. ASSUME HookIgnored PROVE Held'
  BY <1>34, LeavesSteps, LeavesHeld DEF Control
<1>35. ASSUME HookMismatched PROVE Held'
  BY <1>35, LeavesSteps, LeavesHeld DEF Control
<1>36. ASSUME HookCleans PROVE Held'
  BY <1>36, NoSectionTyped, NoActorTyped, HandoffAssumption DEF HookCleans, In, records, history,
    bounds, Typed, TypedActors, TypedAct, TypedSec, TypedRest, Actor, Actors, Control, Shaped, Held,
    Roles, Jobs
<1>37. ASSUME HookConfirms PROVE Held'
  BY <1>37, LeavesSteps, LeavesHeld DEF Control
<1>38. ASSUME WebDies PROVE Held'
  BY <1>38, NoSectionTyped, NoActorTyped, HandoffAssumption DEF WebDies, NoActor, NoSection, Fault,
    Cut, files, records, Typed, TypedActors, TypedAct, TypedSec, TypedRest, Actor, Actors, Control,
    Shaped, Held, Roles, Jobs, InDaemon
<1>39. ASSUME DaemonDies PROVE Held'
  BY <1>39, NoSectionTyped, NoActorTyped, HandoffAssumption DEF DaemonDies, NoActor, NoSection,
    Fault, Cut, files, records, Typed, TypedActors, TypedAct, TypedSec, TypedRest, Actor, Actors,
    Control, Shaped, Held, Roles, Jobs, InDaemon
<1>40. ASSUME 
            
      \/ RecoveryAdopts
      \/ Exits
      \/ (\E a \in Artifacts : Writes(a))
      \/ (\E p \in Profiles, a \in Artifacts : Deleted(p, a))
            PROVE Held'
  BY <1>40 DEF TypedActors, TypedAct, TypedSec, TypedRest, Actor, Actors, Control, Shaped, Held,
    Roles, Jobs, RecoveryAdopts, Exits, Writes, Deleted
<1>41. ASSUME UNCHANGED vars PROVE Held'
  BY <1>41 DEF vars, files, records, history, bounds, Typed, TypedActors, TypedAct, TypedSec,
    TypedRest, Actor, Actors, Control, Shaped, Held, Roles, Jobs, files, records, history, bounds
<1> QED
  BY <1>1, <1>2, <1>3, <1>4, <1>5, <1>6, <1>7, <1>8, <1>9, <1>10, <1>11, <1>12, <1>13, <1>14,
       <1>15, <1>16, <1>17, <1>18, <1>19, <1>20, <1>21, <1>22, <1>23, <1>24, <1>25, <1>26,
       <1>27, <1>28, <1>29, <1>30, <1>31, <1>32, <1>33, <1>34, <1>35, <1>36, <1>37, <1>38,
       <1>39, <1>40, <1>41 DEF Next, Edit, Recovery, Undo, Prepare, StartSection, Hook,
       Environment

LEMMA LeavesRoles ==
  ASSUME Typed, Control, sec.at # "free", Leaves
  PROVE  Roles'
<1>1. \A p \in Actors \ {sec.by} : act'[p] = act[p]
  BY DEF Leaves, Typed, TypedActors, TypedAct
<1>2. sec.by \in Actors
  BY HolderTyped DEF Control
<1>3. sec.by \in Edits \/ act'[sec.by].at # "start"
  BY <1>2 DEF Leaves, Control, Shaped
<1>4. CASE act'[sec.by] = act[sec.by]
  BY <1>1, <1>4 DEF Control, Roles, Moving, Actors
<1>5. CASE act'[sec.by].at \in {"idle", "start"} /\ act'[sec.by].src = act'[sec.by].tgt
  BY <1>1, <1>2, <1>3, <1>5, HandoffAssumption DEF Control, Roles, Moving, Actors
<1> QED
  BY <1>4, <1>5 DEF Leaves

LEMMA PreparesRoles ==
  ASSUME Typed, Control, WriteCommitted, sec.job = "prepare"
  PROVE  Roles'
<1>1. sec.by \in Edits /\ sec.by \in Actors
  BY HolderTyped DEF Control, WriteCommitted, Shaped
<1>2. \A p \in Actors \ {sec.by} : act'[p] = act[p]
  BY PreparesStep DEF Granted, Typed, TypedActors, TypedAct, Control
<1>3. act'[sec.by].at = "commit" /\ act'[sec.by].src = act[sec.by].src
      /\ act'[sec.by].tgt = act[sec.by].tgt
  BY <1>1, PreparesStep, ZenonT(60) DEF Granted, Typed, TypedActors, TypedAct, Control, Actor
<1>4. act[sec.by].src # act[sec.by].tgt
  BY <1>1, HandoffAssumption DEF Control, Held, WriteCommitted, Roles, Moving
<1> QED
  BY <1>1, <1>2, <1>3, <1>4, HandoffAssumption DEF Control, Roles, Moving, Actors

LEMMA RolesStep ==
  ASSUME Typed, Control, [Next]_vars
  PROVE  Roles'
<1>1. ASSUME NEW e \in Edits, NEW p \in Profiles, EditBegins(e, p) PROVE Roles'
  BY <1>1, NoSectionTyped, NoActorTyped, HandoffAssumption DEF EditBegins, files, records, Typed,
    TypedActors, TypedAct, TypedSec, TypedRest, Actor, Actors, Control, Shaped, Held, Roles, Jobs,
    InDaemon, Moving
<1>2. ASSUME NEW e \in Edits, Retires(e) PROVE Roles'
  BY <1>2, NoSectionTyped, NoActorTyped, HandoffAssumption DEF Retires, files, records, history,
    bounds, Typed, TypedActors, TypedAct, TypedSec, TypedRest, Actor, Actors, Control, Shaped, Held,
    Roles, Jobs, Moving
<1>3. ASSUME NEW e \in Edits, Commits(e) PROVE Roles'
  BY <1>3, NoSectionTyped, NoActorTyped, HandoffAssumption DEF Commits, Unchanged, files, records,
    bounds, Typed, TypedActors, TypedAct, TypedSec, TypedRest, Actor, Actors, Control, Shaped, Held,
    Roles, Jobs, Moving
<1>4. ASSUME NEW e \in Edits, CommitRejected(e) PROVE Roles'
  BY <1>4, NoSectionTyped, NoActorTyped, HandoffAssumption DEF CommitRejected, Unchanged, Fault,
    files, records, history, Typed, TypedActors, TypedAct, TypedSec, TypedRest, Actor, Actors,
    Control, Shaped, Held, Roles, Jobs, Moving
<1>5. ASSUME StartAsked PROVE Roles'
  BY <1>5, NoSectionTyped, NoActorTyped, HandoffAssumption DEF StartAsked, NoActor, files, records,
    history, Typed, TypedActors, TypedAct, TypedSec, TypedRest, Actor, Actors, Control, Shaped,
    Held, Roles, Jobs, Moving
<1>6. ASSUME NEW p \in Actors, Spawns(p) PROVE Roles'
  BY <1>6, NoSectionTyped, NoActorTyped, HandoffAssumption DEF Spawns, NoActor, files, records,
    history, bounds, Typed, TypedActors, TypedAct, TypedSec, TypedRest, Actor, Actors, Control,
    Shaped, Held, Roles, Jobs, Moving
<1>7. ASSUME NEW p \in Actors, Enter(p) PROVE Roles'
  BY <1>7, NoSectionTyped, NoActorTyped, HandoffAssumption DEF Enter, NoSection, files, records,
    history, bounds, Typed, TypedActors, TypedAct, TypedSec, TypedRest, Actor, Actors, Control,
    Shaped, Held, Roles, Jobs, Moving
<1>8. ASSUME RecoveryThrows PROVE Roles'
  BY <1>8, LeavesSteps, LeavesRoles DEF Control
<1>9. ASSUME UndoRefused PROVE Roles'
  BY <1>9, LeavesSteps, LeavesRoles DEF Control
<1>10. ASSUME UndoLink PROVE Roles'
  BY <1>10, NoSectionTyped, NoActorTyped, HandoffAssumption DEF UndoLink, records, history, bounds,
    Typed, TypedActors, TypedAct, TypedSec, TypedRest, Actor, Actors, Control, Shaped, Held, Roles,
    Jobs, Moving
<1>11. ASSUME UndoBackups PROVE Roles'
  <2>1. CASE sec.bad
    BY <1>11, <2>1, LeavesSteps, LeavesRoles DEF Control
  <2>2. CASE ~sec.bad
    BY <1>11, <2>2, NoSectionTyped DEF UndoBackups, Goto, Typed, TypedActors, TypedAct, TypedSec,
      TypedRest, Actor, Actors, Control, Shaped, Held, Roles, Jobs, Moving, records, bounds
  <2> QED
    BY <2>1, <2>2
<1>12. ASSUME UndoGeneration PROVE Roles'
  BY <1>12, NoSectionTyped, NoActorTyped, HandoffAssumption DEF UndoGeneration, Goto, files,
    history, bounds, Typed, TypedActors, TypedAct, TypedSec, TypedRest, Actor, Actors, Control,
    Shaped, Held, Roles, Jobs, Moving
<1>13. ASSUME UndoCurrent PROVE Roles'
  BY <1>13, NoSectionTyped, NoActorTyped, HandoffAssumption DEF UndoCurrent, Goto, Restored, files,
    history, bounds, Typed, TypedActors, TypedAct, TypedSec, TypedRest, Actor, Actors, Control,
    Shaped, Held, Roles, Jobs, Moving
<1>14. ASSUME UndoCommit PROVE Roles'
  BY <1>14, NoSectionTyped, NoActorTyped, HandoffAssumption DEF UndoCommit, Goto, files, history,
    bounds, Typed, TypedActors, TypedAct, TypedSec, TypedRest, Actor, Actors, Control, Shaped, Held,
    Roles, Jobs, Moving
<1>15. ASSUME UndoJournal PROVE Roles'
  <2>1. CASE sec.why # "recover"
    BY <1>15, <2>1, LeavesSteps, LeavesRoles DEF Control
  <2>2. CASE sec.why = "recover"
    BY <1>15, <2>2, NoSectionTyped DEF UndoJournal, Goto, Typed, TypedActors, TypedAct, TypedSec,
      TypedRest, Actor, Actors, Control, Shaped, Held, Roles, Jobs, Moving, files, history, bounds
  <2> QED
    BY <2>1, <2>2
<1>16. ASSUME PrepareRefused PROVE Roles'
  BY <1>16, LeavesSteps, LeavesRoles DEF Control
<1>17. ASSUME PrepareBegins PROVE Roles'
  BY <1>17, NoSectionTyped, NoActorTyped, HandoffAssumption DEF PrepareBegins, Goto, Preparable,
    files, history, bounds, Typed, TypedActors, TypedAct, TypedSec, TypedRest, Actor, Actors,
    Control, Shaped, Held, Roles, Jobs, Moving
<1>18. ASSUME Backup PROVE Roles'
  BY <1>18, NoSectionTyped, NoActorTyped, HandoffAssumption DEF Backup, records, history, bounds,
    Typed, TypedActors, TypedAct, TypedSec, TypedRest, Actor, Actors, Control, Shaped, Held, Roles,
    Jobs, Moving
<1>19. ASSUME LinkStep PROVE Roles'
  BY <1>19, NoSectionTyped, NoActorTyped, HandoffAssumption DEF LinkStep, Planned, records, history,
    bounds, Typed, TypedActors, TypedAct, TypedSec, TypedRest, Actor, Actors, Control, Shaped, Held,
    Roles, Jobs, Moving
<1>20. ASSUME WriteGeneration PROVE Roles'
  BY <1>20, NoSectionTyped, NoActorTyped, HandoffAssumption DEF WriteGeneration, Goto, Planned,
    files, history, bounds, Typed, TypedActors, TypedAct, TypedSec, TypedRest, Actor, Actors,
    Control, Shaped, Held, Roles, Jobs, Moving
<1>21. ASSUME WritePrepared PROVE Roles'
  BY <1>21, NoSectionTyped, NoActorTyped, HandoffAssumption DEF WritePrepared, Goto, Linked, files,
    history, bounds, Typed, TypedActors, TypedAct, TypedSec, TypedRest, Actor, Actors, Control,
    Shaped, Held, Roles, Jobs, Moving
<1>22. ASSUME WriteCommit PROVE Roles'
  BY <1>22, NoSectionTyped, NoActorTyped, HandoffAssumption DEF WriteCommit, Goto, files, history,
    bounds, Typed, TypedActors, TypedAct, TypedSec, TypedRest, Actor, Actors, Control, Shaped, Held,
    Roles, Jobs, Moving
<1>23. ASSUME WriteCurrent PROVE Roles'
  BY <1>23, NoSectionTyped, NoActorTyped, HandoffAssumption DEF WriteCurrent, Goto, files, history,
    bounds, Typed, TypedActors, TypedAct, TypedSec, TypedRest, Actor, Actors, Control, Shaped, Held,
    Roles, Jobs, Moving
<1>24. ASSUME WriteCommitted PROVE Roles'
  <2>1. CASE sec.job = "prepare"
    BY <1>24, <2>1, PreparesRoles
  <2>2. CASE sec.job # "prepare"
    BY <1>24, <2>2, NoSectionTyped DEF WriteCommitted, Goto, Typed, TypedActors, TypedAct, TypedSec,
      TypedRest, Actor, Actors, Control, Shaped, Held, Roles, Jobs, Moving, history, bounds
  <2> QED
    BY <2>1, <2>2
<1>25. ASSUME PrepareFails PROVE Roles'
  BY <1>25, NoSectionTyped, NoActorTyped, HandoffAssumption DEF PrepareFails, ToUndo, Fault, files,
    records, history, Typed, TypedActors, TypedAct, TypedSec, TypedRest, Actor, Actors, Control,
    Shaped, Held, Roles, Jobs, Moving
<1>26. ASSUME Finalizes PROVE Roles'
  BY <1>26, LeavesSteps, LeavesRoles DEF Control
<1>27. ASSUME StartUnmanaged PROVE Roles'
  BY <1>27, StartsSteps, NoSectionTyped, NoActorTyped, HandoffAssumption DEF StartUnmanaged, In,
    Races, files, records, bounds, Granted, NoSection, Typed, TypedActors, TypedAct, TypedSec,
    TypedRest, Actor, Actors, Control, Shaped, Held, Roles, Jobs, Moving
<1>28. ASSUME StartRefused PROVE Roles'
  BY <1>28, LeavesSteps, LeavesRoles DEF Control
<1>29. ASSUME StartOpens PROVE Roles'
  BY <1>29, NoSectionTyped, NoActorTyped, HandoffAssumption DEF StartOpens, In, records, history,
    bounds, Typed, TypedActors, TypedAct, TypedSec, TypedRest, Actor, Actors, Control, Shaped, Held,
    Roles, Jobs, Moving
<1>30. ASSUME StartActivates PROVE Roles'
  BY <1>30, StartsSteps, NoSectionTyped, NoActorTyped, HandoffAssumption DEF StartActivates, In,
    Races, files, bounds, Granted, NoSection, Typed, TypedActors, TypedAct, TypedSec, TypedRest,
    Actor, Actors, Control, Shaped, Held, Roles, Jobs, Moving
<1>31. ASSUME HookIgnored PROVE Roles'
  BY <1>31, LeavesSteps, LeavesRoles DEF Control
<1>32. ASSUME HookMismatched PROVE Roles'
  BY <1>32, LeavesSteps, LeavesRoles DEF Control
<1>33. ASSUME HookCleans PROVE Roles'
  BY <1>33, NoSectionTyped, NoActorTyped, HandoffAssumption DEF HookCleans, In, records, history,
    bounds, Typed, TypedActors, TypedAct, TypedSec, TypedRest, Actor, Actors, Control, Shaped, Held,
    Roles, Jobs, Moving
<1>34. ASSUME HookConfirms PROVE Roles'
  BY <1>34, LeavesSteps, LeavesRoles DEF Control
<1>35. ASSUME WebDies PROVE Roles'
  BY <1>35, NoSectionTyped, NoActorTyped, HandoffAssumption DEF WebDies, NoActor, NoSection, Fault,
    Cut, files, records, Typed, TypedActors, TypedAct, TypedSec, TypedRest, Actor, Actors, Control,
    Shaped, Held, Roles, Jobs, InDaemon, Moving
<1>36. ASSUME DaemonDies PROVE Roles'
  BY <1>36, NoSectionTyped, NoActorTyped, HandoffAssumption DEF DaemonDies, NoActor, NoSection,
    Fault, Cut, files, records, Typed, TypedActors, TypedAct, TypedSec, TypedRest, Actor, Actors,
    Control, Shaped, Held, Roles, Jobs, InDaemon, Moving
<1>37. ASSUME 
            
      \/ NothingToRecover
      \/ RecoveryAdopts
      \/ RecoveryUndoes
      \/ UndoClaimed
      \/ Exits
      \/ (\E a \in Artifacts : Writes(a))
      \/ (\E p \in Profiles, a \in Artifacts : Deleted(p, a))
            PROVE Roles'
  BY <1>37 DEF TypedAct, TypedSec, TypedRest, Actor, Actors, Control, Shaped, Held, Roles, Jobs,
    Moving, In, NothingToRecover, RecoveryAdopts, RecoveryUndoes, UndoClaimed, Exits, Writes,
    Deleted
<1>38. ASSUME UNCHANGED vars PROVE Roles'
  BY <1>38 DEF vars, files, records, history, bounds, Typed, TypedActors, TypedAct, TypedSec,
    TypedRest, Actor, Actors, Control, Shaped, Held, Roles, Jobs, Moving, files, records, history,
    bounds
<1> QED
  BY <1>1, <1>2, <1>3, <1>4, <1>5, <1>6, <1>7, <1>8, <1>9, <1>10, <1>11, <1>12, <1>13, <1>14,
       <1>15, <1>16, <1>17, <1>18, <1>19, <1>20, <1>21, <1>22, <1>23, <1>24, <1>25, <1>26,
       <1>27, <1>28, <1>29, <1>30, <1>31, <1>32, <1>33, <1>34, <1>35, <1>36, <1>37, <1>38 DEF
       Next, Edit, Recovery, Undo, Prepare, StartSection, Hook, Environment
LEMMA CountedStep ==
  ASSUME Typed, Control, [Next]_vars
  PROVE  Counted'
<1>1. ASSUME RecoveryAdopts PROVE Counted'
  <2> USE <1>1 DEF RecoveryAdopts
  <2>1. journal.id # 0 /\ journal.phase # "none"
    BY DEF Settled, Control, Counted, Typed, TypedRecords
  <2>2. CASE current # journal.id
    BY <2>2 DEF Counted, Control, Open
  <2>3. CASE current = journal.id
    BY <2>3, <2>1 DEF Typed, TypedRecords, Counted, Control, Open
  <2> QED
    BY <2>2, <2>3
<1>2. ASSUME UndoGeneration PROVE Counted'
  BY <1>2 DEF UndoGeneration, In, Goto, Counted, Typed, TypedActors, TypedSec, TypedRecords,
    Control, Staged, Marked, Undoing, Laying, Open, Own, Rec
<1>3. ASSUME UndoCurrent PROVE Counted'
  BY <1>3 DEF UndoCurrent, In, Goto, Counted, Typed, TypedActors, TypedSec, TypedRecords, Control,
    Staged, Marked, Undoing, Laying, Open, Own, Rec
<1>4. ASSUME UndoCommit PROVE Counted'
  BY <1>4 DEF UndoCommit, In, Goto, Counted, Typed, TypedActors, TypedSec, TypedRecords, Control,
    Staged, Marked, Undoing, Laying, Open, Own, Rec
<1>5. ASSUME UndoJournal PROVE Counted'
  BY <1>5 DEF UndoJournal, In, Goto, Counted, Typed, TypedActors, TypedSec, TypedRecords, Control,
    Staged, Marked, Undoing, Laying, Open, Own, Rec
<1>6. ASSUME PrepareBegins PROVE Counted'
  BY <1>6, HolderTyped, HandoffAssumption DEF PrepareBegins, Typed, TypedRecords, Control, Counted,
    Marked, Staged, Open, Own, Phases, Generations, Present, Preparable, Artifacts
<1>7. ASSUME WriteGeneration PROVE Counted'
  BY <1>7 DEF WriteGeneration, In, Goto, Counted, Typed, TypedActors, TypedSec, TypedRecords,
    Control, Staged, Marked, Undoing, Laying, Open, Own, Rec
<1>8. ASSUME WritePrepared PROVE Counted'
  BY <1>8 DEF WritePrepared, In, Goto, Linked, Counted, Typed, TypedActors, TypedSec, TypedRecords,
    Control, Staged, Marked, Undoing, Laying, Open, Own, Rec
<1>9. ASSUME WriteCommit PROVE Counted'
  BY <1>9 DEF WriteCommit, In, Goto, Counted, Typed, TypedActors, TypedSec, TypedRecords, Control,
    Staged, Marked, Undoing, Laying, Open, Own, Rec
<1>10. ASSUME WriteCurrent PROVE Counted'
  BY <1>10 DEF WriteCurrent, In, Goto, Counted, Typed, TypedActors, TypedSec, TypedRecords, Control,
    Staged, Marked, Undoing, Laying, Open, Own, Rec
<1>11. ASSUME WriteCommitted PROVE Counted'
  BY <1>11 DEF WriteCommitted, Goto, Counted, Control, Staged, Open, Own, Rec
<1>12. ASSUME StartActivates PROVE Counted'
  BY <1>12 DEF StartActivates, In, Goto, Counted, Typed, TypedActors, TypedSec, TypedRecords,
    Control, Staged, Marked, Undoing, Laying, Open, Own, Rec
<1>13. ASSUME HookMismatched PROVE Counted'
  BY <1>13 DEF HookMismatched, In, Goto, Fault, Counted, Typed, TypedActors, TypedSec, TypedRecords,
    Control, Staged, Marked, Undoing, Laying, Open, Own, Rec
<1>14. ASSUME HookConfirms PROVE Counted'
  BY <1>14 DEF HookConfirms, In, Goto, Counted, Typed, TypedActors, TypedSec, TypedRecords, Control,
    Staged, Marked, Undoing, Laying, Open, Own, Rec
<1>15. ASSUME 
            
      \/ (\E e \in Edits, p \in Profiles : EditBegins(e, p))
      \/ (\E e \in Edits : Retires(e))
      \/ (\E e \in Edits : Commits(e))
      \/ (\E e \in Edits : CommitRejected(e))
      \/ StartAsked
      \/ (\E p \in Actors : Spawns(p))
      \/ (\E p \in Actors : Enter(p))
      \/ RecoveryThrows
      \/ NothingToRecover
      \/ RecoveryUndoes
      \/ UndoClaimed
      \/ UndoRefused
      \/ UndoLink
      \/ UndoBackups
      \/ PrepareRefused
      \/ Backup
      \/ LinkStep
      \/ PrepareFails
      \/ Finalizes
      \/ StartUnmanaged
      \/ StartRefused
      \/ StartOpens
      \/ HookIgnored
      \/ HookCleans
      \/ (\E a \in Artifacts : Writes(a))
      \/ (\E p \in Profiles, a \in Artifacts : Deleted(p, a))
      \/ Exits
      \/ WebDies
      \/ DaemonDies
            PROVE Counted'
  BY <1>15 DEF files, records, history, bounds, Typed, TypedActors, TypedSec, TypedRecords,
       Control, Shaped, Held, Roles, Counted, Marked, Staged, Open, Laying, Undoing, Own, Rec,
       EditBegins, Retires, Commits, CommitRejected, StartAsked, Spawns, Enter, RecoveryThrows,
       NothingToRecover, RecoveryUndoes, UndoClaimed, UndoRefused, UndoLink, UndoBackups,
       PrepareRefused, Backup, LinkStep, PrepareFails, Finalizes, StartUnmanaged, StartRefused,
       StartOpens, HookIgnored, HookCleans, Writes, Deleted, Exits, WebDies, DaemonDies
<1>16. ASSUME UNCHANGED vars PROVE Counted'
  BY <1>16 DEF vars, files, records, history, bounds, Typed, TypedActors, TypedSec,
       TypedRecords, Control, Shaped, Held, Roles, Counted, Marked, Staged, Open, Laying,
       Undoing, Own, Rec
<1> QED
  BY <1>1, <1>2, <1>3, <1>4, <1>5, <1>6, <1>7, <1>8, <1>9, <1>10, <1>11, <1>12, <1>13, <1>14,
       <1>15, <1>16 DEF Next, Edit, Recovery, Undo, Prepare, StartSection, Hook, Environment
LEMMA MarkedStep ==
  ASSUME Typed, Control, [Next]_vars
  PROVE  Marked'
<1>1. ASSUME NEW p \in Actors, Enter(p) PROVE Marked'
  BY <1>1, NoSectionTyped DEF Enter, files, records, history, bounds, In, Typed, TypedActors,
    TypedSec, TypedRecords, Control, Shaped, Counted, Staged, Marked, Undoing, Laying, Open, Own,
    Rec
<1>2. ASSUME RecoveryThrows PROVE Marked'
  BY <1>2, NoSectionTyped DEF RecoveryThrows, files, records, history, bounds, In, Return, Typed,
    TypedActors, TypedSec, TypedRecords, Control, Shaped, Counted, Staged, Marked, Undoing, Laying,
    Open, Own, Rec
<1>3. ASSUME NothingToRecover PROVE Marked'
  BY <1>3, NoSectionTyped DEF NothingToRecover, records, history, bounds, In, Goto, Typed,
    TypedActors, TypedSec, TypedRecords, Control, Shaped, Counted, Staged, Marked, Undoing, Laying,
    Open, Own, Rec
<1>4. ASSUME RecoveryAdopts PROVE Marked'
  BY <1>4, NoSectionTyped DEF RecoveryAdopts, CommitUnusable, RecoveryFails, NoJournal, Settled,
    Phases, files, history, bounds, In, Typed, TypedActors, TypedSec, TypedRecords, Control, Shaped,
    Counted, Staged, Marked, Undoing, Laying, Open, Own, Rec
<1>5. ASSUME RecoveryUndoes PROVE Marked'
  BY <1>5, NoSectionTyped DEF RecoveryUndoes, ToUndo, files, records, history, bounds, In, Typed,
    TypedActors, TypedSec, TypedRecords, Control, Shaped, Counted, Staged, Marked, Undoing, Laying,
    Open, Own, Rec
<1>6. ASSUME UndoClaimed PROVE Marked'
  BY <1>6, NoSectionTyped DEF UndoClaimed, ToUndo, files, records, history, bounds, In, Typed,
    TypedActors, TypedSec, TypedRecords, Control, Shaped, Counted, Staged, Marked, Undoing, Laying,
    Open, Own, Rec
<1>7. ASSUME UndoRefused PROVE Marked'
  BY <1>7, NoSectionTyped DEF UndoRefused, files, records, bounds, In, Return, Typed, TypedActors,
    TypedSec, TypedRecords, Control, Shaped, Counted, Staged, Marked, Undoing, Laying, Open, Own,
    Rec
<1>8. ASSUME UndoLink PROVE Marked'
  BY <1>8, NoSectionTyped DEF UndoLink, records, history, bounds, In, Typed, TypedActors, TypedSec,
    TypedRecords, Control, Shaped, Counted, Staged, Marked, Undoing, Laying, Open, Own, Rec
<1>9. ASSUME UndoBackups PROVE Marked'
  BY <1>9, NoSectionTyped DEF UndoBackups, records, bounds, In, Goto, Return, Typed, TypedActors,
    TypedSec, TypedRecords, Control, Shaped, Counted, Staged, Marked, Undoing, Laying, Open, Own,
    Rec
<1>10. ASSUME UndoGeneration PROVE Marked'
  BY <1>10, NoSectionTyped DEF UndoGeneration, files, history, bounds, In, Goto, Typed, TypedActors,
    TypedSec, TypedRecords, Control, Shaped, Counted, Staged, Marked, Undoing, Laying, Open, Own,
    Rec
<1>11. ASSUME UndoCurrent PROVE Marked'
  BY <1>11, NoSectionTyped DEF UndoCurrent, Restored, files, history, bounds, In, Goto, Typed,
    TypedActors, TypedSec, TypedRecords, Control, Shaped, Counted, Staged, Marked, Undoing, Laying,
    Open, Own, Rec
<1>12. ASSUME UndoCommit PROVE Marked'
  BY <1>12, NoSectionTyped DEF UndoCommit, files, history, bounds, In, Goto, Typed, TypedActors,
    TypedSec, TypedRecords, Control, Shaped, Counted, Staged, Marked, Undoing, Laying, Open, Own,
    Rec
<1>13. ASSUME UndoJournal PROVE Marked'
  BY <1>13, NoSectionTyped DEF UndoJournal, files, history, bounds, In, Goto, Return, Typed,
    TypedActors, TypedSec, TypedRecords, Control, Shaped, Counted, Staged, Marked, Undoing, Laying,
    Open, Own, Rec
<1>14. ASSUME PrepareRefused PROVE Marked'
  BY <1>14, NoSectionTyped DEF PrepareRefused, files, records, history, bounds, In, Return, Typed,
    TypedActors, TypedSec, TypedRecords, Control, Shaped, Counted, Staged, Marked, Undoing, Laying,
    Open, Own, Rec
<1>15. ASSUME PrepareBegins PROVE Marked'
  BY <1>15 DEF PrepareBegins, Typed, TypedRecords, Control, Counted, Marked, Staged, Open, Own,
    Phases
<1>16. ASSUME Backup PROVE Marked'
  BY <1>16, NoSectionTyped DEF Backup, files, records, history, bounds, In, Goto, Typed,
    TypedActors, TypedSec, TypedRecords, Control, Shaped, Counted, Staged, Marked, Undoing, Laying,
    Open, Own, Rec
<1>17. ASSUME LinkStep PROVE Marked'
  BY <1>17, NoSectionTyped DEF LinkStep, files, records, history, bounds, In, Goto, Typed,
    TypedActors, TypedSec, TypedRecords, Control, Shaped, Counted, Staged, Marked, Undoing, Laying,
    Open, Own, Rec
<1>18. ASSUME WriteGeneration PROVE Marked'
  BY <1>18, NoSectionTyped DEF WriteGeneration, files, history, bounds, In, Goto, Typed,
    TypedActors, TypedSec, TypedRecords, Control, Shaped, Counted, Staged, Marked, Undoing, Laying,
    Open, Own, Rec
<1>19. ASSUME WritePrepared PROVE Marked'
  BY <1>19, NoSectionTyped DEF WritePrepared, files, history, bounds, In, Goto, Linked, Typed,
    TypedActors, TypedSec, TypedRecords, Control, Shaped, Counted, Staged, Marked, Undoing, Laying,
    Open, Own, Rec
<1>20. ASSUME WriteCommit PROVE Marked'
  BY <1>20, NoSectionTyped DEF WriteCommit, files, history, bounds, In, Goto, Typed, TypedActors,
    TypedSec, TypedRecords, Control, Shaped, Counted, Staged, Marked, Undoing, Laying, Open, Own,
    Rec
<1>21. ASSUME WriteCurrent PROVE Marked'
  BY <1>21, NoSectionTyped DEF WriteCurrent, files, history, bounds, In, Goto, Typed, TypedActors,
    TypedSec, TypedRecords, Control, Shaped, Counted, Staged, Marked, Undoing, Laying, Open, Own,
    Rec
<1>22. ASSUME WriteCommitted PROVE Marked'
  BY <1>22, NoSectionTyped DEF WriteCommitted, files, history, bounds, In, Goto, Typed, TypedActors,
    TypedSec, TypedRecords, Control, Shaped, Counted, Staged, Marked, Undoing, Laying, Open, Own,
    Rec
<1>23. ASSUME PrepareFails PROVE Marked'
  BY <1>23, NoSectionTyped DEF PrepareFails, ToUndo, files, records, history, bounds, In, Goto,
    Fault, Typed, TypedActors, TypedSec, TypedRecords, Control, Shaped, Counted, Staged, Marked,
    Undoing, Laying, Open, Own, Rec
<1>24. ASSUME Finalizes PROVE Marked'
  BY <1>24, NoSectionTyped DEF Finalizes, files, records, history, bounds, In, Goto, Return, Typed,
    TypedActors, TypedSec, TypedRecords, Control, Shaped, Counted, Staged, Marked, Undoing, Laying,
    Open, Own, Rec
<1>25. ASSUME StartUnmanaged PROVE Marked'
  BY <1>25, NoSectionTyped DEF StartUnmanaged, files, records, history, bounds, In, Goto, Return,
    Typed, TypedActors, TypedSec, TypedRecords, Control, Shaped, Counted, Staged, Marked, Undoing,
    Laying, Open, Own, Rec
<1>26. ASSUME StartRefused PROVE Marked'
  BY <1>26, NoSectionTyped DEF StartRefused, files, records, history, bounds, In, Goto, Return,
    Typed, TypedActors, TypedSec, TypedRecords, Control, Shaped, Counted, Staged, Marked, Undoing,
    Laying, Open, Own, Rec
<1>27. ASSUME StartOpens PROVE Marked'
  BY <1>27, NoSectionTyped DEF StartOpens, files, records, history, bounds, In, Goto, Typed,
    TypedActors, TypedSec, TypedRecords, Control, Shaped, Counted, Staged, Marked, Undoing, Laying,
    Open, Own, Rec
<1>28. ASSUME StartActivates PROVE Marked'
  BY <1>28, NoSectionTyped DEF StartActivates, files, history, bounds, In, Goto, Return, Typed,
    TypedActors, TypedSec, TypedRecords, Control, Shaped, Counted, Staged, Marked, Undoing, Laying,
    Open, Own, Rec
<1>29. ASSUME HookIgnored PROVE Marked'
  BY <1>29, NoSectionTyped DEF HookIgnored, files, records, history, bounds, In, Goto, Return,
    Typed, TypedActors, TypedSec, TypedRecords, Control, Shaped, Counted, Staged, Marked, Undoing,
    Laying, Open, Own, Rec
<1>30. ASSUME HookMismatched PROVE Marked'
  BY <1>30, NoSectionTyped DEF HookMismatched, files, history, bounds, In, Goto, Fault, Return,
    Typed, TypedActors, TypedSec, TypedRecords, Control, Shaped, Counted, Staged, Marked, Undoing,
    Laying, Open, Own, Rec
<1>31. ASSUME HookCleans PROVE Marked'
  BY <1>31, NoSectionTyped DEF HookCleans, files, records, history, bounds, In, Goto, Typed,
    TypedActors, TypedSec, TypedRecords, Control, Shaped, Counted, Staged, Marked, Undoing, Laying,
    Open, Own, Rec
<1>32. ASSUME HookConfirms PROVE Marked'
  BY <1>32, NoSectionTyped DEF HookConfirms, files, history, bounds, In, Goto, Return, Typed,
    TypedActors, TypedSec, TypedRecords, Control, Shaped, Counted, Staged, Marked, Undoing, Laying,
    Open, Own, Rec
<1>33. ASSUME WebDies PROVE Marked'
  BY <1>33, NoSectionTyped DEF WebDies, Cut, Published, files, records, history, bounds, In, Goto,
    Fault, Typed, TypedActors, TypedSec, TypedRecords, Control, Shaped, Counted, Staged, Marked,
    Undoing, Laying, Open, Own, Rec
<1>34. ASSUME DaemonDies PROVE Marked'
  BY <1>34, NoSectionTyped DEF DaemonDies, Cut, Published, files, records, history, bounds, In,
    Goto, Fault, Typed, TypedActors, TypedSec, TypedRecords, Control, Shaped, Counted, Staged,
    Marked, Undoing, Laying, Open, Own, Rec
<1>35. ASSUME 
            
      \/ (\E e \in Edits, p \in Profiles : EditBegins(e, p))
      \/ (\E e \in Edits : Retires(e))
      \/ (\E e \in Edits : Commits(e))
      \/ (\E e \in Edits : CommitRejected(e))
      \/ StartAsked
      \/ (\E p \in Actors : Spawns(p))
      \/ Exits
      \/ (\E a \in Artifacts : Writes(a))
      \/ (\E p \in Profiles, a \in Artifacts : Deleted(p, a))
            PROVE Marked'
  BY <1>35 DEF files, records, history, bounds, Typed, TypedActors, TypedSec, TypedRecords,
       Control, Shaped, Held, Counted, Marked, Staged, Open, Laying, Undoing, Own, Rec,
       EditBegins, Retires, Commits, CommitRejected, StartAsked, Spawns, Exits, Writes, Deleted
<1>36. ASSUME UNCHANGED vars PROVE Marked'
  BY <1>36 DEF vars, files, records, history, bounds, Typed, TypedActors, TypedSec,
       TypedRecords, Control, Shaped, Held, Counted, Marked, Staged, Open, Laying, Undoing, Own,
       Rec
<1> QED
  BY <1>1, <1>2, <1>3, <1>4, <1>5, <1>6, <1>7, <1>8, <1>9, <1>10, <1>11, <1>12, <1>13, <1>14,
       <1>15, <1>16, <1>17, <1>18, <1>19, <1>20, <1>21, <1>22, <1>23, <1>24, <1>25, <1>26,
       <1>27, <1>28, <1>29, <1>30, <1>31, <1>32, <1>33, <1>34, <1>35, <1>36 DEF Next, Edit,
       Recovery, Undo, Prepare, StartSection, Hook, Environment

(* A step outside the section leaves the profiles its holder works on.       *)
Outside ==
    \/ \E e \in Edits : Retires(e) \/ Commits(e) \/ CommitRejected(e) \/ \E p \in Profiles : EditBegins(e, p)
    \/ StartAsked \/ \E p \in Actors : Spawns(p)
    \/ (WebDies /\ sec.job \in {"none", "start"}) \/ (DaemonDies /\ sec.job # "start")

LEMMA HolderKept ==
  ASSUME Typed, Control, sec.at # "free", Outside
  PROVE  From' = From /\ To' = To /\ sec' = sec
<1>1. sec.by \in Actors /\ act[sec.by] \in Actor
  BY HolderTyped DEF Control
<1>2. \/ act[sec.by].at \in {"busy", "starting"}
      \/ sec.by = "hook" /\ act[sec.by].at = "post"
  BY DEF Control, Held, Shaped
<1>3. act' \in [Actors -> Actor] /\ act \in [Actors -> Actor]
  BY TypedStep DEF Outside, Typed, TypedActors, TypedAct, Next, Edit, Environment
<1>4. ASSUME NEW e \in Edits, Retires(e) \/ Commits(e) \/ CommitRejected(e) \/ \E p \in Profiles : EditBegins(e, p)
      PROVE  act'[sec.by] = act[sec.by] /\ sec' = sec
  BY <1>2, <1>4, HandoffAssumption, <1>1, <1>3 DEF Retires, Commits, CommitRejected, EditBegins
<1>5. ASSUME StartAsked PROVE act'[sec.by] = act[sec.by] /\ sec' = sec
  BY <1>1, <1>2, <1>3, <1>5 DEF StartAsked
<1>6. ASSUME NEW p \in Actors, Spawns(p) PROVE sec' = sec /\ (act'[sec.by] = act[sec.by] \/ act'[sec.by] = [act[sec.by] EXCEPT !.at = "post"])
  BY <1>2, <1>6, <1>1, <1>3 DEF Spawns
<1>7. ASSUME WebDies /\ sec.job \in {"none", "start"} PROVE act'[sec.by] = act[sec.by] /\ sec' = sec
  BY <1>7, <1>1 DEF Control, Held, Shaped, WebDies, InDaemon
<1>8. ASSUME DaemonDies /\ sec.job # "start" PROVE act'[sec.by] = act[sec.by] /\ sec' = sec
  BY <1>1, <1>2, <1>8 DEF Control, Held, DaemonDies, InDaemon
<1> QED
  BY <1>1, <1>4, <1>5, <1>6, <1>7, <1>8 DEF Outside, From, To, Actor

LEMMA StagedKept ==
  ASSUME Staged, UNCHANGED <<sec, journal, commit, current, immut, made>>,
         sec.at # "free" => From' = From /\ To' = To
  PROVE  Staged'
BY DEF Staged, Laying, Catching, Undoing, Open, Own, Rec, Target, In

LEMMA StagedOutside ==
  ASSUME Typed, Control, Outside
  PROVE  Staged'
<1>1. UNCHANGED <<sec, journal, commit, current, immut, made>>
  BY DEF Outside, Retires, Commits, CommitRejected, EditBegins, StartAsked, Spawns, WebDies, DaemonDies, records
<1> QED
  BY <1>1, HolderKept, StagedKept DEF Control

LEMMA StagedStep ==
  ASSUME Typed, Control, [Next]_vars
  PROVE  Staged'
<1>1. ASSUME NEW e \in Edits, NEW p \in Profiles, EditBegins(e, p) PROVE Staged'
  BY <1>1, StagedOutside DEF Outside
<1>2. ASSUME NEW e \in Edits, Retires(e) PROVE Staged'
  BY <1>2, StagedOutside DEF Outside
<1>3. ASSUME NEW e \in Edits, Commits(e) PROVE Staged'
  BY <1>3, StagedOutside DEF Outside
<1>4. ASSUME NEW e \in Edits, CommitRejected(e) PROVE Staged'
  BY <1>4, StagedOutside DEF Outside
<1>5. ASSUME StartAsked PROVE Staged'
  BY <1>5, StagedOutside DEF Outside
<1>6. ASSUME NEW p \in Actors, Spawns(p) PROVE Staged'
  BY <1>6, StagedOutside DEF Outside
<1>7. ASSUME NEW p \in Actors, Enter(p) PROVE Staged'
  BY <1>7, NoSectionTyped DEF Enter, files, records, history, bounds, In, Typed, TypedActors,
    TypedSec, TypedRecords, Control, Shaped, Counted, Staged, Marked, Undoing, Laying, Open, Own,
    Rec, Catching, Target, From, To
<1>8. ASSUME RecoveryThrows PROVE Staged'
  BY <1>8, NoSectionTyped DEF RecoveryThrows, files, records, history, bounds, In, Return, Typed,
    TypedActors, TypedSec, TypedRecords, Control, Shaped, Counted, Staged, Marked, Undoing, Laying,
    Open, Own, Rec, Catching, Target, From, To
<1>9. ASSUME NothingToRecover PROVE Staged'
  BY <1>9 DEF NothingToRecover, Typed, TypedRecords, RecoveryFails, CommitUnusable, NoJournal,
    Control, Marked, Settled, Phases, Goto, TypedActors, TypedSec, Counted, records, Staged, Laying,
    Catching, Undoing, Open, Own, In
<1>10. ASSUME RecoveryAdopts PROVE Staged'
  BY <1>10, NoSectionTyped DEF RecoveryAdopts, CommitUnusable, RecoveryFails, NoJournal, Settled,
    Phases, files, records, history, bounds, In, Goto, Typed, TypedActors, TypedSec, TypedRecords,
    Control, Shaped, Counted, Staged, Marked, Undoing, Laying, Open, Own, Rec, Catching, Target,
    From, To
<1>11. ASSUME RecoveryUndoes PROVE Staged'
  BY <1>11 DEF RecoveryUndoes, Typed, TypedRecords, RecoveryFails, CommitUnusable, NoJournal,
    Control, Marked, Settled, Phases, Goto, ToUndo, TypedActors, TypedSec, Counted, files, records,
    Staged, Laying, Catching, Undoing, Open, Own, In
<1>12. ASSUME UndoClaimed PROVE Staged'
  BY <1>12, NoSectionTyped DEF UndoClaimed, ToUndo, MayUndo, Settled, Phases, files, records,
    history, bounds, In, Goto, Typed, TypedActors, TypedSec, TypedRecords, Control, Shaped, Counted,
    Staged, Marked, Undoing, Laying, Open, Own, Rec, Catching, Target, From, To
<1>13. ASSUME UndoRefused PROVE Staged'
  BY <1>13, NoSectionTyped DEF UndoRefused, files, records, history, bounds, In, Goto, Return,
    Typed, TypedActors, TypedSec, TypedRecords, Control, Shaped, Counted, Staged, Marked, Undoing,
    Laying, Open, Own, Rec, Catching, Target, From, To
<1>14. ASSUME UndoLink PROVE Staged'
  BY <1>14, NoSectionTyped DEF UndoLink, files, records, history, bounds, In, Goto, Typed,
    TypedActors, TypedSec, TypedRecords, Control, Shaped, Counted, Staged, Marked, Undoing, Laying,
    Open, Own, Rec, Catching, Target, From, To
<1>15. ASSUME UndoBackups PROVE Staged'
  BY <1>15, NoSectionTyped, ZenonT(60) DEF UndoBackups, files, records, history, bounds, In, Goto, Return,
    Typed, TypedActors, TypedSec, TypedRecords, Control, Shaped, Counted, Staged, Marked, Undoing,
    Laying, Open, Own, Rec, Catching, Target, From, To
<1>16. ASSUME UndoGeneration PROVE Staged'
  BY <1>16, NoSectionTyped DEF UndoGeneration, files, records, history, bounds, In, Goto, Typed,
    TypedActors, TypedSec, TypedRecords, Control, Shaped, Counted, Staged, Marked, Undoing, Laying,
    Open, Own, Rec, Catching, Target, From, To
<1>17. ASSUME UndoCurrent PROVE Staged'
  BY <1>17, NoSectionTyped DEF UndoCurrent, Restored, files, records, history, bounds, In, Goto,
    Typed, TypedActors, TypedSec, TypedRecords, Control, Shaped, Counted, Staged, Marked, Undoing,
    Laying, Open, Own, Rec, Catching, Target, From, To
<1>18. ASSUME UndoCommit PROVE Staged'
  BY <1>18, NoSectionTyped DEF UndoCommit, files, records, history, bounds, In, Goto, Typed,
    TypedActors, TypedSec, TypedRecords, Control, Shaped, Counted, Staged, Marked, Undoing, Laying,
    Open, Own, Rec, Catching, Target, From, To
<1>19. ASSUME UndoJournal PROVE Staged'
  BY <1>19, NoSectionTyped DEF UndoJournal, files, records, history, bounds, In, Goto, Return,
    Typed, TypedActors, TypedSec, TypedRecords, Control, Shaped, Counted, Staged, Marked, Undoing,
    Laying, Open, Own, Rec, Catching, Target, From, To
<1>20. ASSUME PrepareRefused PROVE Staged'
  BY <1>20, NoSectionTyped DEF PrepareRefused, files, records, history, bounds, In, Goto, Return,
    Typed, TypedActors, TypedSec, TypedRecords, Control, Shaped, Counted, Staged, Marked, Undoing,
    Laying, Open, Own, Rec, Catching, Target, From, To
<1>21. ASSUME PrepareBegins PROVE Staged'
  BY <1>21, NoSectionTyped DEF PrepareBegins, files, records, history, bounds, In, Goto, Typed,
    TypedActors, TypedSec, TypedRecords, Control, Shaped, Counted, Staged, Marked, Undoing, Laying,
    Open, Own, Rec, Catching, Target, From, To
<1>22. ASSUME Backup PROVE Staged'
  BY <1>22, NoSectionTyped DEF Backup, files, records, history, bounds, In, Goto, Typed,
    TypedActors, TypedSec, TypedRecords, Control, Shaped, Counted, Staged, Marked, Undoing, Laying,
    Open, Own, Rec, Catching, Target, From, To
<1>23. ASSUME LinkStep PROVE Staged'
  BY <1>23, NoSectionTyped DEF LinkStep, files, records, history, bounds, In, Goto, Typed,
    TypedActors, TypedSec, TypedRecords, Control, Shaped, Counted, Staged, Marked, Undoing, Laying,
    Open, Own, Rec, Catching, Target, From, To
<1>24. ASSUME WriteGeneration PROVE Staged'
  BY <1>24, NoSectionTyped DEF WriteGeneration, files, records, history, bounds, In, Goto, Typed,
    TypedActors, TypedSec, TypedRecords, Control, Shaped, Counted, Staged, Marked, Undoing, Laying,
    Open, Own, Rec, Catching, Target, From, To
<1>25. ASSUME WritePrepared PROVE Staged'
  BY <1>25, NoSectionTyped DEF WritePrepared, files, records, history, bounds, In, Goto, Linked,
    Typed, TypedActors, TypedSec, TypedRecords, Control, Shaped, Counted, Staged, Marked, Undoing,
    Laying, Open, Own, Rec, Catching, Target, From, To
<1>26. ASSUME WriteCommit PROVE Staged'
  BY <1>26, NoSectionTyped DEF WriteCommit, files, records, history, bounds, In, Goto, Typed,
    TypedActors, TypedSec, TypedRecords, Control, Shaped, Counted, Staged, Marked, Undoing, Laying,
    Open, Own, Rec, Catching, Target, From, To
<1>27. ASSUME WriteCurrent PROVE Staged'
  BY <1>27, NoSectionTyped DEF WriteCurrent, files, records, history, bounds, In, Goto, Typed,
    TypedActors, TypedSec, TypedRecords, Control, Shaped, Counted, Staged, Marked, Undoing, Laying,
    Open, Own, Rec, Catching, Target, From, To
<1>28. ASSUME WriteCommitted PROVE Staged'
  BY <1>28, NoSectionTyped DEF WriteCommitted, files, records, history, bounds, In, Goto, Typed,
    TypedActors, TypedSec, TypedRecords, Control, Shaped, Counted, Staged, Marked, Undoing, Laying,
    Open, Own, Rec, Catching, Target, From, To
<1>29. ASSUME PrepareFails PROVE Staged'
  BY <1>29, NoSectionTyped DEF PrepareFails, ToUndo, Settled, Phases, files, records, history,
    bounds, In, Goto, Fault, Typed, TypedActors, TypedSec, TypedRecords, Control, Shaped, Counted,
    Staged, Marked, Undoing, Laying, Open, Own, Rec, Catching, Target, From, To
<1>30. ASSUME Finalizes PROVE Staged'
  BY <1>30, NoSectionTyped DEF Finalizes, files, records, history, bounds, In, Goto, Return, Typed,
    TypedActors, TypedSec, TypedRecords, Control, Shaped, Counted, Staged, Marked, Undoing, Laying,
    Open, Own, Rec, Catching, Target, From, To
<1>31. ASSUME StartUnmanaged PROVE Staged'
  BY <1>31, NoSectionTyped DEF StartUnmanaged, files, records, history, bounds, In, Goto, Return,
    Typed, TypedActors, TypedSec, TypedRecords, Control, Shaped, Counted, Staged, Marked, Undoing,
    Laying, Open, Own, Rec, Catching, Target, From, To
<1>32. ASSUME StartRefused PROVE Staged'
  BY <1>32, NoSectionTyped DEF StartRefused, files, records, history, bounds, In, Goto, Return,
    Typed, TypedActors, TypedSec, TypedRecords, Control, Shaped, Counted, Staged, Marked, Undoing,
    Laying, Open, Own, Rec, Catching, Target, From, To
<1>33. ASSUME StartOpens PROVE Staged'
  BY <1>33, NoSectionTyped DEF StartOpens, files, records, history, bounds, In, Goto, Typed,
    TypedActors, TypedSec, TypedRecords, Control, Shaped, Counted, Staged, Marked, Undoing, Laying,
    Open, Own, Rec, Catching, Target, From, To
<1>34. ASSUME StartActivates PROVE Staged'
  BY <1>34, NoSectionTyped DEF StartActivates, files, records, history, bounds, In, Goto, Return,
    Typed, TypedActors, TypedSec, TypedRecords, Control, Shaped, Counted, Staged, Marked, Undoing,
    Laying, Open, Own, Rec, Catching, Target, From, To
<1>35. ASSUME HookIgnored PROVE Staged'
  BY <1>35, NoSectionTyped DEF HookIgnored, files, records, history, bounds, In, Goto, Return,
    Typed, TypedActors, TypedSec, TypedRecords, Control, Shaped, Counted, Staged, Marked, Undoing,
    Laying, Open, Own, Rec, Catching, Target, From, To
<1>36. ASSUME HookMismatched PROVE Staged'
  BY <1>36, NoSectionTyped DEF HookMismatched, files, records, history, bounds, In, Goto, Fault,
    Return, Typed, TypedActors, TypedSec, TypedRecords, Control, Shaped, Counted, Staged, Marked,
    Undoing, Laying, Open, Own, Rec, Catching, Target, From, To
<1>37. ASSUME HookCleans PROVE Staged'
  BY <1>37, NoSectionTyped DEF HookCleans, files, records, history, bounds, In, Goto, Typed,
    TypedActors, TypedSec, TypedRecords, Control, Shaped, Counted, Staged, Marked, Undoing, Laying,
    Open, Own, Rec, Catching, Target, From, To
<1>38. ASSUME HookConfirms PROVE Staged'
  BY <1>38, NoSectionTyped DEF HookConfirms, files, records, history, bounds, In, Goto, Return,
    Typed, TypedActors, TypedSec, TypedRecords, Control, Shaped, Counted, Staged, Marked, Undoing,
    Laying, Open, Own, Rec, Catching, Target, From, To
<1>39. ASSUME NEW a \in Artifacts, Writes(a) PROVE Staged'
  BY <1>39, StagedKept DEF Control, From, To, records, history, Writes
<1>40. ASSUME NEW p \in Profiles, NEW a \in Artifacts, Deleted(p, a) PROVE Staged'
  BY <1>40, StagedKept DEF Control, From, To, records, history, Deleted
<1>41. ASSUME Exits PROVE Staged'
  BY <1>41, StagedKept DEF Control, From, To, records, history, Exits
<1>42. ASSUME WebDies PROVE Staged'
  <2>1. CASE sec.job \in {"none", "start"}
    BY <1>42, <2>1, StagedOutside DEF Outside
  <2>2. CASE ~(sec.job \in {"none", "start"})
    BY <1>42, <2>2, NoSectionTyped DEF WebDies, Staged, Laying, Catching, Undoing, In
  <2> QED
    BY <2>1, <2>2
<1>43. ASSUME DaemonDies PROVE Staged'
  <2>1. CASE sec.job # "start"
    BY <1>43, <2>1, StagedOutside DEF Outside
  <2>2. CASE ~(sec.job # "start")
    BY <1>43, <2>2, NoSectionTyped DEF DaemonDies, Staged, Laying, Catching, Undoing, In
  <2> QED
    BY <2>1, <2>2
<1>44. ASSUME UNCHANGED vars PROVE Staged'
  BY <1>44, StagedKept DEF Control, vars, records, From, To
<1> QED
  BY <1>1, <1>2, <1>3, <1>4, <1>5, <1>6, <1>7, <1>8, <1>9, <1>10, <1>11, <1>12, <1>13, <1>14,
       <1>15, <1>16, <1>17, <1>18, <1>19, <1>20, <1>21, <1>22, <1>23, <1>24, <1>25, <1>26,
       <1>27, <1>28, <1>29, <1>30, <1>31, <1>32, <1>33, <1>34, <1>35, <1>36, <1>37, <1>38,
       <1>39, <1>40, <1>41, <1>42, <1>43, <1>44 DEF Next, Edit, Recovery, Undo, Prepare,
       StartSection, Hook, Environment

LEMMA ClaimingKept ==
  ASSUME Claiming, UNCHANGED <<made, journal>>,
         \A e \in Edits : Claims(e)' => Claims(e) /\ act'[e].id = act[e].id /\ act'[e].tgt = act[e].tgt
                                              /\ act'[e].src = act[e].src,
         (sec.job = "undo" /\ Undoing)' => (act[sec.by].id = journal.id)'
  PROVE  Claiming'
BY DEF Claiming, Rec

(* A returning section leaves no claim behind that was not there.            *)
LEMMA LeavesClaims ==
  ASSUME Typed, Control, Leaves, sec.at # "free"
  PROVE  /\ \A e \in Edits : Claims(e)' => Claims(e) /\ act'[e] = act[e] /\ e # sec.by
         /\ ~(sec.job = "undo" /\ Undoing)'
<1>1. \A e \in Edits \ {sec.by} : act'[e] = act[e]
  BY DEF Leaves, Typed, TypedActors, TypedAct, Actors
<1>2. act'[sec.by].at \notin {"commit", "undo"}
  BY DEF Leaves
<1>3. sec'.by = "none" /\ sec'.job = "none"
  BY NoSectionTyped DEF Leaves
<1> QED
  BY <1>1, <1>2, <1>3, HandoffAssumption DEF Claims

LEMMA ClaimsOutside ==
  ASSUME Typed, Control, Outside
  PROVE  \A e \in Edits : Claims(e)' => Claims(e) /\ act'[e].id = act[e].id /\ act'[e].tgt = act[e].tgt
                                       /\ act'[e].src = act[e].src
<1> SUFFICES ASSUME NEW e \in Edits, Claims(e)'
             PROVE  Claims(e) /\ act'[e].id = act[e].id /\ act'[e].tgt = act[e].tgt
                    /\ act'[e].src = act[e].src
  OBVIOUS
<1>1. act \in [Actors -> Actor] /\ e \in Actors /\ e # "user" /\ e # "hook"
  BY HandoffAssumption DEF Typed, TypedActors, TypedAct, Actors
<1>2. sec' = sec
  BY DEF Outside, Retires, Commits, CommitRejected, EditBegins, StartAsked, Spawns, WebDies, DaemonDies
<1>3. CASE act'[e] = act[e]
  BY <1>2, <1>3 DEF Claims
<1>4. CASE CommitRejected(e)
  BY <1>1, <1>2, <1>4 DEF CommitRejected, Claims, Actor
<1>5. CASE act'[e].at \notin {"commit", "undo"} /\ act[e].at \notin {"busy", "starting"}
  BY <1>1, <1>2, <1>5, NoSectionTyped DEF Claims, Control, Held, Shaped
<1>6. ASSUME NEW x \in Edits, NEW p \in Profiles, EditBegins(x, p)
      PROVE  act'[e] = act[e] \/ (act'[e].at \notin {"commit", "undo"} /\ act[e].at \notin {"busy", "starting"})
  BY <1>1, <1>6 DEF EditBegins, Actors
<1>7. ASSUME NEW x \in Edits, Retires(x) \/ Commits(x)
      PROVE  act'[e] = act[e] \/ (act'[e].at \notin {"commit", "undo"} /\ act[e].at \notin {"busy", "starting"})
  BY <1>1, <1>7 DEF Retires, Commits, Actors, Actor
<1>8. ASSUME NEW x \in Edits, CommitRejected(x)
      PROVE  act'[e] = act[e] \/ x = e
  BY <1>1, <1>8 DEF CommitRejected
<1>9. ASSUME StartAsked
      PROVE  act'[e] = act[e]
  BY <1>1, <1>9 DEF StartAsked
<1>10. ASSUME NEW p \in Actors, Spawns(p)
       PROVE  act'[e] = act[e] \/ (act'[e].at \notin {"commit", "undo"} /\ act[e].at \notin {"busy", "starting"})
  BY <1>1, <1>10, NoActorTyped DEF Spawns
<1>11. ASSUME WebDies, sec.job \in {"none", "start"}
       PROVE  act'[e] = act[e] \/ (act'[e].at \notin {"commit", "undo"} /\ act[e].at \notin {"busy", "starting"})
  BY <1>1, <1>11, NoActorTyped DEF Control, Held, WebDies, InDaemon
<1>12. ASSUME DaemonDies, sec.job # "start"
       PROVE  act'[e] = act[e] \/ (act'[e].at \notin {"commit", "undo"} /\ act[e].at \notin {"busy", "starting"})
  BY <1>1, <1>12, NoActorTyped DEF Control, Held, DaemonDies, InDaemon
<1> QED
  BY <1>3, <1>4, <1>5, <1>6, <1>7, <1>8, <1>9, <1>10, <1>11, <1>12 DEF Outside

LEMMA ClaimingOutside ==
  ASSUME Typed, Control, Outside
  PROVE  Claiming'
<1>1. UNCHANGED <<sec, made, journal>>
  BY DEF Outside, Retires, Commits, CommitRejected, EditBegins, StartAsked, Spawns, WebDies, DaemonDies, records
<1>2. ASSUME sec.job = "undo", Undoing PROVE act'[sec.by].id = act[sec.by].id
  <2>1. PICK e \in Edits : e = sec.by
    BY <1>2 DEF Control, Shaped
  <2>2. Claims(e)'
    BY <1>1, <1>2, <2>1 DEF Claims
  <2> QED
    BY <2>1, <2>2, ClaimsOutside
<1>3. (sec.job = "undo" /\ Undoing)' => (act[sec.by].id = journal.id)'
  BY <1>1, <1>2 DEF Control, Claiming, Undoing
<1> QED
  BY <1>1, <1>3, ClaimsOutside, ClaimingKept DEF Control

LEMMA ClaimingStep ==
  ASSUME Typed, Control, [Next]_vars
  PROVE  Claiming'
<1>1. ASSUME NEW e \in Edits, NEW p \in Profiles, EditBegins(e, p) PROVE Claiming'
  BY <1>1, ClaimingOutside DEF Outside
<1>2. ASSUME NEW e \in Edits, Retires(e) PROVE Claiming'
  BY <1>2, ClaimingOutside DEF Outside
<1>3. ASSUME NEW e \in Edits, Commits(e) PROVE Claiming'
  BY <1>3, ClaimingOutside DEF Outside
<1>4. ASSUME NEW e \in Edits, CommitRejected(e) PROVE Claiming'
  BY <1>4, ClaimingOutside DEF Outside
<1>5. ASSUME StartAsked PROVE Claiming'
  BY <1>5, ClaimingOutside DEF Outside
<1>6. ASSUME NEW p \in Actors, Spawns(p) PROVE Claiming'
  BY <1>6, ClaimingOutside DEF Outside
<1>7. ASSUME NEW p \in Actors, Enter(p) PROVE Claiming'
  BY <1>7, ClaimingKept DEF Enter, records, Typed, TypedActors, TypedAct, Actor, Actors, NoSection,
    Claims, Control, Undoing
<1>8. ASSUME RecoveryThrows PROVE Claiming'
  BY <1>8, LeavesSteps, LeavesClaims, ClaimingKept DEF Control, records, RecoveryThrows
<1>9. ASSUME NothingToRecover PROVE Claiming'
  BY <1>9, ClaimingKept DEF NothingToRecover, records, Claims, Goto, Typed, TypedActors, TypedSec,
    Claiming, Control, Shaped, Laying, Undoing
<1>10. ASSUME RecoveryAdopts PROVE Claiming'
  BY <1>10 DEF RecoveryAdopts, Typed, TypedRecords, Claiming, Control, Claims, Undoing, Rec
<1>11. ASSUME RecoveryUndoes PROVE Claiming'
  BY <1>11, ClaimingKept DEF RecoveryUndoes, records, Claims, ToUndo, Typed, TypedActors, TypedSec,
    Claiming, Control, Shaped, Laying, Undoing
<1>12. ASSUME UndoClaimed PROVE Claiming'
  BY <1>12, ClaimingKept DEF UndoClaimed, records, Claims, ToUndo, In, Typed, TypedActors, TypedSec,
    Claiming, Control, Shaped, Laying, Undoing, MayUndo
<1>13. ASSUME UndoRefused PROVE Claiming'
  BY <1>13, LeavesSteps, LeavesClaims, ClaimingKept DEF Control, records, UndoRefused
<1>14. ASSUME UndoLink PROVE Claiming'
  BY <1>14, ClaimingKept DEF UndoLink, records, Claims, Typed, TypedActors, TypedSec, Claiming,
    Control, Shaped, Laying, Undoing
<1>15. ASSUME UndoBackups PROVE Claiming'
  <2> USE <1>15 DEF UndoBackups
  <2>1. CASE sec.bad
    BY <2>1, LeavesSteps, LeavesClaims, ClaimingKept DEF Control, records
  <2>2. CASE ~sec.bad
    BY <2>2, ClaimingKept DEF records, Goto, Control, Claiming, Claims, Undoing, Typed, TypedActors,
      TypedSec
  <2> QED
    BY <2>1, <2>2
<1>16. ASSUME UndoGeneration PROVE Claiming'
  BY <1>16, ClaimingKept DEF UndoGeneration, records, Claims, Goto, Typed, TypedActors, TypedSec,
    Claiming, Control, Shaped, Laying, Undoing
<1>17. ASSUME UndoCurrent PROVE Claiming'
  BY <1>17, ClaimingKept DEF UndoCurrent, records, Claims, Goto, Typed, TypedActors, TypedSec,
    Claiming, Control, Shaped, Laying, Undoing
<1>18. ASSUME UndoCommit PROVE Claiming'
  BY <1>18, ClaimingKept DEF UndoCommit, records, Claims, Goto, Typed, TypedActors, TypedSec,
    Claiming, Control, Shaped, Laying, Undoing
<1>19. ASSUME UndoJournal PROVE Claiming'
  <2> USE <1>19 DEF UndoJournal
  <2>1. UNCHANGED made /\ journal'.id = journal.id /\ journal'.prev = journal.prev
    BY DEF Typed, TypedRecords
  <2>2. CASE sec.why # "recover"
    <3>1. \A e \in Edits : Claims(e)' => Claims(e) /\ act'[e] = act[e] /\ e # sec.by
      BY <2>2, LeavesSteps, LeavesClaims DEF Control
    <3>2. ~(sec.job = "undo" /\ Undoing)'
      BY <2>2, LeavesSteps, LeavesClaims DEF Control
    <3>3. \A e \in Edits : Claims(e)' => act[e].id <= journal.prev
      <4> SUFFICES ASSUME NEW e \in Edits, Claims(e), e # sec.by PROVE act[e].id <= journal.prev
        BY <3>1
      <4>1. CASE sec.job = "undo"
        BY <4>1 DEF Control, Claiming, Claims, Undoing, Shaped
      <4>2. CASE sec.job # "undo"
        BY <2>2, <4>2 DEF Control, Claiming, Undoing, Shaped, Staged, Open
      <4> QED
        BY <4>1, <4>2
    <3> QED
      BY <2>1, <3>1, <3>2, <3>3 DEF Claiming, Control, Rec
  <2>3. CASE sec.why = "recover"
    BY <2>3, <2>1 DEF Goto, Typed, TypedActors, TypedSec, Control, Shaped, Undoing, Claims,
      Claiming, Staged, Open, Rec
  <2> QED
    BY <2>2, <2>3
<1>20. ASSUME PrepareRefused PROVE Claiming'
  BY <1>20, LeavesSteps, LeavesClaims, ClaimingKept DEF Control, records, PrepareRefused
<1>21. ASSUME PrepareBegins PROVE Claiming'
  BY <1>21, HolderTyped DEF PrepareBegins, Goto, Typed, TypedActors, TypedSec, Control, Shaped,
    Undoing, Generations, Present, TypedRecords, TypedAct, Actor, Actors, Claiming, Counted, Marked,
    Staged, Claims, Rec
<1>22. ASSUME Backup PROVE Claiming'
  BY <1>22, ClaimingKept DEF Backup, records, Claims, Goto, Typed, TypedActors, TypedSec, Claiming,
    Control, Shaped, Laying, Undoing
<1>23. ASSUME LinkStep PROVE Claiming'
  BY <1>23, ClaimingKept DEF LinkStep, records, Claims, Goto, Typed, TypedActors, TypedSec,
    Claiming, Control, Shaped, Laying, Undoing
<1>24. ASSUME WriteGeneration PROVE Claiming'
  BY <1>24, ClaimingKept DEF WriteGeneration, records, Claims, Goto, Typed, TypedActors, TypedSec,
    Claiming, Control, Shaped, Laying, Undoing
<1>25. ASSUME WritePrepared PROVE Claiming'
  BY <1>25 DEF WritePrepared, Goto, records, Typed, TypedActors, TypedSec, Control, Shaped, Undoing,
    Linked, TypedRecords, Staged, Claiming, Claims, Rec
<1>26. ASSUME WriteCommit PROVE Claiming'
  BY <1>26, ClaimingKept DEF WriteCommit, records, Claims, Goto, Typed, TypedActors, TypedSec,
    Claiming, Control, Shaped, Laying, Undoing
<1>27. ASSUME WriteCurrent PROVE Claiming'
  BY <1>27, ClaimingKept DEF WriteCurrent, records, Claims, Goto, Typed, TypedActors, TypedSec,
    Claiming, Control, Shaped, Laying, Undoing
<1>28. ASSUME WriteCommitted PROVE Claiming'
  <2> USE <1>28 DEF WriteCommitted
  <2>1. UNCHANGED made /\ sec.job # "undo"
    BY DEF records, Control, Shaped, Undoing
  <2>2. journal'.id = journal.id /\ journal'.prev = journal.prev /\ journal.phase = "prepared"
        /\ journal'.phase = "committed"
    BY DEF Typed, TypedRecords, Control, Staged
  <2>3. CASE sec.job # "prepare"
    BY <2>3, <2>1, <2>2 DEF Goto, Typed, TypedActors, TypedSec, Claiming, Control, Claims, Rec
  <2>4. CASE sec.job = "prepare"
    <3>1. sec' = NoSection /\ act' = [act EXCEPT ![sec.by] = [act[sec.by] EXCEPT !.at =
         "commit", !.id = journal.id]]
      BY <2>4, PreparesStep DEF Granted, Control
    <3>2. sec.by \in Edits /\ act[sec.by] \in Actor
      BY <2>4, HolderTyped DEF Control, Shaped
    <3>3. \A e \in Edits \ {sec.by} : act'[e] = act[e]
      BY <3>1 DEF Typed, TypedActors, TypedAct, Actors
    <3>4. act'[sec.by].id = journal.id /\ act'[sec.by].tgt = act[sec.by].tgt /\ act'[sec.by].src
         = act[sec.by].src
      BY <3>1, <3>2 DEF Typed, TypedActors, TypedAct, Actor, Actors
    <3>5. Rec(journal.id).tgt = act[sec.by].tgt /\ Rec(journal.id).src = act[sec.by].src
      BY DEF Control, Staged, Laying, Target, From, To
    <3>6. journal.id \in 1..Len(made) /\ journal.prev < journal.id
      BY JournalRec, JournalPhase DEF Control, Laying, Counted
    <3>7. \A e \in Edits \ {sec.by} : Claims(e)' => Claims(e) /\ act[e].id <= journal.prev
      BY <2>2, <3>1, <3>3, NoSectionTyped DEF Claims, Control, Claiming
    <3>8. sec'.job # "undo"
      BY <3>1, NoSectionTyped
    <3>9. \A e \in Edits : Claims(e)' => act'[e].id \in 1..Len(made) /\ Rec(act'[e].id).tgt =
         act'[e].tgt /\ Rec(act'[e].id).src = act'[e].src
            /\ (act'[e].id <= journal.prev \/ act'[e].id = journal.id)
      BY <3>3, <3>4, <3>5, <3>6, <3>7 DEF Control, Claiming
    <3>10. \A e, x \in Edits : Claims(e)' /\ Claims(x)' /\ act'[e].id = act'[x].id => e = x
      <4> SUFFICES ASSUME NEW e \in Edits, NEW x \in Edits, Claims(e)', Claims(x)', act'[e].id =
           act'[x].id, e # x
                   PROVE  FALSE
        OBVIOUS
      <4>1. journal.prev \in Nat /\ journal.id \in Nat
        BY DEF Typed, TypedRecords
      <4>2. CASE e = sec.by
        BY <3>3, <3>4, <3>6, <3>7, <4>1, <4>2
      <4>3. CASE x = sec.by
        BY <3>3, <3>4, <3>6, <3>7, <4>1, <4>3
      <4>4. CASE e # sec.by /\ x # sec.by
        BY <3>3, <3>7, <4>4 DEF Control, Claiming
      <4> QED
        BY <4>2, <4>3, <4>4
    <3> QED
      BY <2>1, <2>2, <3>8, <3>9, <3>10 DEF Claiming, Rec
  <2> QED
    BY <2>3, <2>4
<1>29. ASSUME PrepareFails PROVE Claiming'
  BY <1>29, ClaimingKept DEF PrepareFails, records, Claims, Goto, ToUndo, Typed, TypedActors,
    TypedSec, Claiming, Control, Shaped, Laying, Undoing
<1>30. ASSUME Finalizes PROVE Claiming'
  BY <1>30, LeavesSteps, LeavesClaims, ClaimingKept DEF Control, records, Finalizes
<1>31. ASSUME StartUnmanaged PROVE Claiming'
  BY <1>31, StartsSteps, HolderTyped, NoSectionTyped, HandoffAssumption, ClaimingKept DEF
    StartUnmanaged, records, Granted, Control, In, Typed, TypedActors, TypedAct, Actors, Actor,
    Claims
<1>32. ASSUME StartRefused PROVE Claiming'
  BY <1>32, LeavesSteps, LeavesClaims, ClaimingKept DEF Control, records, StartRefused
<1>33. ASSUME StartOpens PROVE Claiming'
  BY <1>33, ClaimingKept DEF StartOpens, records, Claims, Goto, In, Typed, TypedActors, TypedSec,
    Claiming, Control, Shaped, Laying, Undoing
<1>34. ASSUME StartActivates PROVE Claiming'
  BY <1>34, StartsSteps, HolderTyped, NoSectionTyped, HandoffAssumption, ClaimingKept DEF
    StartActivates, records, Granted, Control, In, Typed, TypedActors, TypedAct, Actors, Actor,
    Claims
<1>35. ASSUME HookIgnored PROVE Claiming'
  BY <1>35, LeavesSteps, LeavesClaims, ClaimingKept DEF Control, records, HookIgnored
<1>36. ASSUME HookMismatched PROVE Claiming'
  BY <1>36, LeavesSteps, LeavesClaims, ClaimingKept DEF Control, records, HookMismatched
<1>37. ASSUME HookCleans PROVE Claiming'
  BY <1>37, ClaimingKept DEF HookCleans, records, Claims, Goto, In, Typed, TypedActors, TypedSec,
    Claiming, Control, Shaped, Laying, Undoing
<1>38. ASSUME HookConfirms PROVE Claiming'
  BY <1>38, LeavesSteps, LeavesClaims, ClaimingKept DEF Control, records, HookConfirms
<1>39. ASSUME NEW a \in Artifacts, Writes(a) PROVE Claiming'
  BY <1>39, ClaimingKept DEF Control, Claiming, Claims, Undoing, records, history, Writes
<1>40. ASSUME NEW p \in Profiles, NEW a \in Artifacts, Deleted(p, a) PROVE Claiming'
  BY <1>40, ClaimingKept DEF Control, Claiming, Claims, Undoing, records, history, Deleted
<1>41. ASSUME Exits PROVE Claiming'
  BY <1>41, ClaimingKept DEF Control, Claiming, Claims, Undoing, records, history, Exits
<1>42. ASSUME WebDies PROVE Claiming'
  <2>1. CASE sec.job \in {"none", "start"}
    BY <1>42, <2>1, ClaimingOutside DEF Outside
  <2>2. CASE ~(sec.job \in {"none", "start"})
    BY <1>42, <2>2, NoSectionTyped, NoActorTyped, HandoffAssumption, ClaimingKept DEF WebDies,
      Actors, Typed, TypedActors, TypedAct, Claims, records, Control
  <2> QED
    BY <2>1, <2>2
<1>43. ASSUME DaemonDies PROVE Claiming'
  <2>1. CASE sec.job # "start"
    BY <1>43, <2>1, ClaimingOutside DEF Outside
  <2>2. CASE ~(sec.job # "start")
    BY <1>43, <2>2, NoSectionTyped, NoActorTyped, HandoffAssumption, ClaimingKept DEF DaemonDies,
      Actors, Typed, TypedActors, TypedAct, Claims, records, Control
  <2> QED
    BY <2>1, <2>2
<1>44. ASSUME UNCHANGED vars PROVE Claiming'
  BY <1>44, ClaimingKept DEF Control, Claiming, Claims, Undoing, vars, records
<1> QED
  BY <1>1, <1>2, <1>3, <1>4, <1>5, <1>6, <1>7, <1>8, <1>9, <1>10, <1>11, <1>12, <1>13, <1>14,
       <1>15, <1>16, <1>17, <1>18, <1>19, <1>20, <1>21, <1>22, <1>23, <1>24, <1>25, <1>26,
       <1>27, <1>28, <1>29, <1>30, <1>31, <1>32, <1>33, <1>34, <1>35, <1>36, <1>37, <1>38,
       <1>39, <1>40, <1>41, <1>42, <1>43, <1>44 DEF Next, Edit, Recovery, Undo, Prepare,
       StartSection, Hook, Environment

LEMMA RenewingKept ==
  ASSUME Renewing, UNCHANGED <<sec, journal, current, made>>, sec.at # "free" => To' = To
  PROVE  Renewing'
BY DEF Renewing, Open, Rec

LEMMA RenewingOutside ==
  ASSUME Typed, Control, Outside
  PROVE  Renewing'
<1>1. UNCHANGED <<sec, journal, current, made>>
  BY DEF Outside, Retires, Commits, CommitRejected, EditBegins, StartAsked, Spawns, WebDies, DaemonDies, records
<1> QED
  BY <1>1, HolderKept, RenewingKept DEF Control

LEMMA RenewingStep ==
  ASSUME Typed, Control, [Next]_vars
  PROVE  Renewing'
<1>1. ASSUME NEW e \in Edits, NEW p \in Profiles, EditBegins(e, p) PROVE Renewing'
  BY <1>1, RenewingOutside DEF Outside
<1>2. ASSUME NEW e \in Edits, Retires(e) PROVE Renewing'
  BY <1>2, RenewingOutside DEF Outside
<1>3. ASSUME NEW e \in Edits, Commits(e) PROVE Renewing'
  BY <1>3, RenewingOutside DEF Outside
<1>4. ASSUME NEW e \in Edits, CommitRejected(e) PROVE Renewing'
  BY <1>4, RenewingOutside DEF Outside
<1>5. ASSUME StartAsked PROVE Renewing'
  BY <1>5, RenewingOutside DEF Outside
<1>6. ASSUME NEW p \in Actors, Spawns(p) PROVE Renewing'
  BY <1>6, RenewingOutside DEF Outside
<1>7. ASSUME NEW p \in Actors, Enter(p) PROVE Renewing'
  BY <1>7 DEF Enter, NoSection, Renewing
<1>8. ASSUME RecoveryThrows PROVE Renewing'
  BY <1>8, NoSectionTyped DEF RecoveryThrows, Return, Renewing
<1>9. ASSUME NothingToRecover PROVE Renewing'
  BY <1>9 DEF NothingToRecover, Goto, Renewing, Control, Open, Rec, To, records, Typed,
       TypedActors, TypedSec
<1>10. ASSUME RecoveryAdopts PROVE Renewing'
  BY <1>10 DEF RecoveryAdopts, Renewing, Control, Open, Settled, Typed, TypedActors, TypedSec,
       TypedRecords, Phases
<1>11. ASSUME RecoveryUndoes PROVE Renewing'
  BY <1>11, NoSectionTyped DEF RecoveryUndoes, ToUndo, Renewing, Control, Typed, TypedActors,
    TypedSec, TypedRecords, Phases
<1>12. ASSUME UndoClaimed PROVE Renewing'
  BY <1>12, NoSectionTyped DEF UndoClaimed, ToUndo, In, Renewing, Control, Typed, TypedActors,
    TypedSec, TypedRecords, Phases
<1>13. ASSUME UndoRefused PROVE Renewing'
  BY <1>13, NoSectionTyped DEF UndoRefused, Return, Renewing
<1>14. ASSUME UndoLink PROVE Renewing'
  BY <1>14, NoSectionTyped DEF UndoLink, Renewing, Control, Typed, TypedActors, TypedSec,
    TypedRecords, Phases
<1>15. ASSUME UndoBackups PROVE Renewing'
  BY <1>15, NoSectionTyped DEF UndoBackups, Goto, Return, Renewing, Control, Typed, TypedActors,
    TypedSec, TypedRecords, Phases
<1>16. ASSUME UndoGeneration PROVE Renewing'
  BY <1>16, NoSectionTyped DEF UndoGeneration, Goto, Renewing, Control, Typed, TypedActors,
    TypedSec, TypedRecords, Phases
<1>17. ASSUME UndoCurrent PROVE Renewing'
  BY <1>17, NoSectionTyped DEF UndoCurrent, Goto, Renewing, Control, Typed, TypedActors, TypedSec,
    TypedRecords, Phases
<1>18. ASSUME UndoCommit PROVE Renewing'
  BY <1>18, NoSectionTyped DEF UndoCommit, Goto, Renewing, Control, Typed, TypedActors, TypedSec,
    TypedRecords, Phases
<1>19. ASSUME UndoJournal PROVE Renewing'
  BY <1>19, NoSectionTyped DEF UndoJournal, Goto, Return, Renewing, Control, Shaped, Undoing,
    Laying, Typed, TypedActors, TypedSec, TypedRecords, Phases
<1>20. ASSUME PrepareRefused PROVE Renewing'
  BY <1>20, NoSectionTyped DEF PrepareRefused, Return, Renewing
<1>21. ASSUME PrepareBegins PROVE Renewing'
  BY <1>21, NoSectionTyped DEF PrepareBegins, Goto, Renewing, Control, Typed, TypedActors, TypedSec,
    TypedRecords, Phases
<1>22. ASSUME Backup PROVE Renewing'
  BY <1>22, NoSectionTyped DEF Backup, Renewing, Control, Typed, TypedActors, TypedSec,
    TypedRecords, Phases
<1>23. ASSUME LinkStep PROVE Renewing'
  BY <1>23, NoSectionTyped DEF LinkStep, Renewing, Control, Typed, TypedActors, TypedSec,
    TypedRecords, Phases
<1>24. ASSUME WriteGeneration PROVE Renewing'
  BY <1>24, NoSectionTyped DEF WriteGeneration, Goto, Renewing, Control, Typed, TypedActors,
    TypedSec, TypedRecords, Phases
<1>25. ASSUME WritePrepared PROVE Renewing'
  BY <1>25, NoSectionTyped DEF WritePrepared, Goto, Renewing, Control, Typed, TypedActors, TypedSec,
    TypedRecords, Phases
<1>26. ASSUME WriteCommit PROVE Renewing'
  BY <1>26, NoSectionTyped DEF WriteCommit, Goto, Renewing, Control, Typed, TypedActors, TypedSec,
    TypedRecords, Phases
<1>27. ASSUME WriteCurrent PROVE Renewing'
  BY <1>27, NoSectionTyped DEF WriteCurrent, Goto, Renewing, Control, Typed, TypedActors, TypedSec,
    TypedRecords, Phases
<1>28. ASSUME WriteCommitted PROVE Renewing'
  BY <1>28, NoSectionTyped DEF WriteCommitted, Goto, Renewing, Control, Shaped, Undoing, Laying,
    Typed, TypedActors, TypedSec, TypedRecords, Phases
<1>29. ASSUME PrepareFails PROVE Renewing'
  BY <1>29, NoSectionTyped DEF PrepareFails, ToUndo, Renewing, Control, Typed, TypedActors,
    TypedSec, TypedRecords, Phases
<1>30. ASSUME Finalizes PROVE Renewing'
  BY <1>30, NoSectionTyped DEF Finalizes, Return, Renewing
<1>31. ASSUME StartUnmanaged PROVE Renewing'
  BY <1>31, NoSectionTyped DEF StartUnmanaged, Return, Renewing
<1>32. ASSUME StartRefused PROVE Renewing'
  BY <1>32, NoSectionTyped DEF StartRefused, Return, Renewing
<1>33. ASSUME StartOpens PROVE Renewing'
  BY <1>33 DEF StartOpens, In, Renewing, Control, Staged, Elsewhere, Unmanaged, Open, Rec, To,
       records, Typed, TypedActors, TypedSec
<1>34. ASSUME StartActivates PROVE Renewing'
  BY <1>34, NoSectionTyped DEF StartActivates, Return, Renewing
<1>35. ASSUME HookIgnored PROVE Renewing'
  BY <1>35, NoSectionTyped DEF HookIgnored, Return, Renewing
<1>36. ASSUME HookMismatched PROVE Renewing'
  BY <1>36, NoSectionTyped DEF HookMismatched, Return, Renewing
<1>37. ASSUME HookCleans PROVE Renewing'
  BY <1>37, NoSectionTyped DEF HookCleans, In, Renewing, Control, Typed, TypedActors, TypedSec,
    TypedRecords, Phases
<1>38. ASSUME HookConfirms PROVE Renewing'
  BY <1>38, NoSectionTyped DEF HookConfirms, Return, Renewing
<1>39. ASSUME NEW a \in Artifacts, Writes(a) PROVE Renewing'
  BY <1>39, RenewingKept DEF Control, records, To, Writes
<1>40. ASSUME NEW p \in Profiles, NEW a \in Artifacts, Deleted(p, a) PROVE Renewing'
  BY <1>40, RenewingKept DEF Control, records, To, Deleted
<1>41. ASSUME Exits PROVE Renewing'
  BY <1>41, RenewingKept DEF Control, records, To, Exits
<1>42. ASSUME WebDies PROVE Renewing'
  <2>1. CASE sec.job \in {"none", "start"}
    BY <1>42, <2>1, RenewingOutside DEF Outside
  <2>2. CASE ~(sec.job \in {"none", "start"})
    BY <1>42, <2>2, NoSectionTyped DEF Renewing, WebDies
  <2> QED
    BY <2>1, <2>2
<1>43. ASSUME DaemonDies PROVE Renewing'
  <2>1. CASE sec.job # "start"
    BY <1>43, <2>1, RenewingOutside DEF Outside
  <2>2. CASE ~(sec.job # "start")
    BY <1>43, <2>2, NoSectionTyped DEF Renewing, DaemonDies
  <2> QED
    BY <2>1, <2>2
<1>44. ASSUME UNCHANGED vars PROVE Renewing'
  BY <1>44, RenewingKept DEF Control, vars, records, To
<1> QED
  BY <1>1, <1>2, <1>3, <1>4, <1>5, <1>6, <1>7, <1>8, <1>9, <1>10, <1>11, <1>12, <1>13, <1>14,
       <1>15, <1>16, <1>17, <1>18, <1>19, <1>20, <1>21, <1>22, <1>23, <1>24, <1>25, <1>26,
       <1>27, <1>28, <1>29, <1>30, <1>31, <1>32, <1>33, <1>34, <1>35, <1>36, <1>37, <1>38,
       <1>39, <1>40, <1>41, <1>42, <1>43, <1>44 DEF Next, Edit, Recovery, Undo, Prepare,
       StartSection, Hook, Environment

(* A step that brings no new owner and leaves the records alone.             *)
LEMMA OwningKept ==
  ASSUME Owning, UNCHANGED <<journal, commit, current, immut>>,
         \A e \in Edits : Owns(e)' => Owns(e),
         (\E e \in Edits : Owns(e)') => (Undoing => Undoing')
  PROVE  Owning'
BY DEF Owning, Own

LEMMA OwningOpen ==
  ASSUME Typed, Control, Claiming', Counted', Typed', ~(journal.phase = "committed")'
  PROVE  (\A e \in Edits : ~Owns(e))' /\ Owning'
<1>1. (\A e \in Edits : ~Owns(e))'
  BY DEF Claiming, Counted, Owns, Typed, TypedRecords
<1> QED
  BY <1>1 DEF Owning

LEMMA OwningOutside ==
  ASSUME Typed, Control, Outside
  PROVE  Owning'
<1>1. UNCHANGED <<sec, journal, commit, current, immut>>
  BY DEF Outside, Retires, Commits, CommitRejected, EditBegins, StartAsked, Spawns, WebDies, DaemonDies, records
<1>2. \A e \in Edits : Owns(e)' => Owns(e)
  BY <1>1, ClaimsOutside DEF Owns
<1> QED
  BY <1>1, <1>2, OwningKept DEF Control, Undoing

LEMMA OwningStep ==
  ASSUME Typed, Control, [Next]_vars
  PROVE  Owning'
<1>1. ASSUME NEW e \in Edits, NEW p \in Profiles, EditBegins(e, p) PROVE Owning'
  BY <1>1, OwningOutside DEF Outside
<1>2. ASSUME NEW e \in Edits, Retires(e) PROVE Owning'
  BY <1>2, OwningOutside DEF Outside
<1>3. ASSUME NEW e \in Edits, Commits(e) PROVE Owning'
  BY <1>3, OwningOutside DEF Outside
<1>4. ASSUME NEW e \in Edits, CommitRejected(e) PROVE Owning'
  BY <1>4, OwningOutside DEF Outside
<1>5. ASSUME StartAsked PROVE Owning'
  BY <1>5, OwningOutside DEF Outside
<1>6. ASSUME NEW p \in Actors, Spawns(p) PROVE Owning'
  BY <1>6, OwningOutside DEF Outside
<1>7. ASSUME NEW p \in Actors, Enter(p) PROVE Owning'
  BY <1>7, NoSectionTyped, OwningKept DEF Enter, records, Typed, TypedActors, TypedAct, Actor,
    Actors, NoSection, Claims, Owns, Control, Undoing
<1>8. ASSUME RecoveryThrows PROVE Owning'
  BY <1>8, LeavesSteps, LeavesClaims, OwningKept DEF RecoveryThrows, records, Owns, Control, Undoing
<1>9. ASSUME NothingToRecover PROVE Owning'
  BY <1>9, OwningKept DEF NothingToRecover, Goto, records, Typed, TypedActors, TypedSec, Undoing,
    Owns, Claims, Control
<1>10. ASSUME RecoveryAdopts PROVE Owning'
  BY <1>10 DEF RecoveryAdopts, Undoing, Typed, TypedRecords, Settled, RecoveryFails, Owns, Control,
    Claiming, Counted, Phases, Owning, Claims
<1>11. ASSUME RecoveryUndoes PROVE Owning'
  BY <1>11, OwningKept DEF RecoveryUndoes, ToUndo, records, Typed, TypedActors, TypedSec, Undoing,
    Owns, Claims, Control
<1>12. ASSUME UndoClaimed PROVE Owning'
  BY <1>12, OwningKept DEF UndoClaimed, ToUndo, records, Typed, TypedActors, TypedSec, In, Undoing,
    Owns, Claims, Control
<1>13. ASSUME UndoRefused PROVE Owning'
  BY <1>13, LeavesSteps, LeavesClaims, OwningKept DEF UndoRefused, records, Owns, Control, In,
    Undoing
<1>14. ASSUME UndoLink PROVE Owning'
  BY <1>14 DEF UndoLink, Owning, Undoing, Typed, TypedActors, TypedSec
<1>15. ASSUME UndoBackups PROVE Owning'
  <2>1. UNCHANGED <<journal, commit, current, immut>>
    BY <1>15 DEF UndoBackups, records
  <2>2. CASE sec.bad
    BY <1>15, <2>2, LeavesSteps, LeavesClaims, <2>1 DEF Control, UndoBackups, Undoing, Owns, Staged,
      Shaped, Claiming, Open, Counted, Typed, TypedRecords, Claims, Owning
  <2>3. CASE ~sec.bad
    BY <1>15, <2>3 DEF UndoBackups, Goto, Owning, Undoing, Typed, TypedActors, TypedSec
  <2> QED
    BY <2>2, <2>3
<1>16. ASSUME UndoGeneration PROVE Owning'
  BY <1>16 DEF UndoGeneration, Goto, Owning, Undoing, Typed, TypedActors, TypedSec
<1>17. ASSUME UndoCurrent PROVE Owning'
  BY <1>17 DEF UndoCurrent, Goto, Owning, Undoing, Typed, TypedActors, TypedSec
<1>18. ASSUME UndoCommit PROVE Owning'
  BY <1>18 DEF UndoCommit, Goto, Owning, Undoing, Typed, TypedActors, TypedSec
<1>19. ASSUME UndoJournal PROVE Owning'
  BY <1>19, ClaimingStep, CountedStep, TypedStep, OwningOpen DEF UndoJournal, Control, Staged,
    Laying, Open, Typed, TypedRecords
<1>20. ASSUME PrepareRefused PROVE Owning'
  BY <1>20, LeavesSteps, LeavesClaims, OwningKept DEF PrepareRefused, records, Owns, Control,
    Undoing
<1>21. ASSUME PrepareBegins PROVE Owning'
  BY <1>21, ClaimingStep, CountedStep, TypedStep, OwningOpen DEF PrepareBegins, Control, Staged,
    Laying, Open, Typed, TypedRecords
<1>22. ASSUME Backup PROVE Owning'
  BY <1>22, ClaimingStep, CountedStep, TypedStep, OwningOpen DEF Backup, Control, Staged, Laying,
    Open, records, Typed, TypedRecords
<1>23. ASSUME LinkStep PROVE Owning'
  BY <1>23, ClaimingStep, CountedStep, TypedStep, OwningOpen DEF LinkStep, Control, Staged, Laying,
    Open, records, Typed, TypedRecords
<1>24. ASSUME WriteGeneration PROVE Owning'
  BY <1>24, ClaimingStep, CountedStep, TypedStep, OwningOpen DEF WriteGeneration, Control, Staged,
    Laying, Open, Typed, TypedRecords
<1>25. ASSUME WritePrepared PROVE Owning'
  BY <1>25, ClaimingStep, CountedStep, TypedStep, OwningOpen DEF WritePrepared, Linked, Control,
    Staged, Laying, Open, Typed, TypedRecords
<1>26. ASSUME WriteCommit PROVE Owning'
  BY <1>26, ClaimingStep, CountedStep, TypedStep, OwningOpen DEF WriteCommit, Control, Staged,
    Laying, Open, Typed, TypedRecords
<1>27. ASSUME WriteCurrent PROVE Owning'
  BY <1>27, ClaimingStep, CountedStep, TypedStep, OwningOpen DEF WriteCurrent, Control, Staged,
    Laying, Open, Typed, TypedRecords
<1>28. ASSUME WriteCommitted PROVE Owning'
  BY <1>28 DEF WriteCommitted, Control, Staged, Owning, Own, Typed, TypedRecords
<1>29. ASSUME PrepareFails PROVE Owning'
  BY <1>29, OwningKept DEF PrepareFails, ToUndo, records, Typed, TypedActors, TypedSec, Undoing,
    Owns, Claims, Control
<1>30. ASSUME Finalizes PROVE Owning'
  BY <1>30, LeavesSteps, LeavesClaims, OwningKept DEF Finalizes, records, Owns, Control, In, Undoing
<1>31. ASSUME StartUnmanaged PROVE Owning'
  BY <1>31, StartsSteps, HolderTyped, NoSectionTyped, HandoffAssumption, OwningKept DEF
    StartUnmanaged, records, Granted, Control, In, Undoing, Typed, TypedActors, TypedAct, Actors,
    Actor, Claims, Owns
<1>32. ASSUME StartRefused PROVE Owning'
  BY <1>32, LeavesSteps, LeavesClaims, OwningKept DEF StartRefused, records, Owns, Control, In,
    Undoing
<1>33. ASSUME StartOpens PROVE Owning'
  BY <1>33, OwningKept DEF StartOpens, records, Typed, TypedActors, TypedSec, In, Undoing, Owns,
    Claims, Control
<1>34. ASSUME StartActivates PROVE Owning'
  BY <1>34, StartsSteps, HolderTyped, NoSectionTyped, HandoffAssumption, OwningKept DEF
    StartActivates, Granted, Control, In, Undoing, Typed, TypedActors, TypedAct, Actors, Actor,
    Claims, Owns
<1>35. ASSUME HookIgnored PROVE Owning'
  BY <1>35, LeavesSteps, LeavesClaims, OwningKept DEF HookIgnored, records, Owns, Control, In,
    Undoing
<1>36. ASSUME HookMismatched PROVE Owning'
  BY <1>36, LeavesSteps, LeavesClaims, OwningKept DEF HookMismatched, Owns, Control, In, Undoing
<1>37. ASSUME HookCleans PROVE Owning'
  BY <1>37, OwningKept DEF HookCleans, records, Typed, TypedActors, TypedSec, In, Undoing, Owns,
    Claims, Control
<1>38. ASSUME HookConfirms PROVE Owning'
  BY <1>38, LeavesSteps, LeavesClaims, OwningKept DEF HookConfirms, Owns, Control, In, Undoing
<1>39. ASSUME NEW a \in Artifacts, Writes(a) PROVE Owning'
  BY <1>39, OwningKept DEF Control, Owns, Claims, Undoing, records, Writes
<1>40. ASSUME NEW p \in Profiles, NEW a \in Artifacts, Deleted(p, a) PROVE Owning'
  BY <1>40, OwningKept DEF Control, Owns, Claims, Undoing, records, history, Deleted
<1>41. ASSUME Exits PROVE Owning'
  BY <1>41, OwningKept DEF Control, Owns, Claims, Undoing, records, history, Exits
<1>42. ASSUME WebDies PROVE Owning'
  <2>1. CASE sec.job \in {"none", "start"}
    BY <1>42, <2>1, OwningOutside DEF Outside
  <2>2. CASE ~(sec.job \in {"none", "start"})
    BY <1>42, <2>2, NoSectionTyped, NoActorTyped, HandoffAssumption DEF WebDies, Actors, Typed,
      TypedActors, TypedAct, Claims, Owns, records, InDaemon, Owning
  <2> QED
    BY <2>1, <2>2
<1>43. ASSUME DaemonDies PROVE Owning'
  <2>1. CASE sec.job # "start"
    BY <1>43, <2>1, OwningOutside DEF Outside
  <2>2. CASE ~(sec.job # "start")
    BY <1>43, <2>2, NoSectionTyped, NoActorTyped, HandoffAssumption, OwningKept DEF DaemonDies,
      Actors, Typed, TypedActors, TypedAct, Claims, Owns, records, Control, Staged, Shaped,
      Claiming, Counted, Open, TypedRecords
  <2> QED
    BY <2>1, <2>2
<1>44. ASSUME UNCHANGED vars PROVE Owning'
  BY <1>44, OwningKept DEF Control, Owns, Claims, Undoing, vars, records
<1> QED
  BY <1>1, <1>2, <1>3, <1>4, <1>5, <1>6, <1>7, <1>8, <1>9, <1>10, <1>11, <1>12, <1>13, <1>14,
       <1>15, <1>16, <1>17, <1>18, <1>19, <1>20, <1>21, <1>22, <1>23, <1>24, <1>25, <1>26,
       <1>27, <1>28, <1>29, <1>30, <1>31, <1>32, <1>33, <1>34, <1>35, <1>36, <1>37, <1>38,
       <1>39, <1>40, <1>41, <1>42, <1>43, <1>44 DEF Next, Edit, Recovery, Undo, Prepare,
       StartSection, Hook, Environment

LEMMA ControlStep ==
  ASSUME Typed, Control, [Next]_vars
  PROVE  Control'
BY ShapedStep, HeldStep, RolesStep, CountedStep, MarkedStep, StagedStep, ClaimingStep, RenewingStep,
   OwningStep DEF Control

LEMMA TypedInit == Init => Typed
<1> SUFFICES ASSUME Init PROVE Typed
  OBVIOUS
<1>1. TypedFiles
  BY DEF Init, TypedFiles, NoBackup, NoFiles, Dests, Links
<1>2. TypedRecords
  BY DEF Init, TypedRecords, NoJournal, NoBackup, NoFiles, Dests, Links, Phases
<1>3. TypedActors
  BY NoActorTyped, NoSectionTyped, HandoffAssumption DEF Init, TypedActors, TypedAct, TypedSec, TypedRest
<1> QED
  BY <1>1, <1>2, <1>3 DEF Typed

LEMMA ControlInit == Init => Control
<1> SUFFICES ASSUME Init PROVE Control
  OBVIOUS
<1>1. /\ sec = NoSection /\ \A p \in Actors : act[p] = NoActor
      /\ journal.id = 0 /\ journal.prev = 0 /\ journal.phase = "none"
      /\ commit = 0 /\ current = 0 /\ immut = {} /\ made = <<>> /\ activation.id = 0
  BY DEF Init, NoJournal
<1>2. Shaped /\ Held
  BY <1>1, NoSectionTyped, NoActorTyped DEF Shaped, Held, Laying, Undoing
<1>3. Roles
  BY <1>1, NoActorTyped, HandoffAssumption DEF Roles, Moving, Actors
<1>4. Counted /\ Marked
  BY <1>1, NoSectionTyped DEF Counted, Marked, Open
<1>5. Staged /\ Renewing
  BY <1>1, NoSectionTyped DEF Staged, Renewing, Laying, Catching, Undoing, In
<1>6. Claiming /\ Owning
  BY <1>1, NoActorTyped, NoSectionTyped, HandoffAssumption DEF Claiming, Claims, Owning, Owns, Actors
<1> QED
  BY <1>2, <1>3, <1>4, <1>5, <1>6 DEF Control

(* Being at home carries over when the manifest stays, no claim goes and no  *)
(* edit becomes able to commit.                                              *)
LEMMA HomeFrom ==
  ASSUME NEW g, NEW h, NEW X, NEW Y, Home(g, X), manifest' = manifest,
         g = 0 <=> h = 0, g # 0 => Rec(h)'.tgt = Rec(g).tgt,
         \A e \in Edits \ X : Claims(e) => e \notin Y /\ Claims(e)' /\ act'[e].tgt = act[e].tgt,
         \A e \in Edits \ Y : Viable(e)' => e \notin X /\ Viable(e)
  PROVE  Home(h, Y)'
<1>1. Named(g, X) => Named(h, Y)'
  BY DEF Named
<1> QED
  BY <1>1 DEF Home

LEMMA HomedKept ==
  ASSUME Homed, UNCHANGED <<journal, made, current, manifest>>,
         \A e \in Edits : Claims(e) => Claims(e)' /\ act'[e].tgt = act[e].tgt,
         \A e \in Edits : Claims(e)' => Claims(e) /\ act'[e].id = act[e].id,
         \A e \in Edits : Viable(e)' => Viable(e),
         Open /\ Preparing => Preparing'
  PROVE  Homed'
<1>1. PICK g : g = Base
  OBVIOUS
<1>2. PICK h : h = journal.prev
  OBVIOUS
<1>3. Base' = g /\ journal'.prev = h /\ (Open' <=> Open) /\ \A i : Rec(i)' = Rec(i)
  BY <1>1, <1>2 DEF Base, Open, Rec
<1>4. Home(g, {})'
  BY <1>1, <1>3, HomeFrom DEF Homed
<1>5. ASSUME NEW x \in Edits, Owns(x)' PROVE Home(h, {x})'
  BY <1>5, <1>2, <1>3, HomeFrom DEF Owns, Homed
<1>6. Open' => Preparing' \/ (h # 0 /\ Target' = Rec(h)'.tgt)
  BY <1>2, <1>3 DEF Homed, Target, Rec
<1> QED
  BY <1>3, <1>4, <1>5, <1>6 DEF Homed

(* A step inside the section that leaves the generation in force alone.      *)
LEMMA HomedInside ==
  ASSUME Typed, Control, Homed, UNCHANGED <<journal, made, current, manifest, act>>,
         sec'.by = sec.by, sec'.job = sec.job, Open /\ Preparing => Preparing'
  PROVE  Homed'
BY HomedKept DEF Claims, Viable

LEMMA HomedLeft ==
  ASSUME Typed, Control, Homed, UNCHANGED <<journal, made, current, manifest>>,
         Leaves, sec.at # "free", sec.job # "undo", ~Preparing
  PROVE  Homed'
<1>1. \A e \in Edits : Claims(e)' => Claims(e) /\ act'[e] = act[e] /\ e # sec.by
  BY LeavesClaims
<1>2. \A e \in Edits : act'[e] = act[e] \/ (e = sec.by /\ act'[e].at \notin {"commit", "undo"})
  BY DEF Leaves, Typed, TypedActors, TypedAct, Actors
<1>3. \A e \in Edits : e = sec.by => act[e].at \in {"busy", "starting"}
  BY HandoffAssumption DEF Control, Held, Shaped
<1>4. \A e \in Edits : Claims(e) => Claims(e)' /\ act'[e].tgt = act[e].tgt
  BY <1>2, <1>3 DEF Claims
<1>5. \A e \in Edits : Viable(e)' => Viable(e)
  BY <1>2 DEF Viable
<1> QED
  BY <1>1, <1>4, <1>5, HomedKept

LEMMA HomeStep ==
  ASSUME Typed, Control, HomeInv, [Next]_vars
  PROVE  HomeInv'
<1>1. ASSUME NEW e \in Edits, NEW p \in Profiles, EditBegins(e, p) PROVE HomeInv'
  BY <1>1, ClaimsOutside, HandoffAssumption, NoSectionTyped, NoActorTyped, HomedKept DEF EditBegins,
    records, Outside, Typed, TypedActors, TypedAct, Actors, Control, Held, Shaped, Claims, Actor,
    Viable, Preparing, Laying, Catching, Undoing, HomeInv
<1>2. ASSUME NEW e \in Edits, Retires(e) PROVE HomeInv'
  BY <1>2, ClaimsOutside, HandoffAssumption, NoSectionTyped, NoActorTyped, HomedKept DEF Retires,
    records, history, Outside, Typed, TypedActors, TypedAct, Actors, Control, Held, Shaped, Claims,
    Actor, Viable, Preparing, Laying, Catching, Undoing, HomeInv
<1>3. ASSUME NEW e \in Edits, Commits(e) PROVE HomeInv'
  <2> SUFFICES ASSUME ~abandoned', ~returned', HomeInv PROVE Homed'
    BY DEF HomeInv
  <2>1. UNCHANGED <<journal, made, current, sec, abandoned>> /\ manifest' = act[e].tgt /\
       ~returned
    BY <1>3 DEF Commits, records
  <2>2. Homed
    BY <2>1 DEF HomeInv
  <2>3. act \in [Actors -> Actor] /\ e \in Actors
    BY DEF Typed, TypedActors, TypedAct, Actors
  <2>4. \A x \in Edits \ {e} : act'[x] = act[x]
    BY <1>3, <2>3 DEF Commits
  <2>5. act'[e].at = "finalize" /\ act[e].at = "commit" /\ Viable(e)
    BY <1>3, <2>3 DEF Commits, Unchanged, Viable, Actor
  <2>6. sec.by # e \/ sec.at = "free"
    BY <2>3, <2>5, HandoffAssumption DEF Control, Held, Shaped
  <2>7. \A x \in Edits \ {e} : Claims(x)' <=> Claims(x)
    BY <2>1, <2>4 DEF Claims
  <2>8. ~Claims(e)'
    BY <2>1, <2>5, <2>6, NoSectionTyped DEF Claims, Control, Shaped
  <2>9. \A x \in Edits : ~Viable(x)'
    BY <2>5, <2>1, <2>4, <1>3 DEF Viable, Pending, Commits
  <2>10. \A i : Rec(i)' = Rec(i)
    BY <2>1 DEF Rec
  <2>11. ASSUME NEW g, NEW X, Home(g, X), e \notin X PROVE Home(g, X)'
    <3>1. Named(g, X)
      BY <2>5, <2>11 DEF Home
    <3>2. PICK x \in Edits \ X : g # 0 /\ Claims(x) /\ act[x].tgt = Rec(g).tgt
      BY <3>1 DEF Named
    <3>3. CASE x = e
      BY <2>1, <2>9, <2>10, <3>2, <3>3 DEF Home
    <3>4. CASE x # e
      BY <2>4, <2>7, <2>9, <2>10, <3>2, <3>4 DEF Home, Named
    <3> QED
      BY <3>3, <3>4
  <2>12. PICK g : g = Base
    OBVIOUS
  <2>13. PICK h : h = journal.prev
    OBVIOUS
  <2>14. Base' = g /\ journal'.prev = h /\ (Open' <=> Open) /\ Target' = Target
    BY <2>1, <2>12, <2>13 DEF Base, Open, Target, Rec
  <2>15. Home(g, {})'
    BY <2>2, <2>11, <2>12 DEF Homed
  <2>16. ASSUME NEW x \in Edits, Owns(x)' PROVE Home(h, {x})'
    BY <2>1, <2>4, <2>7, <2>8, <2>16, <2>2, <2>13, <2>11 DEF Owns, Homed
  <2>17. Preparing => Preparing'
    BY <2>1 DEF Preparing, Laying, Catching, Undoing
  <2> QED
    BY <2>2, <2>10, <2>13, <2>14, <2>15, <2>16, <2>17 DEF Homed
<1>4. ASSUME NEW e \in Edits, CommitRejected(e) PROVE HomeInv'
  BY <1>4, ClaimsOutside, HandoffAssumption, NoSectionTyped, NoActorTyped, HomedKept DEF
    CommitRejected, records, history, Outside, Typed, TypedActors, TypedAct, Actors, Control, Held,
    Shaped, Claims, Actor, Viable, Preparing, Laying, Catching, Undoing, HomeInv
<1>5. ASSUME StartAsked PROVE HomeInv'
  BY <1>5, ClaimsOutside, HandoffAssumption, NoSectionTyped, NoActorTyped, HomedKept DEF StartAsked,
    records, history, Outside, Typed, TypedActors, TypedAct, Actors, Control, Held, Shaped, Claims,
    Actor, Viable, Preparing, Laying, Catching, Undoing, HomeInv
<1>6. ASSUME NEW p \in Actors, Spawns(p) PROVE HomeInv'
  BY <1>6, ClaimsOutside, HandoffAssumption, NoSectionTyped, NoActorTyped, HomedKept DEF Spawns,
    records, history, Outside, Typed, TypedActors, TypedAct, Actors, Control, Held, Shaped, Claims,
    Actor, Viable, Preparing, Laying, Catching, Undoing, HomeInv
<1>7. ASSUME NEW p \in Actors, Enter(p) PROVE HomeInv'
  BY <1>7, NoSectionTyped, HomedKept DEF Enter, records, history, Typed, TypedActors, TypedAct,
    Actor, Actors, NoSection, Claims, Viable, Preparing, HomeInv
<1>8. ASSUME RecoveryThrows PROVE HomeInv'
  BY <1>8, LeavesSteps, HomedLeft DEF RecoveryThrows, records, history, Control, Preparing, Laying,
    Catching, Undoing, Shaped, HomeInv
<1>9. ASSUME NothingToRecover PROVE HomeInv'
  BY <1>9, HomedInside DEF NothingToRecover, records, history, Goto, Typed, TypedActors, TypedSec,
    In, Open, Preparing, Laying, Catching, Undoing, Control, Shaped, Staged, HomeInv
<1>10. ASSUME RecoveryAdopts PROVE HomeInv'
  <2>1. UNCHANGED <<made, manifest, act, sec, abandoned, returned, commit>> /\ journal'.id =
       journal.id
        /\ journal'.prev = journal.prev
    BY <1>10 DEF RecoveryAdopts, history, Typed, TypedRecords
  <2>2. Open /\ ~Preparing /\ journal.id # 0
    BY <1>10 DEF RecoveryAdopts, Settled, RecoveryFails, Open, Preparing, Laying, Catching,
         Undoing, Typed, TypedRecords,
        Phases, Control, Counted
  <2> SUFFICES ASSUME Homed PROVE Homed'
    BY <2>1 DEF HomeInv
  <2>3. PICK g : g = journal.prev
    OBVIOUS
  <2>4. PICK h : h = journal.id
    OBVIOUS
  <2>5. g # 0 /\ h # 0 /\ Rec(h).tgt = Rec(g).tgt /\ Home(g, {})
    BY <2>2, <2>3, <2>4 DEF Homed, Base, Target
  <2>6. \A e \in Edits : (Claims(e)' <=> Claims(e)) /\ (Viable(e)' => Viable(e)) /\ ~Owns(e)'
    BY <2>2, <2>1 DEF Owns, Control, Claiming, Open, Counted, Typed, TypedRecords, Claims, Viable
  <2>7. \A i : Rec(i)' = Rec(i)
    BY <2>1 DEF Rec
  <2>8. Home(g, {})' /\ Home(h, {})'
    BY <2>1, <2>5, <2>6, <2>7, HomeFrom
  <2>9. Base' \in {g, h}
    BY <1>10, <2>1, <2>3, <2>4 DEF RecoveryAdopts, Base, Open
  <2>10. Target' = Rec(g)'.tgt
    BY <2>1, <2>4, <2>5, <2>7 DEF Target
  <2> QED
    BY <2>1, <2>3, <2>5, <2>6, <2>8, <2>9, <2>10 DEF Homed
<1>11. ASSUME RecoveryUndoes PROVE HomeInv'
  BY <1>11, HomedInside DEF RecoveryUndoes, records, history, ToUndo, Typed, TypedActors, TypedSec,
    In, Open, Preparing, Laying, Catching, Undoing, Control, Shaped, Staged, HomeInv
<1>12. ASSUME UndoClaimed PROVE HomeInv'
  BY <1>12, HomedInside DEF UndoClaimed, records, history, ToUndo, Typed, TypedActors, TypedSec, In,
    Open, Preparing, Laying, Catching, Undoing, Control, Shaped, Staged, HomeInv
<1>13. ASSUME UndoRefused PROVE HomeInv'
  BY <1>13 DEF UndoRefused, HomeInv
<1>14. ASSUME UndoLink PROVE HomeInv'
  BY <1>14, HomedInside DEF UndoLink, records, history, Typed, TypedActors, TypedSec, In, Open,
    Preparing, Laying, Catching, Undoing, Control, Shaped, Staged, HomeInv
<1>15. ASSUME UndoBackups PROVE HomeInv'
  <2>1. CASE sec.bad
    BY <1>15, <2>1 DEF UndoBackups, HomeInv
  <2>2. CASE ~sec.bad
    BY <1>15, <2>2, HomedInside DEF UndoBackups, Goto, records, Preparing, Laying, Catching,
      Undoing, Typed, TypedActors, TypedSec, HomeInv
  <2> QED
    BY <2>1, <2>2
<1>16. ASSUME UndoGeneration PROVE HomeInv'
  BY <1>16, HomedInside DEF UndoGeneration, history, Goto, Typed, TypedActors, TypedSec, In, Open,
    Preparing, Laying, Catching, Undoing, Control, Shaped, Staged, HomeInv
<1>17. ASSUME UndoCurrent PROVE HomeInv'
  <2>1. UNCHANGED <<journal, made, manifest, act, abandoned, returned>> /\ current' =
       journal.prev
        /\ (Open' <=> Open)
    BY <1>17 DEF UndoCurrent, Restored, history, Open
  <2>2. sec'.by = sec.by /\ sec'.job = sec.job /\ (Preparing => Preparing')
    BY <1>17 DEF UndoCurrent, Goto, Preparing, Laying, Catching, Undoing, Typed, TypedActors,
         TypedSec
  <2> SUFFICES ASSUME Homed PROVE Homed'
    BY <2>1 DEF HomeInv
  <2>3. PICK g : g = journal.prev
    OBVIOUS
  <2>4. Base' = g /\ Rec(g)' = Rec(g) /\ Target' = Target
    BY <2>1, <2>3 DEF Base, Rec, Target
  <2>5. \A e \in Edits : (Claims(e)' <=> Claims(e)) /\ (Viable(e)' => Viable(e)) /\ (Owns(e)'
       <=> Owns(e))
    BY <2>1, <2>2 DEF Claims, Viable, Owns
  <2>6. Home(g, {})'
    <3>1. CASE Open
      BY <2>1, <2>3, <2>4, <2>5, <3>1, HomeFrom DEF Homed, Base
    <3>2. CASE ~Open
      <4>1. sec.why = "undo" /\ sec.job = "undo"
        BY <1>17, <3>2 DEF UndoCurrent, Undoing, Control, Staged, Shaped
      <4>2. PICK e \in Edits : e = sec.by /\ act[e].at = "busy"
        BY <4>1, HandoffAssumption, NoSectionTyped DEF Control, Shaped, Held
      <4>3. Owns(e)
        BY <1>17, <4>1, <4>2 DEF Owns, Claims, Control, Claiming, UndoCurrent, Undoing
      <4>4. Home(g, {e})
        BY <2>3, <4>3 DEF Homed
      <4>5. ~Viable(e)'
        BY <2>1, <4>2 DEF Viable
      <4> QED
        BY <2>1, <2>4, <2>5, <4>4, <4>5, HomeFrom
    <3> QED
      BY <3>1, <3>2
  <2>7. ASSUME NEW x \in Edits, Owns(x) PROVE Home(g, {x})'
    BY <2>3, <2>7, <2>1, <2>4, <2>5, HomeFrom DEF Homed
  <2> QED
    BY <2>1, <2>2, <2>3, <2>4, <2>5, <2>6, <2>7 DEF Homed
<1>18. ASSUME UndoCommit PROVE HomeInv'
  BY <1>18, HomedInside DEF UndoCommit, history, Goto, Typed, TypedActors, TypedSec, In, Open,
    Preparing, Laying, Catching, Undoing, Control, Shaped, Staged, HomeInv
<1>19. ASSUME UndoJournal PROVE HomeInv'
  <2>1. UNCHANGED <<made, manifest, current, abandoned, returned>> /\ journal'.prev =
       journal.prev
        /\ journal'.id = journal.id /\ ~Open'
    BY <1>19 DEF UndoJournal, history, Typed, TypedRecords, Open
  <2> SUFFICES ASSUME Homed PROVE Homed'
    BY <2>1 DEF HomeInv
  <2>2. PICK g : g = journal.prev
    OBVIOUS
  <2>3. Base = g /\ Base' = g /\ \A i : Rec(i)' = Rec(i)
    BY <1>19, <2>1, <2>2 DEF UndoJournal, Base, Rec, Control, Staged
  <2>4. Home(g, {})
    BY <2>3 DEF Homed
  <2>5. \A e \in Edits : ~Owns(e)'
    BY ClaimingStep, <1>19, <2>1 DEF Owns, Control, Claiming, UndoJournal, Counted, Typed,
         TypedRecords
  <2>6. Home(g, {})'
    <3>1. CASE sec.why = "recover"
      BY <1>19, <3>1, <2>1, <2>3, <2>4, HomeFrom DEF UndoJournal, Goto, Typed, TypedActors,
        TypedSec, Claims, Viable
    <3>2. CASE sec.why # "recover"
      <4>1. Leaves /\ sec.at # "free"
        BY <1>19, <3>2, LeavesSteps DEF Control
      <4>2. \A e \in Edits : act'[e] = act[e] \/ (e = sec.by /\ act'[e].at \notin {"commit",
           "undo"})
        BY <4>1 DEF Leaves, Typed, TypedActors, TypedAct, Actors
      <4>3. \A e \in Edits : Viable(e)' => Viable(e) /\ e # sec.by
        BY <2>1, <4>1, <4>2, HandoffAssumption DEF Viable, Control, Held, Shaped
      <4>4. CASE sec.job # "undo"
        BY <4>1, HandoffAssumption, <4>2, <4>4, <2>1, <2>3, <2>4, <4>3, HomeFrom DEF Control, Held,
          Shaped, Claims
      <4>5. CASE sec.job = "undo"
        <5>1. PICK e \in Edits : e = sec.by
          BY <4>5 DEF Control, Shaped
        <5>2. Owns(e)
          BY <1>19, <4>5, <5>1 DEF Owns, Claims, Control, Claiming, UndoJournal, Undoing
        <5>3. Home(g, {e})
          BY <2>2, <5>2 DEF Homed
        <5>4. \A x \in Edits \ {e} : Claims(x) => Claims(x)' /\ act'[x].tgt = act[x].tgt
          BY <4>2, <5>1 DEF Claims
        <5> QED
          BY <2>1, <2>3, <4>3, <5>1, <5>3, <5>4, HomeFrom
      <4> QED
        BY <4>4, <4>5
    <3> QED
      BY <3>1, <3>2
  <2> QED
    BY <2>1, <2>3, <2>5, <2>6 DEF Homed
<1>20. ASSUME PrepareRefused PROVE HomeInv'
  BY <1>20, LeavesSteps, HomedLeft DEF PrepareRefused, records, history, Control, Preparing, Laying,
    Catching, Undoing, Shaped, HomeInv
<1>21. ASSUME PrepareBegins PROVE HomeInv'
  <2> USE <1>21 DEF PrepareBegins
  <2>1. UNCHANGED <<manifest, act, current, abandoned, returned>>
    BY DEF history
  <2>2. journal'.id = Len(made) + 1 /\ journal'.prev = current /\ Open' /\ ~Open
    BY DEF Open, Control, Staged
  <2>3. [src |-> From, tgt |-> To, arts |-> Present(From)] \in Generations
    BY HolderTyped DEF Generations, Present, Control
  <2>4. made'[Len(made) + 1].tgt = To /\ \A g \in 1..Len(made) : made'[g] = made[g]
    BY <2>3 DEF Typed, TypedRecords
  <2>5. sec'.by = sec.by /\ sec'.job = sec.job /\ sec'.at = "backup" /\ sec'.why = sec.why
    BY DEF Goto, Typed, TypedActors, TypedSec
  <2>6. sec.job \in {"prepare", "start"} /\ (sec.job = "start" => sec.why = "refresh")
    BY DEF Control, Shaped, Laying, Undoing, Typed, TypedActors, TypedSec, Jobs
  <2> SUFFICES ASSUME Homed PROVE Homed'
    BY <2>1 DEF HomeInv
  <2>7. PICK g : g = current
    OBVIOUS
  <2>8. Base = g /\ Base' = g /\ Home(g, {})
    BY <2>2, <2>7 DEF Base, Homed
  <2>9. g # 0 => g \in 1..Len(made)
    BY <2>7 DEF Typed, TypedRecords, Control, Counted, Marked
  <2>10. \A e \in Edits : (Claims(e)' <=> Claims(e)) /\ (Viable(e)' => Viable(e))
    BY <2>1, <2>5 DEF Claims, Viable
  <2>11. g # 0 => Rec(g)'.tgt = Rec(g).tgt
    BY <2>4, <2>9 DEF Rec
  <2>12. Home(g, {})'
    BY <2>1, <2>8, <2>10, <2>11, HomeFrom
  <2>13. \A e \in Edits : ~Owns(e)'
    BY ClaimingStep, CountedStep, <2>2 DEF Owns, Control, Claiming, Counted, Open, Typed,
         TypedRecords
  <2>14. Preparing' \/ (g # 0 /\ Target' = Rec(g)'.tgt)
    <3>1. CASE sec.job = "prepare"
      BY <2>5, <3>1 DEF Preparing, Laying
    <3>2. CASE sec.job = "start"
      BY <2>6, <2>7, <3>2, <2>2, <2>4, <2>11 DEF Control, Renewing, Target, Rec
    <3> QED
      BY <2>6, <3>1, <3>2
  <2> QED
    BY <2>2, <2>7, <2>8, <2>12, <2>13, <2>14 DEF Homed
<1>22. ASSUME Backup PROVE HomeInv'
  BY <1>22, HomedInside DEF Backup, records, history, Goto, Typed, TypedActors, TypedSec, In, Open,
    Preparing, Laying, Catching, Undoing, Control, Shaped, Staged, HomeInv
<1>23. ASSUME LinkStep PROVE HomeInv'
  BY <1>23, HomedInside DEF LinkStep, records, history, Goto, Typed, TypedActors, TypedSec, In,
    Open, Preparing, Laying, Catching, Undoing, Control, Shaped, Staged, HomeInv
<1>24. ASSUME WriteGeneration PROVE HomeInv'
  BY <1>24, HomedInside DEF WriteGeneration, history, Goto, Typed, TypedActors, TypedSec, In, Open,
    Preparing, Laying, Catching, Undoing, Control, Shaped, Staged, HomeInv
<1>25. ASSUME WritePrepared PROVE HomeInv'
  <2>1. UNCHANGED <<made, current, manifest, act, abandoned, returned>>
    BY <1>25 DEF WritePrepared, history
  <2>2. journal'.prev = journal.prev /\ journal'.id = journal.id /\ Open /\ Open'
    BY <1>25 DEF WritePrepared, Linked, Open, Typed, TypedRecords, Control, Staged
  <2>3. sec'.by = sec.by /\ sec'.job = sec.job /\ (Preparing => Preparing')
    BY <1>25 DEF WritePrepared, Goto, Preparing, Laying, Catching, Undoing, Typed, TypedActors,
         TypedSec
  <2> SUFFICES ASSUME Homed PROVE Homed'
    BY <2>1 DEF HomeInv
  <2>4. PICK g : g = journal.prev
    OBVIOUS
  <2>5. Base = g /\ Base' = g /\ Rec(g)' = Rec(g) /\ Target' = Target
    BY <2>1, <2>2, <2>4 DEF Base, Rec, Target
  <2>6. \A e \in Edits : (Claims(e)' <=> Claims(e)) /\ (Viable(e)' => Viable(e)) /\ (Owns(e)'
       <=> Owns(e))
    BY <2>1, <2>2, <2>3 DEF Claims, Viable, Owns
  <2>7. Home(g, {})'
    BY <2>1, <2>5, <2>6, HomeFrom DEF Homed
  <2>8. ASSUME NEW x \in Edits, Owns(x) PROVE Home(g, {x})'
    BY <2>4, <2>8, <2>1, <2>5, <2>6, HomeFrom DEF Homed
  <2> QED
    BY <2>2, <2>3, <2>4, <2>5, <2>6, <2>7, <2>8 DEF Homed
<1>26. ASSUME WriteCommit PROVE HomeInv'
  BY <1>26, HomedInside DEF WriteCommit, history, Goto, Typed, TypedActors, TypedSec, In, Open,
    Preparing, Laying, Catching, Undoing, Control, Shaped, Staged, HomeInv
<1>27. ASSUME WriteCurrent PROVE HomeInv'
  <2>1. UNCHANGED <<journal, made, manifest, act, abandoned, returned>> /\ Open /\ Open'
    BY <1>27 DEF WriteCurrent, history, Open, Control, Staged
  <2>2. sec'.by = sec.by /\ sec'.job = sec.job /\ (Preparing => Preparing')
    BY <1>27 DEF WriteCurrent, Goto, Preparing, Laying, Catching, Undoing, Typed, TypedActors,
         TypedSec
  <2> SUFFICES ASSUME Homed PROVE Homed'
    BY <2>1 DEF HomeInv
  <2>3. PICK g : g = journal.prev
    OBVIOUS
  <2>4. Base = g /\ Base' = g /\ Rec(g)' = Rec(g) /\ Target' = Target
    BY <2>1, <2>3 DEF Base, Rec, Target
  <2>5. \A e \in Edits : (Claims(e)' <=> Claims(e)) /\ (Viable(e)' => Viable(e)) /\ (Owns(e)'
       <=> Owns(e))
    BY <2>1, <2>2 DEF Claims, Viable, Owns
  <2>6. Home(g, {})'
    BY <2>1, <2>4, <2>5, HomeFrom DEF Homed
  <2>7. ASSUME NEW x \in Edits, Owns(x) PROVE Home(g, {x})'
    BY <2>3, <2>7, <2>1, <2>4, <2>5, HomeFrom DEF Homed
  <2> QED
    BY <2>1, <2>2, <2>3, <2>4, <2>5, <2>6, <2>7 DEF Homed
<1>28. ASSUME WriteCommitted PROVE HomeInv'
  <2> USE <1>28 DEF WriteCommitted
  <2>1. UNCHANGED <<manifest, made, current, abandoned, returned>>
    BY DEF history
  <2>2. journal'.id = journal.id /\ journal'.prev = journal.prev /\ journal'.phase = "committed"
        /\ Open /\ ~Open' /\ current = journal.id /\ journal.id # 0
    BY JournalPhase DEF Open, Control, Staged, Laying, Typed, TypedRecords
  <2> SUFFICES ASSUME Homed PROVE Homed'
    BY <2>1 DEF HomeInv
  <2>3. PICK g : g = journal.prev
    OBVIOUS
  <2>4. PICK h : h = journal.id
    OBVIOUS
  <2>5. Base = g /\ Base' = h /\ Home(g, {}) /\ h # 0
    BY <2>1, <2>2, <2>3, <2>4 DEF Base, Homed
  <2>6. \A i : Rec(i)' = Rec(i)
    BY <2>1 DEF Rec
  <2>7. \A e \in Edits : ~Owns(e)
    BY <2>2 DEF Owns, Control, Claiming, Open, Counted, Typed, TypedRecords
  <2>8. CASE sec.job # "prepare"
    BY <2>8, <2>2, <2>3, <2>4, <2>1, <2>7, <2>5, <2>6, HomeFrom DEF Goto, Typed, TypedActors,
      TypedSec, Homed, Preparing, Target, Claims, Viable, Owns
  <2>9. CASE sec.job = "prepare"
    <3>1. sec' = NoSection /\ act' = [act EXCEPT ![sec.by] = [act[sec.by] EXCEPT !.at =
         "commit", !.id = journal.id]]
      BY <2>9, PreparesStep DEF Granted, Control
    <3>2. PICK e \in Edits : e = sec.by
      BY <2>9 DEF Control, Shaped
    <3>3. act[e] \in Actor /\ act[e].at = "busy"
      BY <2>9, <3>2, HandoffAssumption DEF Control, Held, Typed, TypedActors, TypedAct, Actors
    <3>4. \A x \in Edits \ {e} : act'[x] = act[x]
      BY <3>1, <3>2 DEF Typed, TypedActors, TypedAct, Actors
    <3>5. act'[e].id = h /\ act'[e].at = "commit" /\ act'[e].tgt = act[e].tgt
      BY <2>4, <3>1, <3>2, <3>3 DEF Typed, TypedActors, TypedAct, Actor, Actors
    <3>6. Rec(h).tgt = act[e].tgt
      BY <2>4, <3>2 DEF Control, Staged, Laying, Target, To
    <3>7. ~Claims(e) /\ Claims(e)' /\ \A x \in Edits \ {e} : Claims(x)' <=> Claims(x)
      BY <2>9, <3>1, <3>2, <3>3, <3>4, <3>5, NoSectionTyped, HandoffAssumption DEF Claims
    <3>8. Named(h, {})'
      BY <2>5, <2>6, <3>5, <3>6, <3>7 DEF Named
    <3>9. Home(h, {})'
      BY <3>8 DEF Home
    <3>10. ASSUME NEW x \in Edits, Owns(x)' PROVE Home(g, {x})'
      BY <2>2, <3>4, <3>7, <3>10, <2>7, <2>1, <2>5, <2>6, HomeFrom DEF Owns, Viable
    <3> QED
      BY <2>2, <2>3, <2>5, <3>9, <3>10 DEF Homed
  <2> QED
    BY <2>8, <2>9
<1>29. ASSUME PrepareFails PROVE HomeInv'
  BY <1>29, HomedInside DEF PrepareFails, records, history, Goto, ToUndo, Typed, TypedActors,
    TypedSec, In, Open, Preparing, Laying, Catching, Undoing, Control, Shaped, Staged, HomeInv
<1>30. ASSUME Finalizes PROVE HomeInv'
  BY <1>30, LeavesSteps, HomedLeft DEF Finalizes, records, history, Control, In, Preparing, Laying,
    Catching, Undoing, Shaped, HomeInv
<1>31. ASSUME StartUnmanaged PROVE HomeInv'
  BY <1>31, HolderTyped, StartsSteps, NoSectionTyped, HomedKept DEF StartUnmanaged, records, In,
    Control, Granted, Typed, TypedActors, TypedAct, Actor, Actors, Held, Claims, Viable, Preparing,
    HomeInv
<1>32. ASSUME StartRefused PROVE HomeInv'
  BY <1>32, LeavesSteps, HomedLeft DEF StartRefused, records, history, Control, In, Preparing,
    Laying, Catching, Undoing, Shaped, HomeInv
<1>33. ASSUME StartOpens PROVE HomeInv'
  BY <1>33, HomedInside DEF StartOpens, records, history, Goto, Typed, TypedActors, TypedSec, In,
    Open, Preparing, Laying, Catching, Undoing, Control, Shaped, Staged, HomeInv
<1>34. ASSUME StartActivates PROVE HomeInv'
  BY <1>34, HolderTyped, StartsSteps, NoSectionTyped, HomedKept DEF StartActivates, In, Control,
    Granted, Typed, TypedActors, TypedAct, Actor, Actors, Held, Claims, Viable, Preparing, HomeInv
<1>35. ASSUME HookIgnored PROVE HomeInv'
  BY <1>35, LeavesSteps, HomedLeft DEF HookIgnored, records, history, Control, In, Preparing,
    Laying, Catching, Undoing, Shaped, HomeInv
<1>36. ASSUME HookMismatched PROVE HomeInv'
  BY <1>36, LeavesSteps, HomedLeft DEF HookMismatched, history, Control, In, Preparing, Laying,
    Catching, Undoing, Shaped, HomeInv
<1>37. ASSUME HookCleans PROVE HomeInv'
  BY <1>37, HomedInside DEF HookCleans, records, history, Goto, Typed, TypedActors, TypedSec, In,
    Open, Preparing, Laying, Catching, Undoing, Control, Shaped, Staged, HomeInv
<1>38. ASSUME HookConfirms PROVE HomeInv'
  BY <1>38, LeavesSteps, HomedLeft DEF HookConfirms, history, Control, In, Preparing, Laying,
    Catching, Undoing, Shaped, HomeInv
<1>39. ASSUME NEW a \in Artifacts, Writes(a) PROVE HomeInv'
  BY <1>39, HomedInside DEF Writes, records, history, HomeInv, Preparing, Laying, Catching, Undoing
<1>40. ASSUME NEW p \in Profiles, NEW a \in Artifacts, Deleted(p, a) PROVE HomeInv'
  BY <1>40, HomedInside DEF Deleted, records, history, HomeInv, Preparing, Laying, Catching, Undoing
<1>41. ASSUME Exits PROVE HomeInv'
  BY <1>41, HomedInside DEF Exits, records, history, HomeInv, Preparing, Laying, Catching, Undoing
<1>42. ASSUME WebDies PROVE HomeInv'
  BY <1>42, NoActorTyped, HandoffAssumption, NoSectionTyped, HomedKept DEF HomeInv, WebDies,
    records, Actors, InDaemon, Control, Held, Shaped, Claims, Viable, Preparing
<1>43. ASSUME DaemonDies PROVE HomeInv'
  BY <1>43, HandoffAssumption, NoSectionTyped, NoActorTyped, HomedKept DEF DaemonDies, records,
    InDaemon, Actors, Control, Held, Shaped, Claims, Viable, Preparing, Laying, Catching, Undoing,
    HomeInv
<1>44. ASSUME UNCHANGED vars PROVE HomeInv'
  BY <1>44, HomedInside DEF HomeInv, Preparing, Laying, Catching, Undoing, vars, records,
       history
<1> QED
  BY <1>1, <1>2, <1>3, <1>4, <1>5, <1>6, <1>7, <1>8, <1>9, <1>10, <1>11, <1>12, <1>13, <1>14,
       <1>15, <1>16, <1>17, <1>18, <1>19, <1>20, <1>21, <1>22, <1>23, <1>24, <1>25, <1>26,
       <1>27, <1>28, <1>29, <1>30, <1>31, <1>32, <1>33, <1>34, <1>35, <1>36, <1>37, <1>38,
       <1>39, <1>40, <1>41, <1>42, <1>43, <1>44 DEF Next, Edit, Recovery, Undo, Prepare,
       StartSection, Hook, Environment

LEMMA HomeInit == Init => HomeInv
<1> SUFFICES ASSUME Init PROVE Homed
  BY DEF HomeInv
<1>1. /\ sec = NoSection /\ \A p \in Actors : act[p] = NoActor
      /\ journal.phase = "none" /\ current = 0
  BY DEF Init, NoJournal
<1>2. \A e \in Edits : ~Claims(e) /\ ~Viable(e) /\ ~Owns(e)
  BY <1>1, NoActorTyped, NoSectionTyped, HandoffAssumption DEF Claims, Viable, Owns, Actors
<1>3. ~Open /\ Base = 0
  BY <1>1 DEF Open, Base
<1>4. Home(0, {})
  BY <1>2 DEF Home
<1> QED
  BY <1>2, <1>3, <1>4 DEF Homed

(* What the records say when no edit is on its way.                          *)
LEMMA HomeAtRest ==
  ASSUME Typed, Control, HomeInv
  PROVE  HomeIsTarget
<1> SUFFICES ASSUME sec = NoSection, Resting, ~abandoned, ~returned, current # 0
             PROVE  Rec(current).tgt = manifest
  BY DEF HomeIsTarget
<1>1. Homed
  BY DEF HomeInv
<1>2. \A e \in Edits : ~Claims(e)
  BY NoSectionTyped DEF Resting, Claims
<1>3. PICK g : g = Base
  OBVIOUS
<1>4. g = 0 \/ Rec(g).tgt = manifest
  BY <1>1, <1>2, <1>3 DEF Homed, Home, Named
<1>5. CASE ~Open
  BY <1>3, <1>4, <1>5 DEF Base
<1>6. CASE Open
  BY NoSectionTyped, <1>1, <1>3, <1>6, <1>4 DEF Preparing, Homed, Base, Control, Marked, Target
<1> QED
  BY <1>5, <1>6

(* With no edit in flight and none abandoned, and unless the manifest went   *)
(* away and came back under an edit that had read it, the generation in      *)
(* force is for the manifest's profile: prepareClaudeSessionStartLocked does *)
(* not refuse the session's start as continuity-session-conflict.            *)
THEOREM GenerationIsHome == Spec => []HomeIsTarget
<1>1. Init => Typed /\ Control /\ HomeInv
  BY TypedInit, ControlInit, HomeInit
<1>2. Typed /\ Control /\ HomeInv /\ [Next]_vars => (Typed /\ Control /\ HomeInv)'
  BY TypedStep, ControlStep, HomeStep
<1>3. Typed /\ Control /\ HomeInv => HomeIsTarget
  BY HomeAtRest
<1> QED
  BY <1>1, <1>2, <1>3, PTL DEF Spec

-----------------------------------------------------------------------------
(* Who runs.                                                                 *)

LEMMA RacedKept ==
  ASSUME [Next]_vars, ~raced'
  PROVE  ~raced
BY DEF Next, Edit, EditBegins, Retires, Commits, CommitRejected, StartAsked, Spawns, Enter,
       Recovery, RecoveryThrows, NothingToRecover, RecoveryAdopts, RecoveryUndoes,
       Undo, UndoClaimed, UndoRefused, UndoLink, UndoBackups, UndoGeneration, UndoCurrent,
       UndoCommit, UndoJournal, Prepare, PrepareRefused, PrepareBegins, Backup, LinkStep,
       WriteGeneration, WritePrepared, WriteCommit, WriteCurrent, WriteCommitted, PrepareFails,
       Finalizes, StartSection, StartUnmanaged, StartRefused, StartOpens, StartActivates, Races,
       Hook, HookIgnored, HookMismatched, HookCleans, HookConfirms, Environment, Writes,
       Deleted, Exits, WebDies, DaemonDies, history, vars

(* An actor whose call holds the lock is no edit at rest.                    *)
LEMMA ClaimsMove ==
  ASSUME Typed, Control, NEW e \in Edits, Claims(e)
  PROVE  Moving(e) /\ act[e].at # "retire"
<1>1. sec.by = e /\ sec.job = "undo" => act[e].at = "busy"
  BY HandoffAssumption, NoSectionTyped DEF Control, Held, Shaped
<1> QED
  BY <1>1 DEF Claims, Moving

LEMMA PreparerMoves ==
  ASSUME Typed, Control, sec.job \in {"prepare", "undo", "finalize"}
  PROVE  sec.by \in Edits /\ act[sec.by].at = "busy" /\ Moving(sec.by)
BY HandoffAssumption, NoSectionTyped DEF Control, Held, Shaped, Moving

LEMMA MovingIsDown ==
  ASSUME Typed, Quiet, NEW e \in Edits, Moving(e), act[e].at # "retire"
  PROVE  ~Up
BY DEF Quiet, Up

LEMMA QuietKept ==
  ASSUME Quiet, UNCHANGED <<manifest, journal, current, made, activation>>,
         running' \in {running, "none"},
         \A p \in Actors : act'[p].at = "spawn" => act[p].at = "spawn" /\ act'[p].tgt = act[p].tgt,
         \A e \in Edits : Moving(e)' => Moving(e) /\ act'[e].src = act[e].src
                             /\ (act[e].at = "retire" => act'[e].at = "retire"),
         \A e \in Edits : Claims(e)' => Claims(e) /\ act'[e].id = act[e].id,
         Open /\ ~Refreshing => act'["hook"].at = "idle" \/ Preparing'
  PROVE  Quiet'
<1>1. Up' => Up
  BY DEF Up
<1>2. (Open' <=> Open) /\ (Refreshing' <=> Refreshing) /\ \A g : Rec(g)' = Rec(g)
  BY DEF Open, Refreshing, Target, Rec
<1>3. \A g : Recallable(g)' => Recallable(g)
  BY DEF Undoable, Open, Owns, Recallable
<1>4. PICK i : i = activation.id
  OBVIOUS
<1>5. activation'.id = i /\ (Recallable(activation.id)' <=> Recallable(i)')
  BY <1>4 DEF Recallable
<1>6. Rec(activation.id)' = Rec(i)
  BY <1>2, <1>4 DEF Rec
<1>7. Rec(current)' = Rec(current)
  BY DEF Rec
<1> QED
  BY <1>1, <1>2, <1>3, <1>4, <1>5, <1>6, <1>7 DEF Quiet

(* Inside the section, with the records of the generations as they are.      *)
LEMMA QuietInside ==
  ASSUME Quiet, UNCHANGED <<manifest, running, act, journal, current, made, activation>>,
         sec'.by = sec.by, sec'.job = sec.job, Open /\ Preparing => Preparing'
  PROVE  Quiet'
<1>1. \A e \in Edits : (Moving(e)' <=> Moving(e)) /\ (Claims(e)' <=> Claims(e))
  BY DEF Moving, Claims
<1>2. Open /\ ~Refreshing => act'["hook"].at = "idle" \/ Preparing'
  BY DEF Quiet
<1> QED
  BY <1>1, <1>2, QuietKept

LEMMA QuietLeft ==
  ASSUME Typed, Control, Quiet, UNCHANGED <<manifest, running, journal, current, made, activation>>,
         Leaves, sec.at # "free", ~(Open /\ Preparing)
  PROVE  Quiet'
<1>1. \A p \in Actors \ {sec.by} : act'[p] = act[p]
  BY DEF Leaves, Typed, TypedActors, TypedAct
<1>2. sec.by \in Actors /\ act'[sec.by].at # "spawn"
  BY HolderTyped DEF Leaves, Control
<1>3. \A e \in Edits : Moving(e)' => act'[e] = act[e] /\ Moving(e)
  BY <1>1, HandoffAssumption DEF Leaves, Moving, Actors
<1>4. \A e \in Edits : Claims(e)' => Claims(e) /\ act'[e] = act[e]
  BY LeavesClaims
<1>5. act["hook"].at = "idle" => act'["hook"].at = "idle"
  BY <1>1 DEF Control, Held, Shaped, Actors
<1>6. \A p \in Actors : act'[p].at = "spawn" => act[p].at = "spawn" /\ act'[p].tgt = act[p].tgt
  BY <1>1, <1>2
<1>7. Open /\ ~Refreshing => act'["hook"].at = "idle" \/ Preparing'
  BY <1>5 DEF Quiet
<1> QED
  BY <1>3, <1>4, <1>6, <1>7, QuietKept


(* A step of the records inside the section.                                 *)
LEMMA QuietRecords ==
  ASSUME Quiet, UNCHANGED <<manifest, running, act, activation>>,
         \A e \in Edits : Claims(e)' => Claims(e),
         Up => (current' = 0 \/ Rec(current)'.tgt = manifest) /\ (Open' => Refreshing'),
         Open' /\ ~Refreshing' => ~Up /\ (act["hook"].at = "idle" \/ Preparing'),
         NEW i, i = activation.id,
         i # 0 /\ Recallable(activation.id)' => Recallable(i) /\ Rec(activation.id)' = Rec(i)
  PROVE  Quiet'
<1>1. \A e \in Edits : Moving(e)' <=> Moving(e)
  BY DEF Moving
<1>2. Up' <=> Up
  BY DEF Up
<1>3. Recallable(i) => Recallable(activation.id)
  BY DEF Recallable
<1>4. Rec(i) = Rec(activation.id)
  BY DEF Rec
<1> QED
  BY <1>1, <1>2, <1>3, <1>4 DEF Quiet

(* In an unsettled journal of a started conversation both generations are    *)
(* the manifest's profile's.                                                 *)
LEMMA RefreshedHome ==
  ASSUME Control, Quiet, Up, Open
  PROVE  /\ Refreshing /\ journal.prev # 0
         /\ Rec(journal.prev).tgt = manifest /\ Rec(journal.id).tgt = manifest
BY DEF Quiet, Refreshing, Target, Control, Counted, Marked, Open

LEMMA QuietStep ==
  ASSUME Typed, Control, Quiet, Started, Backed, ~raced', [Next]_vars
  PROVE  Quiet'
<1>1. ASSUME NEW e \in Edits, NEW p \in Profiles, EditBegins(e, p) PROVE Quiet'
  <2>1. UNCHANGED <<manifest, running, sec, journal, current, made, activation>> /\ act[e].at =
       "idle"
    BY <1>1 DEF EditBegins, records
  <2>2. \A x \in Actors : ~InDaemon(x)
    BY <1>1 DEF EditBegins
  <2>3. act \in [Actors -> Actor] /\ e \in Actors /\ e # "hook" /\ "hook" \in Actors
    BY HandoffAssumption DEF Typed, TypedActors, TypedAct, Actors
  <2>4. \A x \in Actors \ {e} : act'[x] = act[x]
    BY <1>1, <2>3 DEF EditBegins
  <2>5. act'[e].at \in {"prepare", "retire"} /\ act'[e].src = manifest
        /\ (running # "none" => act'[e].at = "retire")
    BY <1>1, <2>3 DEF EditBegins
  <2>6. \A x \in Edits : Claims(x)' => Claims(x) /\ act'[x].id = act[x].id
    BY <1>1, ClaimsOutside DEF Outside
  <2>7. \A x \in Edits : Moving(x)' => (x = e \/ (Moving(x) /\ act'[x] = act[x]))
    BY <2>4 DEF Moving, Actors
  <2>8. \A x \in Actors : act[x].at # "spawn" /\ act'[x].at # "spawn"
    BY <2>2, <2>4, <2>5 DEF InDaemon
  <2>9. Up' => Up
    BY <2>1, <2>8 DEF Up
  <2>10. (Open' <=> Open) /\ (Refreshing' <=> Refreshing) /\ (Preparing' <=> Preparing) /\
       Rec(current)' = Rec(current)
    BY <2>1 DEF Open, Refreshing, Target, Rec, Preparing, Laying, Catching, Undoing
  <2>11. Rec(activation.id)' = Rec(activation.id) /\ (Recallable(activation.id)' =>
       Recallable(activation.id))
    BY <2>1, <2>6 DEF Undoable, Open, Owns, Rec, Recallable
  <2>12. act'["hook"] = act["hook"]
    BY <2>3, <2>4
  <2> QED
    BY <2>1, <2>5, <2>6, <2>7, <2>8, <2>9, <2>10, <2>11, <2>12 DEF Quiet
<1>2. ASSUME NEW e \in Edits, Retires(e) PROVE Quiet'
  <2>1. UNCHANGED <<manifest, sec, journal, current, made, activation>> /\ running' = "none" /\
       act[e].at = "retire"
    BY <1>2 DEF Retires, records
  <2>2. act \in [Actors -> Actor] /\ e \in Actors /\ e # "hook" /\ "hook" \in Actors
    BY HandoffAssumption DEF Typed, TypedActors, TypedAct, Actors
  <2>3. act' = [act EXCEPT ![e].at = "prepare"]
    BY <1>2 DEF Retires
  <2>4. \A x \in Actors : act'[x].src = act[x].src /\ act'[x].tgt = act[x].tgt
          /\ (act'[x].at = act[x].at \/ (x = e /\ act'[x].at = "prepare"))
    BY <2>2, <2>3 DEF Actor
  <2>5. \A x \in Edits : Claims(x)' => Claims(x) /\ act'[x].id = act[x].id
    BY <1>2, ClaimsOutside DEF Outside
  <2>6. Moving(e)
    BY <2>1 DEF Moving
  <2>7. \A x \in Edits : Moving(x)' => Moving(x) /\ act'[x].src = act[x].src
    BY <2>4, <2>6 DEF Moving, Actors
  <2>8. \A x \in Actors : act[x].at # "spawn" /\ act'[x].at # "spawn"
    BY <2>4, <2>6 DEF Quiet
  <2>9. ~Up'
    BY <2>1, <2>8 DEF Up
  <2>10. (Open' <=> Open) /\ (Refreshing' <=> Refreshing) /\ (Preparing' <=> Preparing) /\
       Rec(current)' = Rec(current)
    BY <2>1 DEF Open, Refreshing, Target, Rec, Preparing, Laying, Catching, Undoing
  <2>11. Rec(activation.id)' = Rec(activation.id) /\ (Recallable(activation.id)' =>
       Recallable(activation.id))
    BY <2>1, <2>5 DEF Undoable, Open, Owns, Rec, Recallable
  <2>12. act'["hook"].at = act["hook"].at
    BY <2>2, <2>4
  <2> QED
    BY <2>1, <2>5, <2>7, <2>8, <2>9, <2>10, <2>11, <2>12 DEF Quiet
<1>3. ASSUME NEW e \in Edits, Commits(e) PROVE Quiet'
  <2>1. UNCHANGED <<sec, running, journal, current, made, activation>> /\ act[e].at = "commit"
       /\ act[e].src = manifest
    BY <1>3 DEF Commits, Unchanged, records
  <2>2. act \in [Actors -> Actor] /\ e \in Actors /\ e # "hook" /\ "hook" \in Actors
    BY HandoffAssumption DEF Typed, TypedActors, TypedAct, Actors
  <2>3. act' = [act EXCEPT ![e].at = "finalize"]
    BY <1>3 DEF Commits
  <2>4. \A x \in Actors : act'[x].src = act[x].src /\ act'[x].tgt = act[x].tgt /\ act'[x].id =
       act[x].id
          /\ (act'[x].at = act[x].at \/ (x = e /\ act'[x].at = "finalize"))
    BY <2>2, <2>3 DEF Actor
  <2>5. Claims(e) /\ Moving(e)
    BY <2>1 DEF Claims, Moving
  <2>6. \A x \in Actors : act[x].at # "spawn" /\ act'[x].at # "spawn"
    BY <2>4, <2>5 DEF Quiet
  <2>7. running = "none"
    BY <2>1, <2>5 DEF Quiet
  <2>8. ~Up'
    BY <2>1, <2>6, <2>7 DEF Up
  <2>9. \A x \in Edits : Claims(x)' => Claims(x) /\ x # e /\ act'[x].id = act[x].id
    BY <2>1, <2>2, HandoffAssumption, <2>3, NoSectionTyped, <1>3, ClaimsOutside DEF Control, Held,
      Shaped, Claims, Actor, Outside
  <2>10. (Open' <=> Open) /\ (Refreshing' <=> Refreshing) /\ (Preparing' <=> Preparing)
    BY <2>1 DEF Open, Refreshing, Target, Rec, Preparing, Laying, Catching, Undoing
  <2>11. activation.id # 0 => ~Recallable(activation.id)'
    <3>1. PICK i : i = activation.id /\ i \in Nat
      BY DEF Typed, TypedRecords
    <3>2. i < act[e].id /\ act[e].id \in Nat
      BY <2>2, <2>5, <3>1 DEF Quiet, Actor
    <3>3. act[e].id <= journal.prev \/ (act[e].id = journal.id /\ journal.phase = "committed")
      BY <2>5 DEF Control, Claiming
    <3>4. journal.prev \in Nat /\ journal.id \in Nat /\ current \in {journal.prev, journal.id}
          /\ (journal.id # 0 => journal.prev < journal.id) /\ (journal.id = 0 => journal.prev =
               0)
      BY DEF Typed, TypedRecords, Control, Marked, Counted
    <3>5. CASE act[e].id <= journal.prev
      BY <2>1, <3>1, <3>2, <3>4, <3>5 DEF Recallable
    <3>6. CASE act[e].id = journal.id /\ journal.phase = "committed"
      BY <2>5, <3>6, PreparerMoves, <2>1, <2>9, <3>1, <3>2 DEF Owns, Control, Staged, Shaped,
        Claiming, Open, Claims, Owning, Undoable, Recallable
    <3> QED
      BY <3>3, <3>5, <3>6
  <2>12. act'["hook"].at = act["hook"].at
    BY <2>2, <2>4
  <2> QED
    BY <2>1, <2>6, <2>7, <2>8, <2>9, <2>10, <2>11, <2>12 DEF Quiet
<1>4. ASSUME NEW e \in Edits, CommitRejected(e) PROVE Quiet'
  <2>1. UNCHANGED <<manifest, running, sec, journal, current, made, activation>> /\ act[e].at =
       "commit"
    BY <1>4 DEF CommitRejected, records
  <2>2. act \in [Actors -> Actor] /\ e \in Actors /\ e # "hook" /\ "hook" \in Actors
    BY HandoffAssumption DEF Typed, TypedActors, TypedAct, Actors
  <2>3. act' = [act EXCEPT ![e].at = "undo"]
    BY <1>4 DEF CommitRejected
  <2>4. \A x \in Actors : act'[x].src = act[x].src /\ act'[x].tgt = act[x].tgt
          /\ (act'[x].at = act[x].at \/ (x = e /\ act'[x].at = "undo"))
    BY <2>2, <2>3 DEF Actor
  <2>5. \A x \in Edits : Claims(x)' => Claims(x) /\ act'[x].id = act[x].id
    BY <1>4, ClaimsOutside DEF Outside
  <2>6. \A x \in Edits : Moving(x)' => Moving(x) /\ act'[x].src = act[x].src
                               /\ (act[x].at = "retire" => act'[x].at = "retire")
    BY <2>1, <2>4 DEF Moving, Actors
  <2>7. Open /\ ~Refreshing => act'["hook"].at = "idle" \/ Preparing'
    BY <2>1, <2>2, <2>4 DEF Quiet, Preparing, Laying, Catching, Undoing
  <2> QED
    BY <2>1, <2>4, <2>5, <2>6, <2>7, QuietKept
<1>5. ASSUME StartAsked PROVE Quiet'
  BY <1>5, NoActorTyped, HandoffAssumption, QuietKept DEF StartAsked, records, Typed, TypedActors,
    TypedAct, Actors, Actor, Claims, Moving, Quiet, Preparing, Laying, Catching, Undoing
<1>6. ASSUME NEW p \in Actors, Spawns(p) PROVE Quiet'
  BY <1>6, NoActorTyped, HandoffAssumption, ClaimsOutside DEF Spawns, records, Typed, TypedActors,
    TypedAct, Actors, Quiet, Up, Actor, Moving, Outside, Open, Refreshing, Target, Rec, Undoable,
    Owns, Recallable
<1>7. ASSUME NEW p \in Actors, Enter(p) PROVE Quiet'
  <2>1. UNCHANGED <<manifest, running, journal, current, made, activation>> /\ sec = NoSection
    BY <1>7 DEF Enter, records
  <2>2. act' = [act EXCEPT ![p].at = IF @ = "start" THEN "starting" ELSE "busy"]
    BY <1>7 DEF Enter
  <2>3. act \in [Actors -> Actor] /\ act[p].at \in {"prepare", "undo", "finalize", "start",
       "post"}
    BY <1>7 DEF Enter, Typed, TypedActors, TypedAct
  <2>4. \A x \in Actors : act'[x].id = act[x].id /\ act'[x].tgt = act[x].tgt /\ act'[x].src =
       act[x].src
          /\ (act'[x] = act[x] \/ (x = p /\ act'[x].at \in {"starting", "busy"}
                                         /\ (act'[x].at = "busy" <=> act[x].at # "start")))
    BY <2>2, <2>3 DEF Actor
  <2>5. sec'.by = p /\ (sec'.job = "undo" <=> act[p].at = "undo")
    BY <1>7 DEF Enter, NoSection
  <2>6. \A e \in Edits : Claims(e)' => Claims(e)
    BY <2>4, <2>5 DEF Claims, Actors
  <2>7. \A e \in Edits : Moving(e)' => Moving(e) /\ (act[e].at = "retire" => act'[e].at =
       "retire")
    BY <2>3, <2>4 DEF Moving, Actors
  <2>8. Open /\ ~Refreshing => act'["hook"].at = "idle"
    BY <2>1, NoSectionTyped, <2>3, <2>4 DEF Preparing, Actors, Quiet
  <2> QED
    BY <2>1, <2>4, <2>6, <2>7, <2>8, QuietKept, Zenon DEF Actors
<1>8. ASSUME RecoveryThrows PROVE Quiet'
  BY <1>8, LeavesSteps, QuietLeft DEF RecoveryThrows, records, Control, Preparing, Laying, Catching,
    Undoing
<1>9. ASSUME NothingToRecover PROVE Quiet'
  BY <1>9, QuietInside DEF NothingToRecover, records, Goto, Typed, TypedActors, TypedSec, In, Open,
    Preparing, Laying, Catching, Undoing, Control, Shaped, Staged
<1>10. ASSUME RecoveryAdopts PROVE Quiet'
  <2>1. UNCHANGED <<made, activation, manifest, running, act, sec>> /\ Own /\ Open
        /\ ~Undoing /\ ~Laying /\ journal' \in {journal, [journal EXCEPT !.phase = "committed"]}
             /\ current' = journal.id
        /\ (current # journal.id => journal' = journal) /\ (current = journal.id =>
             journal'.phase = "committed")
    BY <1>10 DEF RecoveryAdopts, Settled, Open, Typed, TypedRecords, Phases, Undoing, Laying
  <2>2. \A e \in Edits : Claims(e)' => Claims(e)
    BY <2>1 DEF Claims
  <2>3. journal'.id = journal.id /\ journal'.prev = journal.prev /\ \A g : Rec(g)' = Rec(g)
    BY <2>1 DEF Typed, TypedRecords, Rec
  <2>4. Up => Rec(current)'.tgt = manifest /\ (Open' => Refreshing')
    BY <2>1, <2>3, RefreshedHome DEF Rec, Refreshing, Target
  <2>5. PICK i : i = activation.id
    OBVIOUS
  <2>6. i # 0 /\ Recallable(activation.id)' => Recallable(i)
    BY <2>1, <2>3, <2>5 DEF Recallable, Undoable, Control, Counted
  <2>7. Open' /\ ~Refreshing' => ~Up /\ (act["hook"].at = "idle" \/ Preparing')
    BY <2>1 DEF Preparing, Catching, Open, Refreshing, Target, Rec, Quiet
  <2>8. Rec(activation.id)' = Rec(i)
    BY <2>1, <2>5 DEF Rec
  <2> QED
    BY <2>1, <2>2, <2>4, <2>5, <2>6, <2>7, <2>8, QuietRecords
<1>11. ASSUME RecoveryUndoes PROVE Quiet'
  BY <1>11, QuietInside DEF RecoveryUndoes, records, ToUndo, Typed, TypedActors, TypedSec, In, Open,
    Preparing, Laying, Catching, Undoing, Control, Shaped, Staged
<1>12. ASSUME UndoClaimed PROVE Quiet'
  BY <1>12, QuietInside DEF UndoClaimed, records, ToUndo, Typed, TypedActors, TypedSec, In, Open,
    Preparing, Laying, Catching, Undoing, Control, Shaped, Staged
<1>13. ASSUME UndoRefused PROVE Quiet'
  BY <1>13, LeavesSteps, QuietLeft DEF UndoRefused, records, Control, In, Preparing, Laying,
    Catching, Undoing
<1>14. ASSUME UndoLink PROVE Quiet'
  BY <1>14, QuietInside DEF UndoLink, records, Typed, TypedActors, TypedSec, In, Open, Preparing,
    Laying, Catching, Undoing, Control, Shaped, Staged
<1>15. ASSUME UndoBackups PROVE Quiet'
  <2>1. UNCHANGED <<journal, made, current, activation, manifest, running>> /\ sec.at = "undo"
    BY <1>15 DEF UndoBackups, records
  <2>2. CASE sec.bad
    BY <1>15, <2>2, LeavesSteps, <2>1, QuietLeft DEF Control, Backed, Undoing
  <2>3. CASE ~sec.bad
    BY <1>15, <2>3, <2>1, QuietInside DEF UndoBackups, Goto, Typed, TypedActors, TypedSec,
      Preparing, Laying, Catching, Undoing
  <2> QED
    BY <2>2, <2>3
<1>16. ASSUME UndoGeneration PROVE Quiet'
  BY <1>16, QuietInside DEF UndoGeneration, Goto, Typed, TypedActors, TypedSec, In, Open, Preparing,
    Laying, Catching, Undoing, Control, Shaped, Staged
<1>17. ASSUME UndoCurrent PROVE Quiet'
  <2>1. UNCHANGED <<made, activation, manifest, running, act, journal>> /\ current' =
       journal.prev
        /\ sec' = [sec EXCEPT !.at = "uncommit"] /\ sec.at = "uncurrent" /\ Undoing
    BY <1>17 DEF UndoCurrent, Goto, Undoing, Restored
  <2>2. \A e \in Edits : Claims(e)' => Claims(e)
    BY <2>1 DEF Claims, Typed, TypedActors, TypedSec
  <2>3. (\A g : Rec(g)' = Rec(g)) /\ (Open' <=> Open) /\ (Refreshing' <=> Refreshing)
    BY <2>1 DEF Rec, Open, Refreshing, Target
  <2>4. Up => Open
    BY <2>1, PreparerMoves, MovingIsDown DEF Control, Staged, Shaped
  <2>5. PICK i : i = activation.id
    OBVIOUS
  <2>6. Undoable
    BY <2>1, PreparerMoves DEF Control, Staged, Shaped, Owns, Claims, Claiming, Undoable
  <2>7. i # 0 /\ Recallable(activation.id)' => Recallable(i)
    BY <2>1, <2>5, <2>6 DEF Recallable
  <2>8. Rec(activation.id)' = Rec(i)
    BY <2>1, <2>5 DEF Rec
  <2>9. Up => Rec(current)'.tgt = manifest /\ (Open' => Refreshing')
    BY <2>4, RefreshedHome, <2>1, <2>3 DEF Rec
  <2>10. Open' /\ ~Refreshing' => ~Up /\ (act["hook"].at = "idle" \/ Preparing')
    BY <2>1, <2>3 DEF Preparing, Laying, Catching, Undoing, Typed, TypedActors, TypedSec, Quiet
  <2> QED
    BY <2>1, <2>2, <2>5, <2>7, <2>8, <2>9, <2>10, QuietRecords
<1>18. ASSUME UndoCommit PROVE Quiet'
  BY <1>18, QuietInside DEF UndoCommit, Goto, Typed, TypedActors, TypedSec, In, Open, Preparing,
    Laying, Catching, Undoing, Control, Shaped, Staged
<1>19. ASSUME UndoJournal PROVE Quiet'
  <2>1. UNCHANGED <<made, activation, manifest, running, current>> /\ current = journal.prev
        /\ journal' = [journal EXCEPT !.phase = "rolled-back"] /\ ~Laying
    BY <1>19 DEF UndoJournal, Control, Staged, Laying
  <2>2. journal'.id = journal.id /\ journal'.prev = journal.prev /\ ~Open' /\ ~Undoable'
    BY <2>1 DEF Typed, TypedRecords, Open, Undoable
  <2>3. PICK i : i = activation.id
    OBVIOUS
  <2>4. Rec(activation.id)' = Rec(i) /\ Rec(current)' = Rec(current)
    BY <2>1, <2>3 DEF Rec
  <2>5. Recallable(activation.id)' => Recallable(i)
    BY <2>1, <2>2, <2>3 DEF Recallable
  <2>6. Rec(i) = Rec(activation.id) /\ (Recallable(i) => Recallable(activation.id))
    BY <2>3 DEF Rec, Recallable
  <2>7. ASSUME sec.why = "recover" PROVE Quiet'
    BY <1>19, <2>7, <2>1, <2>2, <2>3, <2>4, <2>5, <2>6 DEF UndoJournal, Goto, Claims, Moving, Typed,
      TypedActors, TypedSec, Up, Quiet
  <2>8. ASSUME sec.why # "recover" PROVE Quiet'
    BY <1>19, <2>8, LeavesSteps, HolderTyped, HandoffAssumption, LeavesClaims, <2>1, <2>2, <2>3,
      <2>4, <2>5, <2>6 DEF Control, Leaves, Typed, TypedActors, TypedAct, Moving, Actors, Up, Quiet
  <2> QED
    BY <2>7, <2>8
<1>20. ASSUME PrepareRefused PROVE Quiet'
  BY <1>20, LeavesSteps, QuietLeft DEF PrepareRefused, records, Control, Preparing, Laying,
    Catching, Undoing
<1>21. ASSUME PrepareBegins PROVE Quiet'
  <2>1. UNCHANGED <<activation, manifest, running, act, current>> /\ sec.at = "check" /\ ~Open
        /\ sec' = [sec EXCEPT !.at = "backup"] /\ sec.at # "free"
    BY <1>21 DEF PrepareBegins, Goto, Control, Staged
  <2>2. PICK r : /\ made' = Append(made, r) /\ r \in Generations /\ r.src = From /\ r.tgt = To
    <3>1. [src |-> From, tgt |-> To, arts |-> Present(From)] \in Generations
      BY <2>1, HolderTyped DEF Control, Generations, Present
    <3> QED
      BY <1>21, <3>1 DEF PrepareBegins
  <2>3. journal'.id = Len(made) + 1 /\ journal'.prev = current /\ journal'.phase = "preparing"
    BY <1>21 DEF PrepareBegins
  <2>4. made \in Seq(Generations) /\ Len(made) \in Nat /\ current \in 0..Len(made) /\
       activation.id \in 0..Len(made)
    BY DEF Typed, TypedRecords, Control, Counted, Marked
  <2>5. /\ \A g \in 1..Len(made) : made'[g] = made[g]
        /\ made'[Len(made) + 1] = r
    BY <2>2, <2>4, AppendProperties
  <2>6. PICK i : i = activation.id /\ i \in 0..Len(made)
    BY <2>4
  <2>7. i # 0 => Rec(activation.id)' = Rec(i)
    BY <2>1, <2>5, <2>6 DEF Rec
  <2>8. current # 0 => Rec(current)' = Rec(current)
    BY <2>1, <2>4, <2>5 DEF Rec
  <2>9. Open' /\ Target' = To /\ Rec(journal.id)'.src = From
    BY <2>2, <2>3, <2>5 DEF Open, Target, Rec
  <2>10. Rec(journal.prev)' = Rec(current)'
    BY <2>1, <2>3 DEF Rec
  <2>11. \A e \in Edits : Claims(e)' => Claims(e)
    BY <2>1 DEF Claims, Typed, TypedActors, TypedSec
  <2>12. i # 0 /\ Recallable(activation.id)' => Recallable(i)
    BY <2>1, <2>3, <2>6 DEF Recallable
  <2>13. sec.job = "start" => Refreshing'
    BY <2>1, HolderTyped, <2>3, <2>8, <2>9, <2>10 DEF Control, Shaped, Held, Roles, Renewing, From,
      To, Refreshing
  <2>14. sec.job \in {"start", "prepare"}
    BY <2>1 DEF Control, Shaped, Undoing, Typed, TypedActors, TypedSec, Jobs
  <2>15. sec.job = "prepare" => ~Up /\ Preparing'
    BY PreparerMoves, MovingIsDown, <2>1 DEF Preparing, Laying, Typed, TypedActors, TypedSec
  <2>16. Up => (current' = 0 \/ Rec(current)'.tgt = manifest) /\ (Open' => Refreshing')
    BY <2>1, <2>8, <2>13, <2>14, <2>15 DEF Quiet
  <2> QED
    BY <2>1, <2>6, <2>7, <2>11, <2>12, <2>13, <2>14, <2>15, <2>16, QuietRecords
<1>22. ASSUME Backup PROVE Quiet'
  BY <1>22, QuietInside DEF Backup, records, Typed, TypedActors, TypedSec, In, Open, Preparing,
    Laying, Catching, Undoing, Control, Shaped, Staged
<1>23. ASSUME LinkStep PROVE Quiet'
  BY <1>23, QuietInside DEF LinkStep, records, Typed, TypedActors, TypedSec, In, Open, Preparing,
    Laying, Catching, Undoing, Control, Shaped, Staged
<1>24. ASSUME WriteGeneration PROVE Quiet'
  BY <1>24, QuietInside DEF WriteGeneration, Goto, Typed, TypedActors, TypedSec, In, Open,
    Preparing, Laying, Catching, Undoing, Control, Shaped, Staged
<1>25. ASSUME WritePrepared PROVE Quiet'
  <2>1. UNCHANGED <<made, activation, manifest, running, act, current>> /\ Open
        /\ journal' = [journal EXCEPT !.phase = "prepared"]
        /\ sec' = [sec EXCEPT !.at = "marker"] /\ sec.at = "prepared"
    BY <1>25 DEF WritePrepared, Goto, Open, Control, Staged, Linked
  <2>2. \A e \in Edits : Claims(e)' => Claims(e)
    BY <2>1 DEF Claims, Typed, TypedActors, TypedSec
  <2>3. journal'.id = journal.id /\ journal'.prev = journal.prev /\ Open'
    BY <2>1 DEF Typed, TypedRecords, Open
  <2>4. Refreshing' <=> Refreshing
    BY <2>1, <2>3 DEF Refreshing, Target, Rec
  <2>5. PICK i : i = activation.id
    OBVIOUS
  <2>6. i # 0 /\ Recallable(activation.id)' => Recallable(i)
    BY <2>1, <2>3, <2>5 DEF Recallable, Undoable
  <2>7. Preparing => Preparing'
    BY <2>1 DEF Preparing, Laying, Typed, TypedActors, TypedSec
  <2>11. Rec(activation.id)' = Rec(i) /\ Rec(current)' = Rec(current)
    BY <2>1, <2>5 DEF Rec
  <2>12. /\ Up => (current = 0 \/ Rec(current).tgt = manifest) /\ (Open => Refreshing)
         /\ Open /\ ~Refreshing => ~Up /\ (act["hook"].at = "idle" \/ Preparing)
    BY DEF Quiet
  <2>13. Open' /\ ~Refreshing' => ~Up /\ (act["hook"].at = "idle" \/ Preparing')
    BY <2>1, <2>4, <2>7, <2>12
  <2>14. Up => (current' = 0 \/ Rec(current)'.tgt = manifest) /\ (Open' => Refreshing')
    BY <2>1, <2>4, <2>11, <2>12
  <2> QED
    BY <2>1, <2>2, <2>5, <2>6, <2>11, <2>13, <2>14, QuietRecords
<1>26. ASSUME WriteCommit PROVE Quiet'
  BY <1>26, QuietInside DEF WriteCommit, Goto, Typed, TypedActors, TypedSec, In, Open, Preparing,
    Laying, Catching, Undoing, Control, Shaped, Staged
<1>27. ASSUME WriteCurrent PROVE Quiet'
  <2>1. UNCHANGED <<made, activation, manifest, running, act, journal>> /\ Open /\ current' =
       journal.id
        /\ sec' = [sec EXCEPT !.at = "committed"] /\ sec.at = "current"
    BY <1>27 DEF WriteCurrent, Goto, Open, Control, Staged
  <2>2. \A e \in Edits : Claims(e)' => Claims(e)
    BY <2>1 DEF Claims, Typed, TypedActors, TypedSec
  <2>3. \A g : Rec(g)' = Rec(g)
    BY <2>1 DEF Rec
  <2>4. Up => Rec(current)'.tgt = manifest /\ (Open' => Refreshing')
    BY <2>1, <2>3, RefreshedHome DEF Rec, Refreshing, Target
  <2>5. PICK i : i = activation.id
    OBVIOUS
  <2>6. i # 0 /\ Recallable(activation.id)' => Recallable(i)
    BY <2>1, <2>3, <2>5 DEF Recallable, Undoable, Control, Counted
  <2>7. Open' /\ ~Refreshing' => ~Up /\ (act["hook"].at = "idle" \/ Preparing')
    BY <2>1 DEF Open, Refreshing, Target, Rec, Preparing, Laying, Typed, TypedActors, TypedSec,
      Quiet
  <2>8. Rec(activation.id)' = Rec(i)
    BY <2>1, <2>5 DEF Rec
  <2> QED
    BY <2>1, <2>2, <2>4, <2>5, <2>6, <2>7, <2>8, QuietRecords
<1>28. ASSUME WriteCommitted PROVE Quiet'
  <2>1. UNCHANGED <<made, activation, manifest, running, current>> /\ Open /\ current =
       journal.id
        /\ journal' = [journal EXCEPT !.phase = "committed"] /\ sec.at = "committed" /\ ~Undoing
    BY <1>28 DEF WriteCommitted, Control, Staged, Open, Undoing
  <2>2. journal'.id = journal.id /\ journal'.prev = journal.prev /\ ~Open'
    BY <2>1 DEF Typed, TypedRecords, Open
  <2>3. PICK i : i = activation.id
    OBVIOUS
  <2>4. Rec(activation.id)' = Rec(i) /\ Rec(current)' = Rec(current)
    BY <2>1, <2>3 DEF Rec
  <2>5. Recallable(activation.id)' => Recallable(i)
    BY <2>1, <2>2, <2>3 DEF Recallable, Undoable
  <2>6. Rec(i) = Rec(activation.id) /\ (Recallable(i) => Recallable(activation.id))
    BY <2>3 DEF Rec, Recallable
  <2>7. ASSUME sec.job # "prepare" PROVE Quiet'
    BY <1>28, <2>7, <2>1, <2>2, <2>3, <2>4, <2>5, <2>6 DEF WriteCommitted, Goto, Claims, Moving,
      Typed, TypedActors, TypedSec, Up, Quiet
  <2>8. ASSUME sec.job = "prepare" PROVE Quiet'
    <3>1. Granted([act[sec.by] EXCEPT !.at = "commit", !.id = journal.id])
      BY <1>28, <2>8, PreparesStep DEF Control
    <3>2. sec.by \in Edits /\ sec.by \in Actors /\ Moving(sec.by) /\ act[sec.by] \in Actor /\
         act[sec.by].at = "busy"
      BY <2>1, <2>8, PreparerMoves, HolderTyped DEF Control
    <3>3. \A x \in Actors \ {sec.by} : act'[x] = act[x]
      BY <3>1 DEF Granted, Typed, TypedActors, TypedAct
    <3>4. act'[sec.by].at = "commit" /\ act'[sec.by].src = act[sec.by].src /\ act'[sec.by].id =
         journal.id
      BY <3>1, <3>2 DEF Granted, Typed, TypedActors, TypedAct, Actor
    <3>5. \A e \in Edits : Moving(e)' => Moving(e) /\ act'[e].src = act[e].src /\ act'[e].at \in
         {act[e].at, "commit"}
                                /\ (act[e].at = "retire" => act'[e].at = "retire")
      BY <3>2, <3>3, <3>4 DEF Moving, Actors
    <3>6. \A e \in Edits : Claims(e)' => act'[e].id = journal.id \/ (Claims(e) /\ act'[e].id =
         act[e].id)
      BY <3>1, <3>2, <3>3, <3>4, NoSectionTyped, HandoffAssumption DEF Claims, Granted, Actors
    <3>7. activation.id < journal.id
      BY <2>1 DEF Control, Counted, Typed, TypedRecords
    <3>8. \A p \in Actors : act'[p].at = "spawn" => act'[p] = act[p]
      BY <3>3, <3>4
    <3>9. Up' => Up
      BY <2>1, <3>8 DEF Up
    <3> QED
      BY <2>1, <2>2, <2>3, <2>4, <2>5, <2>6, <3>5, <3>6, <3>7, <3>8, <3>9 DEF Quiet
  <2> QED
    BY <2>7, <2>8
<1>29. ASSUME PrepareFails PROVE Quiet'
  BY <1>29, QuietInside DEF PrepareFails, records, ToUndo, Typed, TypedActors, TypedSec, In, Open,
    Preparing, Laying, Catching, Undoing, Control, Shaped, Staged
<1>30. ASSUME Finalizes PROVE Quiet'
  BY <1>30, LeavesSteps, QuietLeft DEF Finalizes, records, Control, In, Preparing, Laying, Catching,
    Undoing
<1>31. ASSUME StartUnmanaged PROVE Quiet'
  <2>1. UNCHANGED <<made, journal, manifest, running, current>> /\ ~Open /\ sec.at # "free" /\
       sec.job = "start"
    BY <1>31 DEF StartUnmanaged, In, Control, Staged, records
  <2>2. UNCHANGED activation /\ current = 0
    BY <1>31 DEF StartUnmanaged, In, Unmanaged, records, Started
  <2>3. To = manifest /\ \A e \in Edits : ~Moving(e)
    BY <1>31 DEF StartUnmanaged, Races, To
  <2>4. Granted([act[sec.by] EXCEPT !.at = "spawn"])
    BY <1>31, StartsSteps DEF Control
  <2>5. sec.by \in Actors /\ act[sec.by] \in Actor
    BY <2>1, HolderTyped DEF Control
  <2>6. \A x \in Actors \ {sec.by} : act'[x] = act[x]
    BY <2>4 DEF Granted, Typed, TypedActors, TypedAct
  <2>7. act'[sec.by].at = "spawn" /\ act'[sec.by].tgt = manifest
    BY <2>3, <2>4, <2>5 DEF Granted, Typed, TypedActors, TypedAct, Actor, To
  <2>8. \A e \in Edits : ~Moving(e)'
    BY <2>3, <2>6, <2>7 DEF Moving, Actors
  <2>9. \A e \in Edits : ~Claims(e)'
    BY <2>4, <2>8, NoSectionTyped, HandoffAssumption DEF Claims, Moving, Granted, Actors
  <2>10. ~Open' /\ ~Undoable'
    BY <2>1, <2>9 DEF Open, Undoable, Owns
  <2>11. Rec(current)' = Rec(current)
    BY <2>1 DEF Rec
  <2>12. \A x \in Actors : act'[x].at = "spawn" => act'[x].tgt = manifest
    BY <2>3, <2>6, <2>7 DEF Quiet
  <2>13. current # 0 => Rec(current).tgt = manifest
    BY <2>2
  <2>14. activation'.id # 0 /\ Recallable(activation.id)' => activation'.id = current /\ current
       # 0
    BY <2>1, <2>10 DEF Recallable
  <2>15. activation'.id = current => Rec(activation.id)' = Rec(current)
    BY <2>1 DEF Rec
  <2>16. running # "none" => running = manifest
    BY DEF Quiet
  <2> QED
    BY <2>1, <2>8, <2>9, <2>10, <2>11, <2>12, <2>13, <2>14, <2>15, <2>16 DEF Quiet
<1>32. ASSUME StartRefused PROVE Quiet'
  BY <1>32, LeavesSteps, QuietLeft DEF StartRefused, records, Control, In, Preparing, Laying,
    Catching, Undoing
<1>33. ASSUME StartOpens PROVE Quiet'
  BY <1>33, QuietInside DEF StartOpens, records, Typed, TypedActors, TypedSec, In, Open, Preparing,
    Laying, Catching, Undoing, Control, Shaped, Staged
<1>34. ASSUME StartActivates PROVE Quiet'
  <2>1. UNCHANGED <<made, journal, manifest, running, current>> /\ ~Open /\ sec.at # "free" /\
       sec.job = "start"
    BY <1>34 DEF StartActivates, In, Control, Staged
  <2>2. activation'.id = current /\ (current # 0 => Rec(current).tgt = To)
    BY <1>34 DEF StartActivates, In, Unmanaged, Started
  <2>3. To = manifest /\ \A e \in Edits : ~Moving(e)
    BY <1>34 DEF StartActivates, Races, To
  <2>4. Granted([act[sec.by] EXCEPT !.at = "spawn"])
    BY <1>34, StartsSteps DEF Control
  <2>5. sec.by \in Actors /\ act[sec.by] \in Actor
    BY <2>1, HolderTyped DEF Control
  <2>6. \A x \in Actors \ {sec.by} : act'[x] = act[x]
    BY <2>4 DEF Granted, Typed, TypedActors, TypedAct
  <2>7. act'[sec.by].at = "spawn" /\ act'[sec.by].tgt = manifest
    BY <2>3, <2>4, <2>5 DEF Granted, Typed, TypedActors, TypedAct, Actor, To
  <2>8. \A e \in Edits : ~Moving(e)'
    BY <2>3, <2>6, <2>7 DEF Moving, Actors
  <2>9. \A e \in Edits : ~Claims(e)'
    BY <2>4, <2>8, NoSectionTyped, HandoffAssumption DEF Claims, Moving, Granted, Actors
  <2>10. ~Open' /\ ~Undoable'
    BY <2>1, <2>9 DEF Open, Undoable, Owns
  <2>11. Rec(current)' = Rec(current)
    BY <2>1 DEF Rec
  <2>12. \A x \in Actors : act'[x].at = "spawn" => act'[x].tgt = manifest
    BY <2>3, <2>6, <2>7 DEF Quiet
  <2>13. current # 0 => Rec(current).tgt = manifest
    BY <2>2, <2>3
  <2>14. activation'.id # 0 /\ Recallable(activation.id)' => activation'.id = current /\ current
       # 0
    BY <2>1, <2>10 DEF Recallable
  <2>15. activation'.id = current => Rec(activation.id)' = Rec(current)
    BY <2>1 DEF Rec
  <2>16. running # "none" => running = manifest
    BY DEF Quiet
  <2> QED
    BY <2>1, <2>8, <2>9, <2>10, <2>11, <2>12, <2>13, <2>14, <2>15, <2>16 DEF Quiet
<1>35. ASSUME HookIgnored PROVE Quiet'
  BY <1>35, LeavesSteps, QuietLeft DEF HookIgnored, records, Control, In, Preparing, Laying,
    Catching, Undoing
<1>36. ASSUME HookMismatched PROVE Quiet'
  <2>1. UNCHANGED <<journal, made, current, manifest, running>> /\ activation'.id =
       activation.id
    BY <1>36 DEF HookMismatched, Typed, TypedRecords
  <2>2. Leaves /\ sec.at # "free" /\ sec.by = "hook"
    BY <1>36, LeavesSteps DEF HookMismatched, Control, Shaped, In
  <2>3. \A p \in Actors \ {"hook"} : act'[p] = act[p]
    BY <2>2 DEF Leaves, Typed, TypedActors, TypedAct
  <2>4. act'["hook"].at \in {"idle", "post", "start"} /\ act["hook"].at # "idle"
    BY <2>2 DEF Leaves, Control, Held, Shaped
  <2>5. \A e \in Edits : act'[e] = act[e] /\ e # "hook" /\ e \in Actors
    BY <2>3, HandoffAssumption DEF Actors
  <2>6. ~Preparing
    BY <2>2, HandoffAssumption DEF Preparing, Control, Shaped
  <2>7. \A e \in Edits : (Moving(e)' <=> Moving(e)) /\ (Claims(e)' => Claims(e))
    BY <2>2, <2>5, LeavesClaims DEF Moving
  <2>8. ~(Open /\ ~Refreshing)
    BY <2>4, <2>6 DEF Quiet
  <2>9. Up' => Up
    BY <2>1, <2>3, <2>4 DEF Up
  <2>10. Undoable' => Undoable
    BY <2>1, <2>5, <2>7 DEF Undoable, Open, Owns
  <2>11. (Open' <=> Open) /\ (Refreshing' <=> Refreshing) /\ (\A g : Rec(g)' = Rec(g)) /\
       Rec(current)' = Rec(current)
    BY <2>1 DEF Open, Refreshing, Target, Rec
  <2>12. Rec(activation.id)' = Rec(activation.id) /\ (Recallable(activation.id)' =>
       Recallable(activation.id))
    BY <2>1, <2>10 DEF Rec, Recallable
  <2>13. \A p \in Actors : act'[p].at = "spawn" => act'[p] = act[p]
    BY <2>3, <2>4
  <2> QED
    BY <2>1, <2>5, <2>7, <2>8, <2>9, <2>11, <2>12, <2>13 DEF Quiet
<1>37. ASSUME HookCleans PROVE Quiet'
  BY <1>37, QuietInside DEF HookCleans, records, Typed, TypedActors, TypedSec, In, Open, Preparing,
    Laying, Catching, Undoing, Control, Shaped, Staged
<1>38. ASSUME HookConfirms PROVE Quiet'
  <2>1. UNCHANGED <<journal, made, current, manifest, running>> /\ activation'.id =
       activation.id
    BY <1>38 DEF HookConfirms, Typed, TypedRecords
  <2>2. Leaves /\ sec.at # "free" /\ sec.by = "hook"
    BY <1>38, LeavesSteps DEF HookConfirms, Control, Shaped, In
  <2>3. \A p \in Actors \ {"hook"} : act'[p] = act[p]
    BY <2>2 DEF Leaves, Typed, TypedActors, TypedAct
  <2>4. act'["hook"].at \in {"idle", "post", "start"} /\ act["hook"].at # "idle"
    BY <2>2 DEF Leaves, Control, Held, Shaped
  <2>5. \A e \in Edits : act'[e] = act[e] /\ e # "hook" /\ e \in Actors
    BY <2>3, HandoffAssumption DEF Actors
  <2>6. ~Preparing
    BY <2>2, HandoffAssumption DEF Preparing, Control, Shaped
  <2>7. \A e \in Edits : (Moving(e)' <=> Moving(e)) /\ (Claims(e)' => Claims(e))
    BY <2>2, <2>5, LeavesClaims DEF Moving
  <2>8. ~(Open /\ ~Refreshing)
    BY <2>4, <2>6 DEF Quiet
  <2>9. Up' => Up
    BY <2>1, <2>3, <2>4 DEF Up
  <2>10. Undoable' => Undoable
    BY <2>1, <2>5, <2>7 DEF Undoable, Open, Owns
  <2>11. (Open' <=> Open) /\ (Refreshing' <=> Refreshing) /\ (\A g : Rec(g)' = Rec(g)) /\
       Rec(current)' = Rec(current)
    BY <2>1 DEF Open, Refreshing, Target, Rec
  <2>12. Rec(activation.id)' = Rec(activation.id) /\ (Recallable(activation.id)' =>
       Recallable(activation.id))
    BY <2>1, <2>10 DEF Rec, Recallable
  <2>13. \A p \in Actors : act'[p].at = "spawn" => act'[p] = act[p]
    BY <2>3, <2>4
  <2> QED
    BY <2>1, <2>5, <2>7, <2>8, <2>9, <2>11, <2>12, <2>13 DEF Quiet
<1>39. ASSUME NEW a \in Artifacts, Writes(a) PROVE Quiet'
  BY <1>39, QuietKept DEF Writes, records, Moving, Claims, Quiet, Preparing, Laying, Catching,
    Undoing
<1>40. ASSUME NEW p \in Profiles, NEW a \in Artifacts, Deleted(p, a) PROVE Quiet'
  BY <1>40, QuietKept DEF Deleted, records, Moving, Claims, Quiet, Preparing, Laying, Catching,
    Undoing
<1>41. ASSUME Exits PROVE Quiet'
  BY <1>41, QuietKept DEF Exits, records, Moving, Claims, Quiet, Preparing, Laying, Catching,
    Undoing
<1>42. ASSUME WebDies PROVE Quiet'
  <2>1. UNCHANGED <<manifest, running, journal, current, made, activation>>
    BY <1>42 DEF WebDies, records
  <2>2. \A x \in Actors : act'[x] = act[x] \/ act'[x] = NoActor
    BY <1>42 DEF WebDies, Typed, TypedActors, TypedAct
  <2>3. sec' = NoSection \/ (sec' = sec /\ sec.job \in {"none", "start"})
    BY <1>42 DEF WebDies
  <2>4. \A x \in Edits : Moving(x)' => Moving(x) /\ act'[x] = act[x]
    BY <2>2, NoActorTyped DEF Moving, Actors
  <2>5. \A x \in Edits : Claims(x)' => Claims(x) /\ act'[x] = act[x]
    <3>1. CASE sec' = sec
      BY <1>42, <3>1, ClaimsOutside, <2>2, NoActorTyped, <2>3, HandoffAssumption, NoSectionTyped
           DEF Claims, Actors,
         Control, Held, Shaped, WebDies, InDaemon
    <3>2. CASE sec' = NoSection
      BY <2>2, <3>2, NoActorTyped, NoSectionTyped, HandoffAssumption DEF Claims, Actors
    <3> QED
      BY <2>3, <3>1, <3>2
  <2>6. \A x \in Actors : act'[x].at = "spawn" => act'[x] = act[x]
    BY <2>2, NoActorTyped
  <2>7. Open /\ ~Refreshing => act'["hook"].at = "idle" \/ Preparing'
    BY <1>42, NoActorTyped DEF Control, Roles, InDaemon, Actors, WebDies
  <2> QED
    BY <2>1, <2>4, <2>5, <2>6, <2>7, QuietKept
<1>43. ASSUME DaemonDies PROVE Quiet'
  <2>1. UNCHANGED <<manifest, running, journal, current, made, activation>>
    BY <1>43 DEF DaemonDies, records
  <2>2. \A x \in Actors : act'[x] = act[x] \/ act'[x] = NoActor
    BY <1>43 DEF DaemonDies, Typed, TypedActors, TypedAct
  <2>3. sec' = NoSection \/ (sec' = sec /\ sec.job # "start")
    BY <1>43 DEF DaemonDies
  <2>4. \A x \in Edits : Moving(x)' => Moving(x) /\ act'[x] = act[x]
    BY <2>2, NoActorTyped DEF Moving, Actors
  <2>5. \A x \in Edits : Claims(x)' => Claims(x) /\ act'[x] = act[x]
    <3>1. CASE sec' = sec
      BY <1>43, <3>1, ClaimsOutside, <2>2, NoActorTyped, <2>3, HandoffAssumption, NoSectionTyped
           DEF Claims, Actors,
         Control, Held, Shaped, DaemonDies, InDaemon
    <3>2. CASE sec' = NoSection
      BY <2>2, <3>2, NoActorTyped, NoSectionTyped, HandoffAssumption DEF Claims, Actors
    <3> QED
      BY <2>3, <3>1, <3>2
  <2>6. \A x \in Actors : act'[x].at = "spawn" => act'[x] = act[x]
    BY <2>2, NoActorTyped
  <2>7. Open /\ ~Refreshing => act'["hook"].at = "idle" \/ Preparing'
    BY <2>2, NoActorTyped, <1>43 DEF Quiet, Actors, DaemonDies, Preparing, Laying, Catching, Undoing
  <2> QED
    BY <2>1, <2>4, <2>5, <2>6, <2>7, QuietKept
<1>44. ASSUME UNCHANGED vars PROVE Quiet'
  BY <1>44, QuietInside DEF vars, records, Preparing, Laying, Catching, Undoing
<1> QED
  BY <1>1, <1>2, <1>3, <1>4, <1>5, <1>6, <1>7, <1>8, <1>9, <1>10, <1>11, <1>12, <1>13, <1>14,
       <1>15, <1>16, <1>17, <1>18, <1>19, <1>20, <1>21, <1>22, <1>23, <1>24, <1>25, <1>26,
       <1>27, <1>28, <1>29, <1>30, <1>31, <1>32, <1>33, <1>34, <1>35, <1>36, <1>37, <1>38,
       <1>39, <1>40, <1>41, <1>42, <1>43, <1>44 DEF Next, Edit, Recovery, Undo, Prepare,
       StartSection, Hook, Environment

-----------------------------------------------------------------------------
(* Which steps touch what.                                                   *)

LEMMA FileSteps ==
  ASSUME [Next]_vars
  PROVE  \/ UNCHANGED <<file, latest>>
         \/ LinkStep \/ UndoLink \/ StartOpens \/ HookCleans
         \/ (\E a \in Artifacts : Writes(a))
         \/ (\E p \in Profiles, a \in Artifacts : Deleted(p, a))
BY DEF Next, Edit, EditBegins, Retires, Commits, CommitRejected, StartAsked, Spawns, Enter,
     Recovery, RecoveryThrows, NothingToRecover, RecoveryAdopts, RecoveryUndoes, Undo,
     UndoClaimed, UndoRefused, UndoBackups, UndoGeneration, UndoCurrent, UndoCommit,
     UndoJournal, Prepare, PrepareRefused, PrepareBegins, Backup, WriteGeneration,
     WritePrepared, WriteCommit, WriteCurrent, WriteCommitted, PrepareFails, Finalizes,
     StartSection, StartUnmanaged, StartRefused, StartActivates, Hook, HookIgnored,
     HookMismatched, HookConfirms, Environment, Exits, WebDies, DaemonDies, history, vars, files

LEMMA LatestSteps ==
  ASSUME [Next]_vars
  PROVE  UNCHANGED latest \/ (\E a \in Artifacts : Writes(a))
BY DEF Next, Edit, EditBegins, Retires, Commits, CommitRejected, StartAsked, Spawns, Enter,
     Recovery, RecoveryThrows, NothingToRecover, RecoveryAdopts, RecoveryUndoes, Undo,
     UndoClaimed, UndoRefused, UndoLink, UndoBackups, UndoGeneration, UndoCurrent, UndoCommit,
     UndoJournal, Prepare, PrepareRefused, PrepareBegins, Backup, LinkStep, WriteGeneration,
     WritePrepared, WriteCommit, WriteCurrent, WriteCommitted, PrepareFails, Finalizes,
     StartSection, StartUnmanaged, StartRefused, StartOpens, StartActivates, Hook, HookIgnored,
     HookMismatched, HookCleans, HookConfirms, Environment, Deleted, Exits, WebDies, DaemonDies,
     history, vars, files, records

LEMMA BackupSteps ==
  ASSUME [Next]_vars
  PROVE  UNCHANGED backup \/ NothingToRecover \/ UndoBackups \/ Backup \/ WriteCommitted \/ Finalizes
BY DEF Next, Edit, EditBegins, Retires, Commits, CommitRejected, StartAsked, Spawns, Enter,
     Recovery, RecoveryThrows, RecoveryAdopts, RecoveryUndoes, Undo, UndoClaimed, UndoRefused,
     UndoLink, UndoGeneration, UndoCurrent, UndoCommit, UndoJournal, Prepare, PrepareRefused,
     PrepareBegins, LinkStep, WriteGeneration, WritePrepared, WriteCommit, WriteCurrent,
     PrepareFails, StartSection, StartUnmanaged, StartRefused, StartOpens, StartActivates, Hook,
     HookIgnored, HookMismatched, HookCleans, HookConfirms, Environment, Writes, Deleted, Exits,
     WebDies, DaemonDies, history, vars, files

LEMMA JournalSteps ==
  ASSUME [Next]_vars
  PROVE  \/ UNCHANGED <<journal, made>>
         \/ RecoveryAdopts \/ PrepareBegins \/ WritePrepared \/ WriteCommitted \/ UndoJournal
BY DEF Next, Edit, EditBegins, Retires, Commits, CommitRejected, StartAsked, Spawns, Enter,
     Recovery, RecoveryThrows, NothingToRecover, RecoveryUndoes, Undo, UndoClaimed, UndoRefused,
     UndoLink, UndoBackups, UndoGeneration, UndoCurrent, UndoCommit, Prepare, PrepareRefused,
     Backup, LinkStep, WriteGeneration, WriteCommit, WriteCurrent, PrepareFails, Finalizes,
     StartSection, StartUnmanaged, StartRefused, StartOpens, StartActivates, Hook, HookIgnored,
     HookMismatched, HookCleans, HookConfirms, Environment, Writes, Deleted, Exits, WebDies,
     DaemonDies, history, vars, records

LEMMA CurrentSteps ==
  ASSUME [Next]_vars
  PROVE  UNCHANGED current \/ RecoveryAdopts \/ UndoCurrent \/ WriteCurrent
BY DEF Next, Edit, EditBegins, Retires, Commits, CommitRejected, StartAsked, Spawns, Enter,
     Recovery, RecoveryThrows, NothingToRecover, RecoveryUndoes, Undo, UndoClaimed, UndoRefused,
     UndoLink, UndoBackups, UndoGeneration, UndoCommit, UndoJournal, Prepare, PrepareRefused,
     PrepareBegins, Backup, LinkStep, WriteGeneration, WritePrepared, WriteCommit,
     WriteCommitted, PrepareFails, Finalizes, StartSection, StartUnmanaged, StartRefused,
     StartOpens, StartActivates, Hook, HookIgnored, HookMismatched, HookCleans, HookConfirms,
     Environment, Writes, Deleted, Exits, WebDies, DaemonDies, history, vars, files, records

LEMMA CommitSteps ==
  ASSUME [Next]_vars
  PROVE  UNCHANGED commit \/ UndoCommit \/ WriteCommit
BY DEF Next, Edit, EditBegins, Retires, Commits, CommitRejected, StartAsked, Spawns, Enter,
     Recovery, RecoveryThrows, NothingToRecover, RecoveryAdopts, RecoveryUndoes, Undo,
     UndoClaimed, UndoRefused, UndoLink, UndoBackups, UndoGeneration, UndoCurrent, UndoJournal,
     Prepare, PrepareRefused, PrepareBegins, Backup, LinkStep, WriteGeneration, WritePrepared,
     WriteCurrent, WriteCommitted, PrepareFails, Finalizes, StartSection, StartUnmanaged,
     StartRefused, StartOpens, StartActivates, Hook, HookIgnored, HookMismatched, HookCleans,
     HookConfirms, Environment, Writes, Deleted, Exits, WebDies, DaemonDies, history, vars,
     files, records

LEMMA ImmutSteps ==
  ASSUME [Next]_vars
  PROVE  UNCHANGED immut \/ UndoGeneration \/ WriteGeneration
BY DEF Next, Edit, EditBegins, Retires, Commits, CommitRejected, StartAsked, Spawns, Enter,
     Recovery, RecoveryThrows, NothingToRecover, RecoveryAdopts, RecoveryUndoes, Undo,
     UndoClaimed, UndoRefused, UndoLink, UndoBackups, UndoCurrent, UndoCommit, UndoJournal,
     Prepare, PrepareRefused, PrepareBegins, Backup, LinkStep, WritePrepared, WriteCommit,
     WriteCurrent, WriteCommitted, PrepareFails, Finalizes, StartSection, StartUnmanaged,
     StartRefused, StartOpens, StartActivates, Hook, HookIgnored, HookMismatched, HookCleans,
     HookConfirms, Environment, Writes, Deleted, Exits, WebDies, DaemonDies, history, vars,
     files, records

LEMMA ManifestSteps ==
  ASSUME [Next]_vars
  PROVE  UNCHANGED manifest \/ (\E e \in Edits : Commits(e))
BY DEF Next, Edit, EditBegins, Retires, CommitRejected, StartAsked, Spawns, Enter, Recovery,
     RecoveryThrows, NothingToRecover, RecoveryAdopts, RecoveryUndoes, Undo, UndoClaimed,
     UndoRefused, UndoLink, UndoBackups, UndoGeneration, UndoCurrent, UndoCommit, UndoJournal,
     Prepare, PrepareRefused, PrepareBegins, Backup, LinkStep, WriteGeneration, WritePrepared,
     WriteCommit, WriteCurrent, WriteCommitted, PrepareFails, Finalizes, StartSection,
     StartUnmanaged, StartRefused, StartOpens, StartActivates, Hook, HookIgnored,
     HookMismatched, HookCleans, HookConfirms, Environment, Writes, Deleted, Exits, WebDies,
     DaemonDies, history, vars, files, records

(* Apart from a preparation, the journal's generation stays what it is.      *)
LEMMA JournalKept ==
  ASSUME Typed, [Next]_vars, ~PrepareBegins
  PROVE  /\ UNCHANGED made
         /\ journal'.id = journal.id /\ journal'.prev = journal.prev /\ journal'.was = journal.was
<1>1. CASE UNCHANGED <<journal, made>>
  BY <1>1
<1>2. CASE RecoveryAdopts \/ WritePrepared \/ WriteCommitted \/ UndoJournal
  BY <1>2 DEF RecoveryAdopts, WritePrepared, WriteCommitted, UndoJournal, Linked, Typed,
       TypedRecords
<1> QED
  BY <1>1, <1>2, JournalSteps

LEMMA JournalReads ==
  ASSUME UNCHANGED made, journal'.id = journal.id
  PROVE  Arts' = Arts /\ Target' = Target /\ Rec(journal.id)' = Rec(journal.id)
BY DEF Arts, Target, Rec

LEMMA OpenSteps ==
  ASSUME Typed, Control, [Next]_vars
  PROVE  /\ Open' => Open \/ PrepareBegins
         /\ (journal.phase = "committed")' =>
               journal.phase = "committed" \/ (Open /\ (RecoveryAdopts \/ WriteCommitted))
<1>1. CASE UNCHANGED <<journal, made>>
  BY <1>1 DEF Open
<1>2. CASE RecoveryAdopts
  BY <1>2 DEF RecoveryAdopts, Settled, Open, Typed, TypedRecords, Phases
<1>3. CASE WritePrepared
  BY <1>3 DEF WritePrepared, Linked, Control, Staged, Open, Typed, TypedRecords
<1>4. CASE WriteCommitted
  BY <1>4 DEF WriteCommitted, Control, Staged, Open, Typed, TypedRecords
<1>5. CASE UndoJournal
  BY <1>5 DEF UndoJournal, Typed, TypedRecords, Open
<1>6. CASE PrepareBegins
  BY <1>6 DEF PrepareBegins
<1> QED
  BY <1>1, <1>2, <1>3, <1>4, <1>5, <1>6, JournalSteps

(* Inside the section its holder waits.                                      *)
Inside ==
    \/ NothingToRecover \/ RecoveryUndoes \/ UndoClaimed \/ UndoLink \/ UndoBackups \/ UndoGeneration
    \/ UndoCurrent \/ UndoCommit \/ UndoJournal \/ PrepareBegins \/ Backup \/ LinkStep
    \/ WriteGeneration \/ WritePrepared \/ WriteCommit \/ WriteCurrent \/ WriteCommitted
    \/ PrepareFails \/ StartOpens \/ HookCleans

LEMMA SectionSteps ==
  ASSUME Typed, Control, [Next]_vars
  PROVE  \/ sec' = NoSection
         \/ sec' = sec /\ (sec.at # "free" => From' = From /\ To' = To)
         \/ (\E p \in Actors : Enter(p))
         \/ Inside /\ UNCHANGED act /\ sec'.by = sec.by /\ sec'.job = sec.job /\ From' = From /\ To' = To
<1>1. CASE Outside
  BY <1>1, HolderKept DEF Outside, Retires, Commits, CommitRejected, EditBegins, StartAsked,
       Spawns, WebDies, DaemonDies
<1>2. CASE UNCHANGED <<sec, act>>
  BY <1>2 DEF From, To
<1>3. ASSUME Inside, UNCHANGED act
      PROVE  sec' = NoSection \/ (sec'.by = sec.by /\ sec'.job = sec.job /\ From' = From /\ To' = To)
  BY <1>3 DEF Inside, NothingToRecover, RecoveryUndoes, UndoClaimed, UndoLink, UndoBackups,
    UndoGeneration, UndoCurrent, UndoCommit, UndoJournal, PrepareBegins, Backup, LinkStep,
    WriteGeneration, WritePrepared, WriteCommit, WriteCurrent, WriteCommitted, PrepareFails,
    StartOpens, HookCleans, Goto, ToUndo, Return, Typed, TypedActors, TypedSec, From, To
<1>4. CASE sec' = NoSection
  BY <1>4
<1>5. \/ Outside \/ UNCHANGED <<sec, act>> \/ sec' = NoSection \/ (\E p \in Actors : Enter(p))
      \/ Inside /\ UNCHANGED act
  BY ZenonT(60) DEF Outside, Inside, Next, Edit, Recovery, Undo, Prepare, StartSection, Hook, Environment,
       vars, Return,
       RecoveryThrows, NothingToRecover, RecoveryAdopts, RecoveryUndoes, UndoClaimed, UndoRefused, UndoLink,
       UndoBackups, UndoGeneration, UndoCurrent, UndoCommit, UndoJournal, PrepareRefused, PrepareBegins, Backup,
       LinkStep, WriteGeneration, WritePrepared, WriteCommit, WriteCurrent, WriteCommitted, PrepareFails, Finalizes,
       StartUnmanaged, StartRefused, StartOpens, StartActivates, HookIgnored, HookMismatched, HookCleans,
       HookConfirms, Writes, Deleted, Exits, WebDies, DaemonDies
<1> QED
  BY <1>1, <1>2, <1>3, <1>4, <1>5

(* What becomes of the actors.                                               *)
LEMMA ActSteps ==
  ASSUME Typed, Control, [Next]_vars
  PROVE  \/ UNCHANGED act /\ sec'.by = sec.by /\ sec'.job = sec.job
         \/ Leaves /\ sec.at # "free"
         \/ StartUnmanaged \/ StartActivates
         \/ WriteCommitted /\ sec.job = "prepare"
         \/ (\E p \in Actors : Enter(p))
         \/ Outside
         \/ (WebDies /\ sec.job \notin {"none", "start"}) \/ (DaemonDies /\ sec.job = "start")
<1>1. CASE RecoveryThrows \/ UndoRefused \/ PrepareRefused \/ Finalizes \/ StartRefused \/ HookIgnored
         \/ HookMismatched \/ HookConfirms \/ (UndoBackups /\ sec.bad) \/ (UndoJournal /\ sec.why # "recover")
  BY <1>1, LeavesSteps DEF Control
<1>2. ASSUME Inside, ~(UndoBackups /\ sec.bad), ~(UndoJournal /\ sec.why # "recover"), ~(WriteCommitted /\ sec.job = "prepare")
      PROVE  UNCHANGED act /\ sec'.by = sec.by /\ sec'.job = sec.job
  BY <1>2 DEF Inside, NothingToRecover, RecoveryUndoes, UndoClaimed, UndoLink, UndoBackups,
       UndoGeneration,
         UndoCurrent, UndoCommit, UndoJournal, PrepareBegins, Backup, LinkStep, WriteGeneration, WritePrepared,
         WriteCommit, WriteCurrent, WriteCommitted, PrepareFails, StartOpens, HookCleans, Goto, ToUndo,
         Typed, TypedActors, TypedSec
<1>3. CASE UNCHANGED vars \/ RecoveryAdopts \/ Exits \/ (\E a \in Artifacts : Writes(a)) \/ (\E p \in Profiles, a \in Artifacts : Deleted(p, a))
  BY <1>3 DEF vars, RecoveryAdopts, Exits, Writes, Deleted
<1> QED
  BY <1>1, <1>2, <1>3 DEF Outside, Inside, Next, Edit, Recovery, Undo, Prepare, StartSection,
       Hook, Environment

(* An edit is in the way of the manifest until it commits.                   *)
LEMMA EditSteps ==
  ASSUME Typed, Control, [Next]_vars, NEW e \in Edits
  PROVE  \/ /\ act'[e] = act[e]
            /\ \/ sec' = NoSection \/ (sec = NoSection /\ sec'.by # e)
               \/ sec'.by = sec.by /\ sec'.job = sec.job
         \/ act'[e].at \in {"idle", "start", "spawn", "finalize", "undo", "starting"}
         \/ act[e].at = "retire" /\ act'[e].at = "prepare" /\ act'[e].src = act[e].src
         \/ /\ act'[e].at = "busy" /\ act'[e].src = act[e].src
            /\ sec = NoSection /\ sec'.by = e /\ sec'.job = act[e].at
         \/ act'[e].at \in {"retire", "prepare"} /\ act'[e].src = manifest /\ manifest' = manifest
         \/ /\ act'[e].at = "commit" /\ act'[e].src = act[e].src /\ act'[e].tgt = act[e].tgt
            /\ act'[e].id = journal.id /\ WriteCommitted /\ sec.job = "prepare" /\ e = sec.by
<1>0. act \in [Actors -> Actor] /\ e \in Actors /\ e # "user" /\ e # "hook"
  BY HandoffAssumption DEF Typed, TypedActors, TypedAct, Actors
<1>1. CASE UNCHANGED act /\ sec'.by = sec.by /\ sec'.job = sec.job
  BY <1>1
<1>2. CASE Leaves /\ sec.at # "free"
  BY <1>0, <1>2 DEF Leaves
<1>3. CASE StartUnmanaged \/ StartActivates
  BY <1>3, StartsSteps, <1>0 DEF Control, Granted, Actor
<1>4. CASE WriteCommitted /\ sec.job = "prepare"
  <2>1. Granted([act[sec.by] EXCEPT !.at = "commit", !.id = journal.id])
    BY <1>4, PreparesStep DEF Control
  <2> QED
    BY <1>0, <1>4, <2>1 DEF Granted, Actor
<1>5. ASSUME NEW p \in Actors, Enter(p)
      PROVE  \/ act'[e] = act[e] /\ sec = NoSection /\ sec'.by # e
             \/ act'[e].at = "starting"
             \/ /\ act'[e].at = "busy" /\ act'[e].src = act[e].src
                /\ sec = NoSection /\ sec'.by = e /\ sec'.job = act[e].at
  <2>1. act' = [act EXCEPT ![p].at = IF @ = "start" THEN "starting" ELSE "busy"] /\ sec = NoSection /\ sec'.by = p
    BY <1>5 DEF Enter, NoSection
  <2>2. act[p].at # "post" => sec'.job = act[p].at
    BY <1>5 DEF Enter, NoSection
  <2>3. act[e].at # "post" /\ act[e] \in Actor
    BY <1>0 DEF Control, Roles
  <2>4. CASE p # e
    BY <1>0, <2>1, <2>4
  <2>5. CASE p = e
    BY <1>0, <2>1, <2>5, <2>3, <2>2 DEF Actor
  <2> QED
    BY <2>4, <2>5
<1>6. ASSUME NEW x \in Edits, NEW p \in Profiles, EditBegins(x, p)
      PROVE  act'[e] = act[e] \/ (act'[e].at \in {"retire", "prepare"} /\ act'[e].src = manifest /\ manifest' = manifest)
  BY <1>0, <1>6 DEF EditBegins, Actors
<1>7. ASSUME NEW x \in Edits, Retires(x)
      PROVE  act'[e] = act[e] \/ (act[e].at = "retire" /\ act'[e].at = "prepare" /\ act'[e].src = act[e].src)
  BY <1>0, <1>7 DEF Retires, Actor
<1>8. ASSUME NEW x \in Edits, Commits(x) \/ CommitRejected(x)
      PROVE  act'[e] = act[e] \/ act'[e].at \in {"finalize", "undo"}
  BY <1>0, <1>8 DEF Commits, CommitRejected, Actor
<1>9. CASE StartAsked
  BY <1>0, <1>9 DEF StartAsked
<1>10. ASSUME NEW p \in Actors, Spawns(p) PROVE act'[e] = act[e] \/ act'[e].at = "idle"
  BY <1>10, <1>0, NoActorTyped DEF Spawns
<1>11. CASE WebDies \/ DaemonDies
  BY <1>0, <1>11, NoActorTyped DEF WebDies, DaemonDies
<1>12. Outside => sec' = sec
  BY DEF Outside, Retires, Commits, CommitRejected, EditBegins, StartAsked, Spawns, WebDies,
       DaemonDies
<1> QED
  BY <1>1, <1>2, <1>3, <1>4, <1>5, <1>6, <1>7, <1>8, <1>9, <1>10, <1>11, <1>12, ActSteps DEF
       Outside

-----------------------------------------------------------------------------
(* Whose profiles matter, and what may be undone.                            *)

LEMMA PendingSteps ==
  ASSUME Typed, Control, [Next]_vars, NEW e \in Edits, Pending(e)'
  PROVE  \/ Pending(e) /\ act'[e].src = act[e].src
         \/ act'[e].src = manifest /\ manifest' = manifest
<1>1. Control' /\ e \in Actors /\ e # "user" /\ e # "hook"
  BY ControlStep, HandoffAssumption DEF Actors
<1>2. CASE act'[e].at \in {"idle", "start", "spawn", "finalize", "undo", "starting"}
  BY <1>1, <1>2, NoSectionTyped DEF Pending, Control, Held, Shaped
<1>3. CASE \/ act'[e] = act[e] /\ (sec' = NoSection \/ (sec = NoSection /\ sec'.by # e))
           \/ act'[e] = act[e] /\ sec'.by = sec.by /\ sec'.job = sec.job
  BY <1>3, NoSectionTyped DEF Pending
<1> QED
  BY <1>2, <1>3, EditSteps DEF Pending

LEMMA CommitterSteps ==
  ASSUME Typed, Control, [Next]_vars, NEW e \in Edits, act'[e].at = "commit"
  PROVE  \/ act[e].at = "commit" /\ act'[e] = act[e]
         \/ /\ WriteCommitted /\ sec.job = "prepare" /\ e = sec.by
            /\ act'[e].tgt = act[e].tgt /\ act'[e].id = journal.id
BY EditSteps

LEMMA ClaimSteps ==
  ASSUME Typed, Control, [Next]_vars, NEW e \in Edits, Claims(e)'
  PROVE  \/ Claims(e) /\ act'[e].id = act[e].id
         \/ WriteCommitted /\ sec.job = "prepare" /\ e = sec.by /\ act'[e].id = journal.id
<1>0. act \in [Actors -> Actor] /\ e \in Actors /\ e # "user" /\ e # "hook"
  BY HandoffAssumption DEF Typed, TypedActors, TypedAct, Actors
<1>1. CASE UNCHANGED act /\ sec'.by = sec.by /\ sec'.job = sec.job
  BY <1>1 DEF Claims
<1>2. CASE Leaves /\ sec.at # "free"
  BY <1>2, LeavesClaims
<1>3. CASE StartUnmanaged \/ StartActivates
  BY <1>3, StartsSteps, <1>0, NoSectionTyped DEF Control, Granted, Actor, Claims
<1>4. CASE WriteCommitted /\ sec.job = "prepare"
  BY <1>4, PreparesStep, <1>0, NoSectionTyped DEF Control, Granted, Actor, Claims
<1>5. ASSUME NEW p \in Actors, Enter(p) PROVE Claims(e) /\ act'[e].id = act[e].id
  <2>1. act' = [act EXCEPT ![p].at = IF @ = "start" THEN "starting" ELSE "busy"] /\ sec = NoSection /\ sec'.by = p
    BY <1>5 DEF Enter, NoSection
  <2>2. act[p].at # "post" => sec'.job = act[p].at
    BY <1>5 DEF Enter, NoSection
  <2>3. act[e].at # "post" /\ act[e] \in Actor
    BY <1>0 DEF Control, Roles
  <2>4. CASE p # e
    BY <1>0, <2>1, <2>4 DEF Claims
  <2>5. CASE p = e
    BY <1>0, <2>1, <2>5, <2>3, <2>2 DEF Actor, Claims
  <2> QED
    BY <2>4, <2>5
<1>6. CASE Outside
  BY <1>6, ClaimsOutside
<1>7. CASE (WebDies /\ sec.job \notin {"none", "start"}) \/ (DaemonDies /\ sec.job = "start")
  BY <1>0, <1>7, NoActorTyped, NoSectionTyped DEF WebDies, DaemonDies, Claims
<1> QED
  BY <1>1, <1>2, <1>3, <1>4, <1>5, <1>6, <1>7, ActSteps

(* An unsettled journal is nobody's yet.                                     *)
LEMMA OpenUnowned ==
  ASSUME Typed, Control, Open, NEW e \in Edits
  PROVE  ~Owns(e)
BY DEF Open, Control, Claiming, Counted, Owns, Typed, TypedRecords

LEMMA OnlyOwner ==
  ASSUME Typed, Control, NEW e \in Edits, NEW x \in Edits, Owns(e), Owns(x)
  PROVE  e = x /\ journal.phase = "committed"
BY DEF Control, Claiming, Counted, Owns, Typed, TypedRecords

LEMMA UndoingOwned ==
  ASSUME Typed, Control, Undoing
  PROVE  /\ Undoable
         /\ Open \/ (sec.job = "undo" /\ sec.by \in Edits /\ Owns(sec.by) /\ act[sec.by].at = "busy")
         /\ \A e \in Edits : Owns(e) => act[e].at # "commit"
<1>1. CASE Open
  BY <1>1, OpenUnowned DEF Undoable
<1>2. CASE ~Open
  BY <1>2, PreparerMoves, OnlyOwner DEF Control, Staged, Shaped, Owns, Claims, Claiming, Undoable
<1> QED
  BY <1>1, <1>2

LEMMA UndoableSteps ==
  ASSUME Typed, Control, [Next]_vars, Undoable', ~PrepareBegins
  PROVE  Undoable
<1>1. CASE Open'
  BY <1>1, OpenSteps DEF Undoable
<1>2. CASE ~Open'
  <2>1. PICK e \in Edits : Owns(e)' /\ (journal.phase = "committed")'
    BY <1>2 DEF Undoable
  <2>2. CASE Open
    BY <2>2 DEF Undoable
  <2>3. CASE ~Open
    BY <2>1, <2>3, OpenSteps, ClaimSteps, JournalKept DEF WriteCommitted, Control, Staged, Open,
      Owns, Undoable
  <2> QED
    BY <2>2, <2>3
<1> QED
  BY <1>1, <1>2

(* While something may be undone, the profiles that then matter stay.        *)
LEMMA HomeSteps ==
  ASSUME Typed, Control, [Next]_vars, Undoable', ~PrepareBegins, NEW p \in Profiles,
         (Homes(p) \/ Others(p))'
  PROVE  Homes(p) \/ Others(p)
<1>1. Typed' /\ Control'
  BY TypedStep, ControlStep
<1>2. CASE Others(p)'
  <2>1. PICK e \in Edits : act'[e].at = "commit" /\ ~Owns(e)' /\ p = act'[e].tgt
    BY <1>2 DEF Others
  <2>2. Claims(e)'
    BY <2>1 DEF Claims
  <2>3. act'[e].id # journal.id
    BY <2>1, <2>2, JournalKept DEF Owns
  <2>4. act[e].at = "commit" /\ act'[e] = act[e]
    BY <2>1, <2>3, CommitterSteps
  <2>5. ~Owns(e)
    BY <2>3, <2>4 DEF Owns
  <2> QED
    BY <2>1, <2>4, <2>5 DEF Others
<1>3. ASSUME NEW e \in Edits, Pending(e)', p = act'[e].src PROVE Homes(p)
  BY <1>3, PendingSteps DEF Homes
<1>4. CASE p = manifest'
  <2>1. CASE UNCHANGED manifest
    BY <1>4, <2>1 DEF Homes
  <2>2. ASSUME NEW e \in Edits, Commits(e) PROVE Homes(p) \/ Others(p)
    <3>1. act[e].at = "commit" /\ p = act[e].tgt /\ UNCHANGED <<journal, sec>>
      BY <1>4, <2>2 DEF Commits, records
    <3>2. CASE ~Owns(e)
      BY <3>1, <3>2 DEF Others
    <3>3. CASE Owns(e)
      <4>1. ~Open
        BY <3>3, OpenUnowned
      <4>2. PICK x \in Edits : Owns(x)'
        BY <3>1, <4>1 DEF Undoable, Open
      <4>3. sec.at # "committed" \/ ~WriteCommitted
        BY <4>1 DEF Control, Staged, Open, WriteCommitted
      <4>4. Owns(x)
        BY <3>1, <4>2, <4>3, ClaimSteps DEF Owns, WriteCommitted
      <4>5. x = e
        BY <3>3, <4>4, OnlyOwner
      <4>6. act'[e].at = "finalize"
        BY <2>2 DEF Commits, Typed, TypedActors, TypedAct, Actors, Actor
      <4>7. sec'.by = e /\ sec'.job = "undo"
        BY <4>2, <4>5, <4>6 DEF Owns, Claims
      <4> QED
        BY <1>1, <4>6, <4>7, HandoffAssumption, NoSectionTyped DEF Control, Held, Shaped
    <3> QED
      BY <3>2, <3>3
  <2> QED
    BY <2>1, <2>2, ManifestSteps
<1> QED
  BY <1>2, <1>3, <1>4 DEF Homes

LEMMA GoalSteps ==
  ASSUME Typed, Control, [Next]_vars, NEW p \in Profiles, (Homes(p) \/ Goals(p))'
  PROVE  Homes(p) \/ Goals(p) \/ (WriteCommitted /\ sec.job = "prepare" /\ p = To)
<1>1. CASE Goals(p)'
  BY <1>1, CommitterSteps DEF Goals, To
<1>2. ASSUME NEW e \in Edits, Pending(e)', p = act'[e].src PROVE Homes(p)
  BY <1>2, PendingSteps DEF Homes
<1>3. CASE p = manifest'
  BY <1>3, ManifestSteps DEF Homes, Goals, Commits
<1> QED
  BY <1>1, <1>2, <1>3 DEF Homes

-----------------------------------------------------------------------------
(* The files before the journal's generation.                                *)

LEMMA UsableAgain ==
  ASSUME Typed, Control, sec.at \in {"check", "activate"} \/ In("start", "open")
  PROVE  Usable /\ ~Open
BY DEF Control, Staged, Usable, Open, Typed, TypedRecords, Phases

LEMMA FilesAre ==
  ASSUME Typed
  PROVE  /\ file \in [Places -> [Artifacts -> Nat]] /\ latest \in [Artifacts -> Nat \ {0}]
         /\ \A p \in Places, a \in Artifacts : file[p][a] \in Nat
         /\ "store" \in Places /\ \A p \in Profiles : p \in Places /\ p # "store"
BY HandoffAssumption DEF Typed, TypedFiles, Links, Places

LEMMA PrepareBegun ==
  ASSUME Typed, Control, PrepareBegins
  PROVE  /\ sec.at = "check" /\ Preparable /\ Usable /\ ~Open /\ Undoable'
         /\ From \in Profiles /\ To \in Profiles
         /\ UNCHANGED <<file, backup, latest, current, act, manifest>> /\ sec' = [sec EXCEPT !.at = "backup"]
         /\ Arts' = Present(From) /\ Target' = To /\ Rec(journal.id)'.src = From
         /\ journal'.prev = current /\ journal'.phase = "preparing"
         /\ \A g \in 1..Len(made) : Rec(g)' = Rec(g)
         /\ \A a \in Artifacts : journal'.was["store"][a] = IF a \in Present(From) THEN file["store"][a] ELSE 0
         /\ \A a \in Artifacts : journal'.was["target"][a] = IF a \in Present(From) THEN file[To][a] ELSE 0
<1>1. sec.at = "check" /\ Preparable /\ UNCHANGED <<file, backup, latest, current, act, manifest>>
      /\ sec' = [sec EXCEPT !.at = "backup"]
  BY DEF PrepareBegins, Goto, files, history
<1>2. Usable /\ ~Open /\ From \in Profiles /\ To \in Profiles
  BY <1>1, UsableAgain, HolderTyped DEF Control
<1>3. PICK r : made' = Append(made, r) /\ r = [src |-> From, tgt |-> To, arts |-> Present(From)]
  BY DEF PrepareBegins
<1>4. r \in Generations /\ made \in Seq(Generations)
  BY <1>2, <1>3 DEF Generations, Present, Typed, TypedRecords
<1>5. journal'.id = Len(made) + 1 /\ journal'.prev = current /\ journal'.phase = "preparing"
  BY DEF PrepareBegins
<1>6. (\A g \in 1..Len(made) : made'[g] = made[g]) /\ made'[Len(made) + 1] = r
  BY <1>3, <1>4, AppendProperties
<1>7. Arts' = Present(From) /\ Target' = To /\ Rec(journal.id)'.src = From
  BY <1>3, <1>5, <1>6 DEF Arts, Target, Rec
<1>8. \A g \in 1..Len(made) : Rec(g)' = Rec(g)
  BY <1>6 DEF Rec
<1>9. journal'.was = [d \in {"store", "target"} |-> [a \in Artifacts |->
                         IF a \in Present(From) THEN file[IF d = "store" THEN d ELSE To][a] ELSE 0]]
  BY DEF PrepareBegins
<1>10. Undoable'
  BY <1>5 DEF Undoable, Open
<1> QED
  BY <1>1, <1>2, <1>5, <1>7, <1>8, <1>9, <1>10

LEMMA BeforeBegins ==
  ASSUME Typed, Control, PrepareBegins, NEW p \in Places, NEW a \in Artifacts
  PROVE  Before'[p][a] = file[p][a]
BY PrepareBegun DEF Before

(* While a journal is unsettled the hook removes nothing that matters.       *)
LEMMA HookLeaves ==
  ASSUME Typed, Control, Quiet, HookCleans, Undoable
  PROVE  /\ Open /\ Refreshing /\ current = journal.prev
         /\ \A p \in Profiles : Homes(p) \/ Others(p) => p = Target
         /\ \A a \in Artifacts : file'["store"][a] = file["store"][a] /\ file'[Target][a] = file[Target][a]
<1>1. /\ sec.job = "confirm" /\ sec.at = "open" /\ activation.id = current /\ current # 0
      /\ (Rec(current).src # Rec(current).tgt \/ \A p \in Places, a \in Artifacts : file'[p][a] = file[p][a])
      /\ \A p \in Places \ {Rec(current).src}, a \in Artifacts : file'[p][a] = file[p][a]
  BY FilesAre DEF HookCleans, In, Activated, Moved
<1>2. sec.by = "hook" /\ act["hook"].at \in {"busy", "post"} /\ ~Undoing /\ ~Preparing
  BY <1>1 DEF Control, Shaped, Held, Undoing, Preparing
<1>3. activation.id \in Nat /\ journal.id \in Nat /\ journal.prev \in Nat
      /\ \A e \in Edits : Claims(e) => activation.id < act[e].id
  BY DEF Quiet, Typed, TypedRecords
<1>4. Open
  BY <1>1, <1>2, <1>3 DEF Control, Owning, Owns, Undoable
<1>5. Refreshing
  BY <1>2, <1>4 DEF Quiet
<1>6. current = journal.prev
  BY <1>1, <1>4 DEF Control, Counted, Marked
<1>7. \A e \in Edits : ~Claims(e)
  BY <1>1, <1>3, <1>4, <1>6 DEF Control, Claiming, Open, Typed, TypedActors, TypedAct, Actor, Actors
<1>8. Target = manifest /\ Rec(current).tgt = manifest /\ \A e \in Edits : Moving(e) => act[e].src = manifest
  BY <1>1, <1>5, <1>6 DEF Quiet, Recallable, Refreshing
<1>9. \A e \in Edits : act[e].at # "commit" /\ (Pending(e) => Moving(e))
  BY <1>1, <1>7 DEF Claims, Pending, Moving
<1>10. Target \in Places /\ "store" \in Places /\ Rec(current).src \in Profiles
  BY <1>1, <1>3, <1>6, <1>8, RecTyped, FilesAre DEF Control, Counted, Typed, TypedRecords,
    TypedActors, TypedRest
<1>11. \A a \in Artifacts : file'["store"][a] = file["store"][a]
  BY <1>1, <1>10, FilesAre
<1>12. \A a \in Artifacts : file'[Target][a] = file[Target][a]
  BY <1>1, <1>8, <1>10
<1> QED
  BY <1>4, <1>5, <1>6, <1>8, <1>9, <1>11, <1>12 DEF Homes, Others

(* A start finds the files of a generation that can still be undone linked.  *)
LEMMA StartOpensOwned ==
  ASSUME Typed, Control, Laid, StartOpens, Undoable, NEW p \in Places, NEW a \in Artifacts
  PROVE  file'[p][a] = file[p][a]
<1>1. In("start", "open") /\ Rec(current).tgt = To /\ file' = [file EXCEPT ![To] = [b \in Artifacts |-> Materialised(b)]]
  BY DEF StartOpens, Elsewhere
<1>2. ~Open /\ ~Undoing
  BY <1>1, UsableAgain DEF In, Undoing
<1>3. PICK e \in Edits : Owns(e)
  BY <1>2 DEF Undoable
<1>4. current = journal.id /\ \A b \in Arts : Shared(b)
  BY <1>2, <1>3 DEF Control, Owning, Laid
<1>5. Target = To
  BY <1>1, <1>4 DEF Target
<1>6. Materialised(a) = file[To][a]
  BY <1>4, <1>5 DEF Materialised, Arts, Shared
<1> QED
  BY <1>1, <1>6, FilesAre

LEMMA WritesAlone ==
  ASSUME Typed, Control, Quiet, ~raced', NEW a \in Artifacts, Writes(a)
  PROVE  /\ ~Undoable /\ ~Undoable' /\ ~Undoing /\ ~Laying /\ Up
         /\ running = manifest /\ manifest \in Profiles
         /\ \A p \in Profiles : Homes(p) \/ Goals(p) => p = manifest
<1>1. running # "none" /\ ~Open /\ UNCHANGED <<journal, act, sec>>
  BY DEF Writes, Settled, Open, records
<1>2. Up /\ running = manifest /\ manifest \in Profiles
  BY <1>1 DEF Quiet, Up, Typed, TypedActors, TypedRest
<1>3. \A e \in Edits : Moving(e) => act[e].at = "retire" /\ act[e].src = manifest
  BY <1>1 DEF Quiet
<1>4. \A e \in Edits : ~Claims(e)
  BY <1>3, ClaimsMove
<1>5. ~Undoable
  BY <1>1, <1>4 DEF Undoable, Owns
<1>6. ~Undoable'
  BY <1>1, <1>5 DEF Undoable, Owns, Claims, Open
<1>7. ~Undoing /\ ~Laying
  BY <1>1, <1>5, UndoingOwned DEF Laying, Control, Staged, Open
<1>8. ASSUME NEW e \in Edits, Pending(e) PROVE act[e].src = manifest
  BY <1>8, PreparerMoves, <1>3 DEF Pending, Moving
<1>9. \A e \in Edits : act[e].at # "commit"
  BY <1>4 DEF Claims
<1> QED
  BY <1>2, <1>5, <1>6, <1>7, <1>8, <1>9 DEF Homes, Goals

LEMMA DeletedAlone ==
  ASSUME Typed, Control, NEW p \in Profiles, NEW a \in Artifacts, Deleted(p, a)
  PROVE  ~Undoable /\ ~Undoable' /\ sec.at = "free" /\ ~Up /\ ~Up'
<1>1. running = "none" /\ ~Open /\ UNCHANGED <<journal, act, sec, running>> /\ \A x \in Actors : act[x].at = "idle"
  BY DEF Deleted, Settled, Open, records
<1>2. sec.at = "free"
  BY <1>1 DEF Control, Shaped, Held, Actors
<1>3. \A e \in Edits : ~Claims(e)
  BY <1>1, <1>2, NoSectionTyped DEF Claims, Control, Shaped, Actors
<1>4. ~Undoable
  BY <1>1, <1>3 DEF Undoable, Owns
<1>5. ~Undoable'
  BY <1>1, <1>4 DEF Undoable, Owns, Claims, Open
<1> QED
  BY <1>1, <1>2, <1>4, <1>5 DEF Up

(* Linking and unlinking touch one entry of the plan.                        *)
LEMMA EntryTouched ==
  ASSUME Typed, Control, LinkStep \/ UndoLink
  PROVE  /\ sec.k \in Nat /\ PlanPlace(sec.k) \in {"store", Target} /\ Target \in Profiles /\ journal.id # 0
         /\ Undoable /\ UNCHANGED latest
         /\ \A p \in Places, a \in Artifacts :
               file'[p][a] # file[p][a] => p = PlanPlace(sec.k) /\ a = PlanArtifact(sec.k) /\ a \in Arts
<1>1. Laying \/ Undoing
  BY DEF LinkStep, UndoLink, Laying, Undoing
<1>2. journal.id # 0 /\ Target \in Profiles /\ Undoable
  BY <1>1, JournalPhase, JournalRec, UndoingOwned DEF Laying, Control, Staged, Open, Undoable
<1>3. sec.k \in Nat /\ PlanPlace(sec.k) \in {"store", Target}
  BY DEF Typed, TypedActors, TypedSec, PlanPlace
<1>4. UNCHANGED latest
  BY DEF LinkStep, UndoLink, history
<1>5. PICK v : \/ file' = file
               \/ PlanArtifact(sec.k) \in Arts /\ file' = [file EXCEPT ![PlanPlace(sec.k)][PlanArtifact(sec.k)] = v]
  BY DEF LinkStep, UndoLink, Arts
<1> QED
  BY <1>2, <1>3, <1>4, <1>5, FilesAre

LEMMA BeforeSteps ==
  ASSUME Typed, Control, Quiet, Laid, [Next]_vars, ~raced', Undoable', ~PrepareBegins,
         NEW p \in Places, NEW a \in Artifacts,
         p \in {"store", Target} \/ Homes(p) \/ Others(p) \/ ~HookCleans
  PROVE  Before'[p][a] = Before[p][a] /\ latest' = latest
<1>1. Undoable /\ UNCHANGED made /\ journal'.id = journal.id /\ journal'.was = journal.was
  BY UndoableSteps, JournalKept
<1>2. Arts' = Arts /\ Target' = Target
  BY <1>1, JournalReads
<1>3. ASSUME file'[p][a] = file[p][a] PROVE Before'[p][a] = Before[p][a]
  BY <1>1, <1>2, <1>3 DEF Before
<1>4. CASE UNCHANGED <<file, latest>>
  BY <1>3, <1>4
<1>5. CASE LinkStep \/ UndoLink
  BY <1>1, <1>2, <1>3, <1>5, EntryTouched DEF Before
<1>6. CASE StartOpens
  BY <1>1, <1>3, <1>6, StartOpensOwned DEF StartOpens, history
<1>7. CASE HookCleans
  BY <1>1, <1>7, HookLeaves, <1>3 DEF Homes, Others, Typed, TypedActors, TypedRest, TypedAct, Actor,
    Actors, HookCleans, history
<1>8. ASSUME NEW b \in Artifacts, Writes(b) PROVE FALSE
  BY <1>8, WritesAlone
<1>9. ASSUME NEW q \in Profiles, NEW b \in Artifacts, Deleted(q, b) PROVE FALSE
  BY <1>9, DeletedAlone
<1> QED
  BY <1>4, <1>5, <1>6, <1>7, <1>8, <1>9, FileSteps

LEMMA SafeThenStep ==
  ASSUME Typed, Control, Quiet, SafeNow, SafeThen, Laid, [Next]_vars, ~raced'
  PROVE  SafeThen'
<1> SUFFICES ASSUME Undoable', NEW p \in Profiles, (Homes(p) \/ Others(p))', NEW a \in Artifacts
             PROVE  Before'[p][a] = latest'[a] \/ (Before'[p][a] = 0 /\ Before'["store"][a] = latest'[a])
  BY DEF SafeThen, SafeIn
<1>1. p \in Places /\ "store" \in Places
  BY FilesAre
<1>2. CASE PrepareBegins
  BY <1>2, GoalSteps, <1>1, BeforeBegins, PrepareBegun DEF Others, Goals, PrepareBegins,
    WriteCommitted, SafeNow, SafeIn
<1>3. CASE ~PrepareBegins
  BY <1>3, HomeSteps, UndoableSteps, <1>1, BeforeSteps DEF SafeThen, SafeIn
<1> QED
  BY <1>2, <1>3

LEMMA HarmThenStep ==
  ASSUME Typed, Control, Quiet, HarmNow, HarmThen, Laid, [Next]_vars, ~raced'
  PROVE  HarmThen'
<1> SUFFICES ASSUME Undoable', NEW g, g = journal'.prev PROVE Harmless(Before, g)'
  BY DEF HarmThen, Harmless, Rec
<1>1. "store" \in Places
  BY FilesAre
<1>2. CASE PrepareBegins
  BY <1>2, PrepareBegun, RecTyped, <1>1, BeforeBegins DEF HarmNow, Control, Marked, Counted, Typed,
    TypedRecords, Places, Harmless
<1>3. CASE ~PrepareBegins
  <2>1. Undoable /\ g = journal.prev /\ UNCHANGED made
    BY <1>3, UndoableSteps, JournalKept
  <2>2. Harmless(Before, g)
    BY <2>1 DEF HarmThen
  <2>3. g # 0 => Rec(g)' = Rec(g) /\ Rec(g).tgt \in Places
    BY <2>1, RecTyped DEF Control, Counted, Typed, TypedRecords, Places, Rec
  <2>4. \A a \in Artifacts : Before'["store"][a] = Before["store"][a] /\ latest' = latest
    BY <1>1, <1>3, BeforeSteps
  <2>5. g # 0 => \A a \in Artifacts : Before'[Rec(g).tgt][a] = Before[Rec(g).tgt][a]
    BY <2>1, HookLeaves, <1>3, <2>3, BeforeSteps DEF Refreshing
  <2>6. g = 0 => \A a \in Artifacts : Before'["store"][a] = 0
    BY <2>2, <2>4 DEF Harmless
  <2>7. g # 0 => \A a \in Artifacts : Before'[Rec(g)'.tgt][a] \in {0, latest'[a], Before'["store"][a]}
    BY <2>2, <2>3, <2>4, <2>5 DEF Harmless
  <2> QED
    BY <2>6, <2>7 DEF Harmless
<1> QED
  BY <1>2, <1>3

-----------------------------------------------------------------------------
(* What may be undone is recorded.                                           *)

LEMMA UndoableJournal ==
  ASSUME Typed, Control, Undoable
  PROVE  /\ journal.id \in 1..Len(made) /\ Target \in Profiles /\ Target # "store"
         /\ Arts \subseteq Artifacts /\ 1 \in Arts
<1>1. journal.id # 0
  BY DEF Undoable, Open, Control, Counted
<1>2. journal.id \in 1..Len(made) /\ Target \in Profiles /\ Arts \subseteq Artifacts
  BY <1>1, JournalRec DEF Control
<1> QED
  BY <1>2, FilesAre DEF Control, Counted, Arts, Rec

LEMMA PlanEntry ==
  ASSUME NEW k \in Nat, Target # "store"
  PROVE  /\ PlanPlace(k) = Place(PlanDest(k)) /\ PlanDest(k) \in Dests
         /\ \A d \in Dests : Place(d) = PlanPlace(k) => d = PlanDest(k)
BY DEF PlanPlace, PlanDest, Place, Dests

LEMMA LinkValue ==
  ASSUME Typed, Control, Laid, LinkStep
  PROVE  /\ Laying /\ sec.at = "link" /\ From \in Profiles /\ From \in Places /\ Target = To
         /\ Rec(journal.id).src = From
         /\ \A p \in Places, a \in Artifacts : file'[p][a] \in {file[p][a], file[From][a]}
         /\ \A a \in Artifacts : file'[From][a] = file[From][a]
         /\ \A a \in Arts : file[From][a] # 0
<1>1. Laying /\ sec.at = "link"
  BY DEF LinkStep, Laying
<1>2. From \in Profiles /\ From \in Places
  BY <1>1, HolderTyped DEF Control
<1>3. \/ file' = file
      \/ file' = [file EXCEPT ![PlanPlace(sec.k)][PlanArtifact(sec.k)] = file[From][PlanArtifact(sec.k)]]
  BY DEF LinkStep
<1> QED
  BY <1>1, <1>2, <1>3, FilesAre DEF Laid, Control, Staged

LEMMA FromSafe ==
  ASSUME Typed, Control, SafeNow, Laying \/ sec.at = "check"
  PROVE  /\ sec.job \in {"prepare", "start"}
         /\ sec.job = "prepare" => SafeIn(file, From) /\ From # To
         /\ sec.job = "start" => From = To /\ sec.why = "refresh"
<1>1. sec.at # "free" /\ sec.job \in {"prepare", "start"} /\ (sec.job = "start" => sec.why = "refresh")
  BY DEF Laying, Control, Shaped, Undoing, Typed, TypedActors, TypedSec, Jobs
<1>2. From \in Profiles
  BY <1>1, HolderTyped DEF Control
<1>3. ASSUME sec.job = "prepare" PROVE SafeIn(file, From) /\ From # To
  BY <1>3, PreparerMoves, <1>2 DEF Homes, Pending, From, SafeNow, Control, Roles, To
<1>4. ASSUME sec.job = "start" PROVE From = To
  BY <1>1, <1>4 DEF Control, Held, Roles, Shaped, From, To
<1> QED
  BY <1>1, <1>3, <1>4

LEMMA UndoValue ==
  ASSUME Typed, Control, Tracked, UndoLink
  PROVE  /\ Undoing /\ sec.k \in Nat \ {0}
         /\ \A d \in Dests, a \in Artifacts :
               file'[Place(d)][a] = file[Place(d)][a] \/ (a \in Arts /\ file'[Place(d)][a] = journal.was[d][a])
         /\ ~sec'.bad /\ PlanArtifact(sec.k) \in Arts =>
               file'[PlanPlace(sec.k)][PlanArtifact(sec.k)] = journal.was[PlanDest(sec.k)][PlanArtifact(sec.k)]
<1> DEFINE k == sec.k
           a == PlanArtifact(k)
           p == PlanPlace(k)
           was == journal.was[PlanDest(k)][a]
           kept == backup[PlanDest(k)][a]
<1>1. Undoing /\ k \in Nat \ {0} /\ Undoable
  BY UndoingOwned DEF UndoLink, Undoing, Typed, TypedActors, TypedSec
<1>2. Target # "store" /\ Target \in Places /\ "store" \in Places /\ Arts \subseteq Artifacts
  BY <1>1, UndoableJournal, FilesAre
<1>3. p = Place(PlanDest(k)) /\ PlanDest(k) \in Dests /\ \A d \in Dests : Place(d) = p => d = PlanDest(k)
  BY <1>1, <1>2, PlanEntry
<1>4. file' = IF a \in Arts /\ (was = 0 \/ kept # 0) THEN [file EXCEPT ![p][a] = kept] ELSE file
  BY DEF UndoLink, Arts
<1>5. sec'.bad = (sec.bad \/ (a \in Arts /\ was # 0 /\ kept = 0 /\ file[p][a] # was))
  BY DEF UndoLink, Arts, Typed, TypedActors, TypedSec
<1>6. ASSUME a \in Arts, was = 0 \/ kept # 0 PROVE kept = was
  BY <1>1, <1>2, <1>3, <1>6 DEF Tracked, NoBackup, NoFiles, Dests
<1>7. p \in Places /\ \A d \in Dests : Place(d) \in Places
  BY <1>2, <1>3 DEF Place
<1> HIDE DEF was, kept
<1>8. \A d \in Dests, b \in Artifacts :
         file'[Place(d)][b] = file[Place(d)][b] \/ (b \in Arts /\ b = a /\ Place(d) = p /\ file'[Place(d)][b] = was)
  BY <1>4, <1>6, <1>7, FilesAre
<1>9. \A d \in Dests, b \in Artifacts :
         file'[Place(d)][b] = file[Place(d)][b] \/ (b \in Arts /\ file'[Place(d)][b] = journal.was[d][b])
  BY <1>3, <1>8 DEF was
<1>10. ~sec'.bad /\ a \in Arts => file'[p][a] = was
  BY <1>2, <1>4, <1>5, <1>6, <1>7, FilesAre
<1> QED
  BY <1>1, <1>9, <1>10 DEF was

(* A step leaves the store's and the target's files of the plan, unless it   *)
(* links or unlinks.                                                         *)
LEMMA PlannedFiles ==
  ASSUME Typed, Control, Quiet, Laid, [Next]_vars, ~raced', Undoable', ~PrepareBegins, ~LinkStep, ~UndoLink,
         NEW d \in Dests, NEW a \in Artifacts
  PROVE  file'[Place(d)][a] = file[Place(d)][a]
<1>1. Undoable
  BY UndoableSteps
<1>2. Place(d) \in {"store", Target} /\ Place(d) \in Places
  BY <1>1, UndoableJournal, FilesAre DEF Place
<1>3. CASE UNCHANGED <<file, latest>>
  BY <1>3
<1>4. CASE StartOpens
  BY <1>1, <1>2, <1>4, StartOpensOwned
<1>5. CASE HookCleans
  BY <1>1, <1>2, <1>5, HookLeaves
<1>6. ASSUME NEW b \in Artifacts, Writes(b) PROVE FALSE
  BY <1>6, WritesAlone
<1>7. ASSUME NEW q \in Profiles, NEW b \in Artifacts, Deleted(q, b) PROVE FALSE
  BY <1>7, DeletedAlone
<1> QED
  BY <1>3, <1>4, <1>5, <1>6, <1>7, FileSteps

LEMMA LatestKept ==
  ASSUME Typed, Control, Quiet, [Next]_vars, ~raced', Undoable'
  PROVE  latest' = latest
BY LatestSteps, WritesAlone

LEMMA PlaceKept ==
  ASSUME Typed, [Next]_vars, ~PrepareBegins, NEW d
  PROVE  Place(d)' = Place(d) /\ Arts' = Arts /\ Target' = Target /\ journal'.was = journal.was
BY JournalKept, JournalReads DEF Place

LEMMA PlannedSources ==
  ASSUME Typed, Control, SafeNow, Laid, Laying, NEW a \in Arts
  PROVE  /\ file[From][a] # 0 /\ file[From][a] \in {latest[a], journal.was["store"][a]}
         /\ From = Target \/ file[From][a] = latest[a]
<1>1. file[From][a] # 0 /\ file[From][a] \in {latest[a], journal.was["store"][a]}
  BY DEF Laid
<1>2. Target = To /\ a \in Artifacts
  BY UndoableJournal DEF Laying, Control, Staged, Open, Undoable
<1> QED
  BY <1>1, <1>2, FromSafe DEF SafeIn

LEMMA TrackedFiles ==
  ASSUME Typed, Control, Quiet, SafeNow, Tracked, Laid, [Next]_vars, ~raced', Undoable',
         NEW d \in Dests, NEW a, (a \in Arts)'
  PROVE  (file[Place(d)][a] = latest[a] \/ Unlinked(a, d))'
<1>1. CASE PrepareBegins
  BY <1>1, PrepareBegun DEF Unlinked, Place, Dests, Present
<1>2. CASE ~PrepareBegins
  <2>1. Undoable /\ Place(d)' = Place(d) /\ Arts' = Arts /\ journal'.was = journal.was /\ latest' = latest
    BY <1>2, UndoableSteps, PlaceKept, LatestKept
  <2>2. a \in Arts /\ a \in Artifacts /\ Target # "store" /\ Place(d) \in Places
    BY <2>1, UndoableJournal, FilesAre DEF Place
  <2>3. file[Place(d)][a] = latest[a] \/ file[Place(d)][a] = journal.was[d][a]
    BY <2>1, <2>2 DEF Tracked, Unlinked
  <2>4. file'[Place(d)][a] = latest[a] \/ file'[Place(d)][a] = journal.was[d][a]
    <3>1. CASE LinkStep
      BY <2>2, <3>1, LinkValue, <2>3, PlannedSources DEF Place
    <3>2. CASE UndoLink
      BY <2>2, <2>3, <3>2, UndoValue
    <3>3. CASE ~LinkStep /\ ~UndoLink
      BY <1>2, <2>2, <2>3, <3>3, PlannedFiles
    <3> QED
      BY <3>1, <3>2, <3>3
  <2> QED
    BY <2>1, <2>4 DEF Unlinked
<1> QED
  BY <1>1, <1>2

LEMMA TrackedTarget ==
  ASSUME Typed, Control, Quiet, SafeNow, HarmNow, Tracked, [Next]_vars, ~raced', Undoable',
         NEW a, (a \in Arts)'
  PROVE  (IF Rec(journal.id).src = Target
            THEN journal.was["target"][a] # 0 /\ journal.was["target"][a] \in {latest[a], journal.was["store"][a]}
            ELSE journal.was["target"][a] \in {0, latest[a]})'
<1>1. CASE PrepareBegins
  <2>1. a \in Present(From) /\ a \in Artifacts /\ file[From][a] # 0 /\ latest' = latest
    BY <1>1, PrepareBegun DEF Present
  <2>2. journal'.was["target"][a] = file[To][a] /\ journal'.was["store"][a] = file["store"][a]
    BY <1>1, <2>1, PrepareBegun
  <2>3. file[To][a] \in {0, file[From][a]}
    BY <1>1, <2>1, PrepareBegun DEF Preparable, Conflicting, Present
  <2>4. CASE From = To
    BY <1>1, <2>4, FromSafe, PrepareBegun, <2>1, <2>2 DEF Control, Renewing, HarmNow, Harmless
  <2>5. CASE From # To
    BY <1>1, <2>5, FromSafe, PrepareBegun, <2>1, <2>2, <2>3 DEF SafeIn
  <2> QED
    BY <2>4, <2>5
<1>2. CASE ~PrepareBegins
  BY <1>2, UndoableSteps, JournalReads, JournalKept, LatestKept DEF Tracked
<1> QED
  BY <1>1, <1>2

LEMMA TrackedRest ==
  ASSUME Typed, Control, Quiet, Tracked, Laid, [Next]_vars, ~raced', Undoable',
         NEW a \in Artifacts, (a \notin Arts)'
  PROVE  (file[Target][a] = 0)'
<1>1. CASE PrepareBegins
  BY <1>1, PrepareBegun DEF Preparable, Conflicting, Present
<1>2. CASE ~PrepareBegins
  <2>1. Undoable /\ Arts' = Arts /\ Target' = Target
    BY <1>2, UndoableSteps, JournalReads, JournalKept
  <2>2. a \notin Arts /\ file[Target][a] = 0 /\ Target \in Places /\ "target" \in Dests /\ Place("target") = Target
    BY <2>1, UndoableJournal, FilesAre DEF Tracked, Dests, Place
  <2>3. CASE LinkStep \/ UndoLink
    BY <2>1, <2>2, <2>3, EntryTouched
  <2>4. CASE ~LinkStep /\ ~UndoLink
    BY <1>2, <2>2, <2>4, PlannedFiles, <2>1
  <2> QED
    BY <2>3, <2>4
<1> QED
  BY <1>1, <1>2

LEMMA TrackedBackup ==
  ASSUME Typed, Control, Backed, Tracked, [Next]_vars, Undoable'
  PROVE  (backup = NoBackup \/ backup = journal.was)'
<1>0. NoBackup' = NoBackup
  BY DEF NoBackup, NoFiles, Artifacts
<1>1. CASE PrepareBegins
  BY <1>0, <1>1, PrepareBegun DEF Backed
<1>2. CASE ~PrepareBegins
  BY <1>2, UndoableSteps, JournalKept, BackupSteps, <1>0 DEF NothingToRecover, UndoBackups, Backup,
    WriteCommitted, Finalizes, Tracked
<1> QED
  BY <1>1, <1>2

LEMMA TrackedStep ==
  ASSUME Typed, Control, Quiet, SafeNow, HarmNow, Tracked, Backed, Laid, [Next]_vars, ~raced'
  PROVE  Tracked'
BY TrackedFiles, TrackedTarget, TrackedRest, TrackedBackup DEF Tracked

-----------------------------------------------------------------------------
(* How the section comes where it is.                                        *)

LEMMA HolderSteps ==
  ASSUME Typed, Control, [Next]_vars, sec'.at \notin {"free", "recover", "open"}
  PROVE  /\ sec.at # "free" /\ From' = From /\ To' = To /\ sec'.by = sec.by /\ sec'.job = sec.job
         /\ sec' = sec \/ Inside
<1>1. ASSUME NEW p \in Actors, Enter(p) PROVE sec'.at \in {"recover", "open"}
  BY <1>1 DEF Enter, NoSection
<1>2. Inside => sec.at # "free"
  BY DEF Inside, NothingToRecover, RecoveryUndoes, UndoClaimed, UndoLink, UndoBackups,
       UndoGeneration,
         UndoCurrent, UndoCommit, UndoJournal, PrepareBegins, Backup, LinkStep, WriteGeneration, WritePrepared,
         WriteCommit, WriteCurrent, WriteCommitted, PrepareFails, StartOpens, HookCleans, In
<1> QED
  BY <1>1, <1>2, SectionSteps, NoSectionTyped

LEMMA StageSteps ==
  ASSUME Typed, Control, [Next]_vars
  PROVE  /\ sec'.at = "check" => sec.at = "check" \/ NothingToRecover
         /\ sec'.at = "link" => sec.at = "link" \/ Backup
         /\ Laying' => Laying \/ PrepareBegins
         /\ sec'.at \in {"prepared", "marker", "current", "committed"} =>
               sec.at \in {"prepared", "marker", "current", "committed"} \/ WriteGeneration
         /\ sec'.at = "undo" => sec.at = "undo" \/ (sec'.k = Plans /\ sec'.bad = FALSE /\ ~Undoing)
         /\ sec'.at \in {"ungen", "uncurrent", "uncommit", "unjournal"} =>
               sec.at \in {"ungen", "uncurrent", "uncommit", "unjournal"} \/ (UndoBackups /\ ~sec.bad)
         /\ In("start", "activate")' => In("start", "activate") \/ StartOpens \/ WriteCommitted
<1>1. CASE sec' = sec
  BY <1>1 DEF Laying, In
<1>2. CASE sec' = NoSection
  BY <1>2, NoSectionTyped DEF Laying, In
<1>3. ASSUME NEW p \in Actors, Enter(p) PROVE sec'.at \in {"recover", "open"}
  BY <1>3 DEF Enter, NoSection
<1>4. CASE sec'.at \in {"recover", "open"}
  BY <1>4 DEF Laying, In
<1>5. CASE Inside /\ sec' # NoSection
  BY <1>5 DEF Inside, NothingToRecover, RecoveryUndoes, UndoClaimed, UndoLink, UndoBackups,
       UndoGeneration,
         UndoCurrent, UndoCommit, UndoJournal, PrepareBegins, Backup, LinkStep, WriteGeneration, WritePrepared,
         WriteCommit, WriteCurrent, WriteCommitted, PrepareFails, StartOpens, HookCleans, In, Goto, ToUndo, Return,
         Laying, Undoing, Typed, TypedActors, TypedSec
<1> QED
  BY <1>1, <1>2, <1>3, <1>4, <1>5, SectionSteps

LEMMA TornKept ==
  ASSUME [Next]_vars, ~torn'
  PROVE  ~torn
BY DEF Next, Edit, EditBegins, Retires, Commits, CommitRejected, StartAsked, Spawns, Enter,
     Recovery, RecoveryThrows, NothingToRecover, RecoveryAdopts, RecoveryUndoes, Undo,
     UndoClaimed, UndoRefused, UndoLink, UndoGeneration, UndoCurrent, UndoCommit, UndoJournal,
     Prepare, PrepareRefused, PrepareBegins, Backup, LinkStep, WriteGeneration, WritePrepared,
     WriteCommit, WriteCurrent, WriteCommitted, PrepareFails, Finalizes, StartSection,
     StartUnmanaged, StartRefused, StartOpens, StartActivates, Hook, HookIgnored,
     HookMismatched, HookCleans, HookConfirms, Environment, Writes, Deleted, Exits, WebDies,
     DaemonDies, history, vars, UndoBackups, records, files, Cut

(* How an undo ends.                                                         *)
LEMMA UndoingLeft ==
  ASSUME Typed, Control, [Next]_vars, Undoing, ~Undoing'
  PROVE  \/ UndoJournal
         \/ UndoBackups /\ sec.bad
         \/ /\ (WebDies /\ sec.job \notin {"none", "start"}) \/ (DaemonDies /\ sec.job = "start")
            /\ sec' = NoSection /\ torn' = (torn \/ Published)
<1>1. sec' # sec /\ sec.at # "free"
  BY DEF Undoing
<1>2. \A p \in Actors : ~Enter(p)
  BY <1>1, NoSectionTyped DEF Enter
<1>3. CASE Inside
  BY <1>3 DEF Inside, NothingToRecover, RecoveryUndoes, UndoClaimed, UndoLink, UndoBackups,
       UndoGeneration,
         UndoCurrent, UndoCommit, UndoJournal, PrepareBegins, Backup, LinkStep, WriteGeneration, WritePrepared,
         WriteCommit, WriteCurrent, WriteCommitted, PrepareFails, StartOpens, HookCleans, In, Goto,
         Undoing, Typed, TypedActors, TypedSec
<1>4. CASE ~Inside
  BY <1>1, <1>2, <1>4 DEF Next, Edit, EditBegins, Retires, Commits, CommitRejected, StartAsked,
       Spawns, Enter, Recovery, RecoveryThrows, RecoveryAdopts, Undo, UndoRefused, Prepare,
       PrepareRefused, Finalizes, StartSection, StartUnmanaged, StartRefused, StartActivates,
       Hook, HookIgnored, HookMismatched, HookConfirms, Environment, Writes, Deleted, Exits,
       WebDies, DaemonDies, history, vars, Inside, Undoing, Cut, In
<1> QED
  BY <1>3, <1>4

LEMMA UndoableUndo ==
  ASSUME Typed', Control', Undoing'
  PROVE  Undoable'
<1>1. CASE Open'
  BY <1>1 DEF Undoable
<1>2. CASE ~Open'
  BY <1>2 DEF Control, Staged, Shaped, Claiming, Owns, Claims, Undoable
<1> QED
  BY <1>1, <1>2

LEMMA UndoableLaying ==
  ASSUME Control', Laying'
  PROVE  Open' /\ Undoable'
BY DEF Laying, Control, Staged, Open, Undoable

(* A section that lays or unwinds the links is alone with the files.         *)
LEMMA LayingFiles ==
  ASSUME Typed, Control, Quiet, [Next]_vars, ~raced', Laying
  PROVE  UNCHANGED <<file, latest>> \/ LinkStep
<1>1. ~UndoLink /\ ~StartOpens /\ ~HookCleans
  BY DEF Laying, UndoLink, StartOpens, HookCleans, In
<1>2. \A a \in Artifacts : ~Writes(a)
  BY WritesAlone
<1>3. \A p \in Profiles, a \in Artifacts : ~Deleted(p, a)
  BY DeletedAlone DEF Laying
<1> QED
  BY <1>1, <1>2, <1>3, FileSteps

LEMMA UndoingFiles ==
  ASSUME Typed, Control, Quiet, [Next]_vars, ~raced', Undoing
  PROVE  UNCHANGED <<file, latest>> \/ UndoLink
<1>1. ~LinkStep /\ ~StartOpens /\ ~HookCleans
  BY DEF Undoing, LinkStep, StartOpens, HookCleans, In
<1>2. \A a \in Artifacts : ~Writes(a)
  BY WritesAlone
<1>3. \A p \in Profiles, a \in Artifacts : ~Deleted(p, a)
  BY DeletedAlone DEF Undoing
<1> QED
  BY <1>1, <1>2, <1>3, FileSteps

LEMMA PlanNumbers ==
  ASSUME NEW a \in Artifacts, NEW d \in Dests
  PROVE  /\ PlanAt(a, d) \in 1..Plans
         /\ \A k \in Nat : k = PlanAt(a, d) => PlanArtifact(k) = a /\ PlanDest(k) = d
BY HandoffAssumption DEF PlanAt, Plans, PlanArtifact, PlanDest, Dests, Artifacts

-----------------------------------------------------------------------------
(* The backups.                                                              *)

LEMMA BackedOpen ==
  ASSUME Typed, Control, Quiet, Tracked, Backed, Laid, Unlaid, [Next]_vars, ~raced', Open'
  PROVE  (backup = journal.was \/ \A a \in Arts, d \in Dests : Unlinked(a, d))'
<1>0. Undoable'
  BY DEF Undoable
<1>1. CASE PrepareBegins
  BY <1>1, PrepareBegun DEF Dests, Unlinked, Place, Present
<1>2. CASE ~PrepareBegins
  <2>1. Open /\ Undoable /\ journal'.was = journal.was /\ Arts' = Arts
    BY <1>2, OpenSteps, JournalKept, JournalReads DEF Undoable
  <2>2. \A d : Place(d)' = Place(d)
    BY <1>2, PlaceKept
  <2>3. Arts \subseteq Artifacts
    BY <2>1, UndoableJournal
  <2>4. CASE Backup
    BY <2>1, <2>4 DEF Backup
  <2>5. CASE UndoBackups
    BY <2>5, <2>1, <2>3, PlanNumbers, <2>2 DEF UndoBackups, Backed, Undoing, Unlaid, Unlinked, Dests
  <2>6. CASE UNCHANGED backup
    <3>1. CASE backup = journal.was
      BY <2>1, <2>6, <3>1
    <3>2. CASE \A a \in Arts, d \in Dests : Unlinked(a, d)
      <4>1. CASE LinkStep
        BY <2>1, <2>6, <4>1, LinkValue DEF Backed
      <4>2. CASE UndoLink
        BY <2>1, <2>2, <2>3, <3>2, <4>2, UndoValue DEF Unlinked, Dests
      <4>3. CASE ~LinkStep /\ ~UndoLink
        BY <1>0, <1>2, <2>1, <2>2, <2>3, <3>2, <4>3, PlannedFiles DEF Unlinked, Dests
      <4> QED
        BY <4>1, <4>2, <4>3
    <3> QED
      BY <2>1, <3>1, <3>2 DEF Backed
  <2>7. ~NothingToRecover /\ ~WriteCommitted /\ (Finalizes => UNCHANGED backup)
    BY <2>1 DEF WriteCommitted, Typed, TypedRecords, Open, NothingToRecover, Settled, Finalizes,
      MayUndo
  <2> QED
    BY <2>4, <2>5, <2>6, <2>7, BackupSteps
<1> QED
  BY <1>1, <1>2

LEMMA BackedStages ==
  ASSUME Typed, Control, Backed, [Next]_vars
  PROVE  /\ (sec.at = "check" => backup = NoBackup)'
         /\ (sec.at = "link" => backup = journal.was)'
<1>0. NoBackup' = NoBackup
  BY DEF NoBackup, NoFiles, Artifacts
<1>1. sec.at \in {"check", "link"} => UNCHANGED backup /\ (sec.at = "link" => journal'.was = journal.was)
  BY BackupSteps, JournalKept DEF NothingToRecover, UndoBackups, Backup, WriteCommitted, Finalizes,
    In, PrepareBegins
<1>2. NothingToRecover => backup' = NoBackup
  BY DEF NothingToRecover
<1>3. Backup => backup' = journal'.was
  BY DEF Backup, records
<1> QED
  BY <1>0, <1>1, <1>2, <1>3, StageSteps DEF Backed

(* In an unsettled journal's undo no link is found changed.                  *)
LEMMA BackedUndo ==
  ASSUME Typed, Control, Tracked, Backed, [Next]_vars, Open', Undoing'
  PROVE  sec'.bad = FALSE
<1>1. ~PrepareBegins
  BY PrepareBegun DEF Undoing, Typed, TypedActors, TypedSec
<1>2. Open
  BY <1>1, OpenSteps
<1>3. CASE sec.at \notin {"undo", "ungen", "uncurrent", "uncommit", "unjournal"}
  BY <1>3, StageSteps DEF UndoBackups, Undoing
<1>4. CASE Undoing
  <2>1. sec.bad = FALSE
    BY <1>2, <1>4 DEF Backed, Typed, TypedActors, TypedSec
  <2>2. CASE sec' = sec
    BY <2>1, <2>2
  <2>3. CASE UndoLink
    <3>1. Undoable /\ sec.k \in Nat
      BY <1>2 DEF Undoable, Typed, TypedActors, TypedSec
    <3>2. PlanPlace(sec.k) = Place(PlanDest(sec.k)) /\ PlanDest(sec.k) \in Dests
      BY <3>1, UndoableJournal, PlanEntry
    <3>3. sec'.bad = (\/ sec.bad
                      \/ /\ PlanArtifact(sec.k) \in Arts /\ journal.was[PlanDest(sec.k)][PlanArtifact(sec.k)] # 0
                         /\ backup[PlanDest(sec.k)][PlanArtifact(sec.k)] = 0
                         /\ file[PlanPlace(sec.k)][PlanArtifact(sec.k)] # journal.was[PlanDest(sec.k)][PlanArtifact(sec.k)])
      BY <2>3 DEF UndoLink, Arts, Typed, TypedActors, TypedSec
    <3>4. CASE backup = journal.was
      BY <2>1, <3>3, <3>4
    <3>5. CASE \A a \in Arts, d \in Dests : Unlinked(a, d)
      BY <2>1, <3>2, <3>3, <3>5 DEF Unlinked
    <3> QED
      BY <1>2, <3>4, <3>5 DEF Backed
  <2>4. CASE Inside /\ ~UndoLink /\ sec' # NoSection
    BY <1>4, <2>1, <2>4 DEF Undoing, Inside, NothingToRecover, RecoveryUndoes, UndoClaimed,
         UndoBackups, UndoGeneration,
         UndoCurrent, UndoCommit, UndoJournal, PrepareBegins, Backup, LinkStep, WriteGeneration, WritePrepared,
         WriteCommit, WriteCurrent, WriteCommitted, PrepareFails, StartOpens, HookCleans, In, Goto, ToUndo, Return,
         Typed, TypedActors, TypedSec
  <2>5. sec' # NoSection /\ \A p \in Actors : ~Enter(p)
    BY <1>4, NoSectionTyped DEF Undoing, Enter
  <2> QED
    BY <2>2, <2>3, <2>4, <2>5, SectionSteps
<1> QED
  BY <1>3, <1>4 DEF Undoing

LEMMA BackedStep ==
  ASSUME Typed, Control, Quiet, Tracked, Backed, Laid, Unlaid, [Next]_vars, ~raced'
  PROVE  Backed'
BY BackedOpen, BackedStages, BackedUndo DEF Backed

-----------------------------------------------------------------------------
(* The links that were laid stay laid.                                       *)

LEMMA LaidSources ==
  ASSUME Typed, Control, Quiet, SafeNow, HarmNow, Laid, [Next]_vars, ~raced', Laying', Undoable',
         NEW a \in Artifacts
  PROVE  IF (a \in Arts)'
            THEN file'[From'][a] # 0 /\ file'[From'][a] \in {latest'[a], journal'.was["store"][a]}
            ELSE file'[From'][a] = 0
<1>1. CASE PrepareBegins
  <2>1. UNCHANGED <<file, latest>> /\ From' = From /\ Arts' = Present(From) /\ From \in Profiles
        /\ From \in Places /\ sec.at = "check" /\ Usable
    BY <1>1, PrepareBegun, FilesAre DEF From, Typed, TypedActors, TypedSec
  <2>2. CASE a \notin Present(From)
    BY <2>1, <2>2 DEF Present
  <2>3. CASE a \in Present(From)
    <3>1. file[From][a] # 0 /\ journal'.was["store"][a] = file["store"][a]
      BY <1>1, <2>3, PrepareBegun DEF Present
    <3>2. CASE sec.job = "prepare"
      BY <2>1, <2>3, <3>1, <3>2, FromSafe DEF SafeIn
    <3>3. CASE sec.job = "start"
      BY <2>1, <3>3, FromSafe, <2>3, <3>1 DEF Control, Renewing, HarmNow, Harmless
    <3> QED
      BY <2>1, <3>2, <3>3, FromSafe
  <2> QED
    BY <2>2, <2>3
<1>2. CASE ~PrepareBegins
  BY <1>2, StageSteps, HolderSteps, PlaceKept, LatestKept, LayingFiles, LinkValue DEF Laying, Laid
<1> QED
  BY <1>1, <1>2

LEMMA LaidLinks ==
  ASSUME Typed, Control, Quiet, Laid, [Next]_vars, ~raced', Undoable', sec'.at = "link",
         NEW a, (a \in Arts)', NEW d \in Dests, PlanAt(a, d) < sec'.k
  PROVE  (file[Place(d)][a] = file[From][a])'
<1>0. ~PrepareBegins /\ ~torn = ~torn
  BY PrepareBegun DEF Typed, TypedActors, TypedSec
<1>1. Arts' = Arts /\ Place(d)' = Place(d) /\ From' = From /\ sec.at # "free"
  BY <1>0, PlaceKept, HolderSteps
<1>2. a \in Arts /\ a \in Artifacts /\ Target # "store" /\ Place(d) \in Places
  BY <1>0, <1>1, UndoableSteps, UndoableJournal, FilesAre DEF Place
<1>3. PlanAt(a, d) \in 1..Plans
  BY <1>2, PlanNumbers
<1>4. CASE Backup
  BY <1>4, <1>3 DEF Backup, Typed, TypedActors, TypedSec
<1>5. CASE sec.at = "link" /\ ~LinkStep
  <2>1. sec' = sec
    BY <1>5, HolderSteps DEF Inside, NothingToRecover, RecoveryUndoes, UndoClaimed, UndoLink, UndoBackups,
         UndoGeneration, UndoCurrent, UndoCommit, UndoJournal, PrepareBegins, Backup, WriteGeneration,
         WritePrepared, WriteCommit, WriteCurrent, WriteCommitted, PrepareFails, StartOpens, HookCleans,
         In, Goto, ToUndo, Typed, TypedActors, TypedSec
  <2>2. UNCHANGED file
    BY <1>5, LayingFiles DEF Laying
  <2> QED
    BY <1>1, <1>2, <1>5, <2>1, <2>2 DEF Laid
<1>6. CASE LinkStep
  <2>1. sec.k \in Nat /\ sec'.k = sec.k + 1 /\ sec.at = "link"
    BY <1>6 DEF LinkStep, Typed, TypedActors, TypedSec
  <2>2. file'[From][a] = file[From][a] /\ file'[Place(d)][a] \in {file[Place(d)][a], file[From][a]}
    BY <1>2, <1>6, LinkValue
  <2>3. CASE PlanAt(a, d) < sec.k
    BY <1>1, <1>2, <2>1, <2>2, <2>3 DEF Laid
  <2>4. CASE PlanAt(a, d) = sec.k
    BY <1>2, <2>1, <2>4, PlanNumbers, PlanEntry, <1>6, FilesAre, <1>1, <2>2 DEF LinkStep, Arts
  <2> QED
    BY <1>3, <2>1, <2>3, <2>4
<1> QED
  BY <1>4, <1>5, <1>6, StageSteps

LEMMA LaidWhole ==
  ASSUME Typed, Control, Quiet, Laid, [Next]_vars, ~raced', Undoable',
         sec'.at \in {"prepared", "marker", "current", "committed"}, NEW a, (a \in Arts)'
  PROVE  (Shared(a) /\ file["store"][a] = file[From][a])'
<1>0. ~PrepareBegins
  BY PrepareBegun DEF Typed, TypedActors, TypedSec
<1>1. Arts' = Arts /\ Target' = Target /\ From' = From /\ sec.at # "free"
  BY <1>0, JournalKept, JournalReads, HolderSteps
<1>2. a \in Arts /\ a \in Artifacts
  BY <1>0, <1>1, UndoableSteps, UndoableJournal
<1>3. CASE WriteGeneration
  BY <1>3, <1>2, PlanNumbers, HandoffAssumption, <1>1 DEF WriteGeneration, Planned, files, Typed,
    TypedActors, TypedSec, Plans, Laid, Laying, Place, Dests, Shared
<1>4. CASE sec.at \in {"prepared", "marker", "current", "committed"}
  BY <1>4, LayingFiles, <1>1, <1>2 DEF Laying, LinkStep, Laid, Shared
<1> QED
  BY <1>3, <1>4, StageSteps

(* Files that were shared stay shared outside the section that links them.   *)
LEMMA SharedKept ==
  ASSUME Typed, Control, Quiet, Laid, [Next]_vars, ~raced', Undoable', ~PrepareBegins, ~LinkStep,
         ~UndoLink, NEW a \in Arts, Shared(a)
  PROVE  Shared(a)'
<1>1. Undoable /\ Target' = Target /\ a \in Artifacts
  BY UndoableSteps, PlaceKept, UndoableJournal
<1>2. \A d \in Dests : file'[Place(d)][a] = file[Place(d)][a]
  BY <1>1, PlannedFiles
<1>3. file'["store"][a] = file["store"][a] /\ file'[Target][a] = file[Target][a]
  BY <1>2 DEF Place, Dests
<1> QED
  BY <1>1, <1>3 DEF Shared

LEMMA ArtsLater ==
  ASSUME Typed', Control', Undoable'
  PROVE  Arts' \subseteq Artifacts
<1>1. journal'.id \in 1..Len(made') /\ made' \in Seq(Generations)
  BY DEF Undoable, Open, Control, Counted, Typed, TypedRecords
<1>2. made'[journal'.id] \in Generations
  BY <1>1
<1> QED
  BY <1>2 DEF Arts, Rec, Generations

LEMMA OwnedCommitted ==
  ASSUME Typed', Control', NEW e \in Edits, Owns(e)'
  PROVE  journal'.phase = "committed" /\ journal'.id # 0
BY DEF Control, Claiming, Counted, Owns, Typed, TypedRecords

(* The edit that undoes its generation gives it up with the lock.            *)
LEMMA OwnerGone ==
  ASSUME Typed, Control, [Next]_vars, Undoing, ~Undoing', NEW e \in Edits, Owns(e)
  PROVE  ~Claims(e)' \/ journal'.phase = "rolled-back"
<1>1. sec.job = "undo" /\ sec.by \in Edits /\ act[sec.by].at = "busy" /\ e = sec.by
  BY OpenUnowned, UndoingOwned, OnlyOwner
<1>2. CASE UndoJournal
  BY <1>2 DEF UndoJournal, Typed, TypedRecords
<1>3. CASE UndoBackups /\ sec.bad
  BY <1>1, <1>3, LeavesSteps, LeavesClaims DEF Control
<1>4. CASE WebDies /\ sec' = NoSection
  BY <1>1, HandoffAssumption, <1>4, NoSectionTyped DEF Actors, WebDies, InDaemon, Claims, NoActor
<1> QED
  BY <1>1, <1>2, <1>3, <1>4, UndoingLeft

LEMMA LaidOwned ==
  ASSUME Typed, Control, Quiet, Laid, [Next]_vars, ~raced', Typed', Control', Undoable',
         NEW e \in Edits, Owns(e)', ~Undoing', NEW a, (a \in Arts)'
  PROVE  Shared(a)'
<1>0. journal'.phase = "committed"
  BY OwnedCommitted
<1>1. ~PrepareBegins
  BY <1>0 DEF PrepareBegins
<1>2. Arts' = Arts /\ Target' = Target /\ journal'.id = journal.id /\ a \in Arts
  BY <1>1, JournalKept, JournalReads
<1>3. CASE WriteCommitted
  BY <1>3, <1>2 DEF WriteCommitted, Laid, Shared
<1>4. CASE ~WriteCommitted
  BY <1>2, <1>4, ClaimSteps, <1>0, OwnerGone, OpenUnowned, <1>1, SharedKept DEF Owns, LinkStep,
    UndoLink, Undoing, Open, Control, Staged, Laid
<1> QED
  BY <1>3, <1>4

LEMMA LaidMarked ==
  ASSUME Typed, Control, Quiet, Backed, Laid, [Next]_vars, ~raced', ~torn', Open', Own', ~Undoing',
         NEW a, (a \in Arts)'
  PROVE  Shared(a)'
<1>0. Undoable'
  BY DEF Undoable
<1>1. ~PrepareBegins
  BY DEF PrepareBegins, Own, Control, Marked, Counted, Typed, TypedRecords
<1>2. Open /\ ~torn /\ Arts' = Arts /\ Target' = Target /\ journal'.id = journal.id /\ a \in Arts
  BY <1>1, OpenSteps, TornKept, JournalKept, JournalReads
<1>3. CASE WriteCommit
  BY <1>3, <1>2 DEF WriteCommit, files, Laid, Shared
<1>4. CASE ~WriteCommit
  <2>1. Own
    BY <1>2, <1>4, CommitSteps DEF Open, Control, Counted, Typed, TypedRecords, UndoCommit, Own
  <2>2. ~Undoing
    BY <1>2, <2>1, UndoingLeft DEF UndoJournal, Typed, TypedRecords, Open, Backed, Published
  <2>3. ~LinkStep /\ ~UndoLink
    BY <1>2, <2>1, <2>2 DEF Open, Control, Counted, Typed, TypedRecords, LinkStep, UndoLink,
      Undoing, Own, Staged, Marked
  <2>4. Shared(a)
    BY <1>2, <2>1, <2>2 DEF Laid
  <2> QED
    BY <1>0, <1>1, <1>2, <2>3, <2>4, SharedKept
<1> QED
  BY <1>3, <1>4

LEMMA LaidStep ==
  ASSUME Typed, Control, Quiet, SafeNow, HarmNow, Backed, Laid, [Next]_vars, ~raced'
  PROVE  Laid'
<1>0. Typed' /\ Control'
  BY TypedStep, ControlStep
<1>1. Laying' => Undoable'
  BY <1>0, UndoableLaying
<1>2. (\E e \in Edits : Owns(e)') => Undoable'
  BY <1>0, OwnedCommitted DEF Undoable
<1>3. (sec.at \in {"link", "prepared", "marker", "current", "committed"})' => Laying'
  BY DEF Laying
<1>4. Undoable' => Arts' \subseteq Artifacts
  BY <1>0, ArtsLater
<1>5. (Laying => /\ \A a \in Arts : file[From][a] # 0 /\ file[From][a] \in {latest[a], journal.was["store"][a]}
                 /\ \A a \in Artifacts \ Arts : file[From][a] = 0)'
  BY <1>1, <1>4, LaidSources DEF Artifacts
<1>6. (sec.at = "link" => \A a \in Arts, d \in Dests : PlanAt(a, d) < sec.k => file[Place(d)][a] = file[From][a])'
  BY <1>1, <1>3, LaidLinks DEF Dests, PlanAt
<1>7. (sec.at \in {"prepared", "marker", "current", "committed"} =>
          \A a \in Arts : Shared(a) /\ file["store"][a] = file[From][a])'
  BY <1>1, <1>3, LaidWhole
<1>8. ((\E e \in Edits : Owns(e)) /\ ~Undoing => \A a \in Arts : Shared(a))'
  BY <1>0, <1>2, LaidOwned
<1>9. (~torn /\ Open /\ Own /\ ~Undoing => \A a \in Arts : Shared(a))'
  BY LaidMarked
<1> QED
  BY <1>5, <1>6, <1>7, <1>8, <1>9 DEF Laid

-----------------------------------------------------------------------------
(* The links that were undone stay undone.                                   *)

LEMMA UnlaidLinks ==
  ASSUME Typed, Control, Quiet, Tracked, Laid, Unlaid, [Next]_vars, ~raced', Undoable', ~PrepareBegins,
         sec'.at = "undo", ~sec'.bad, NEW a, (a \in Arts)', NEW d \in Dests, sec'.k < PlanAt(a, d)
  PROVE  Unlinked(a, d)'
<1>1. Undoable /\ Arts' = Arts /\ Place(d)' = Place(d) /\ journal'.was = journal.was
  BY UndoableSteps, PlaceKept
<1>2. a \in Arts /\ a \in Artifacts /\ Target # "store"
  BY <1>1, UndoableJournal
<1>3. PlanAt(a, d) \in 1..Plans /\ Plans \in Nat /\ sec'.k \in Nat
  BY <1>2, PlanNumbers, HandoffAssumption, TypedStep DEF Plans, Typed, TypedActors, TypedSec
<1>4. CASE sec.at = "undo" /\ ~UndoLink
  <2>1. sec' = sec
    BY HolderSteps, NoSectionTyped, <1>4 DEF UndoBackups, Return, Goto, Typed, TypedActors,
      TypedSec, Inside, NothingToRecover, RecoveryUndoes, UndoClaimed, UndoGeneration, UndoCurrent,
      UndoCommit, UndoJournal, PrepareBegins, Backup, LinkStep, WriteGeneration, WritePrepared,
      WriteCommit, WriteCurrent, WriteCommitted, PrepareFails, StartOpens, HookCleans, In
  <2>2. UNCHANGED file
    BY <1>4, UndoingFiles DEF Undoing
  <2> QED
    BY <1>1, <1>2, <1>4, <2>1, <2>2 DEF Unlaid, Unlinked
<1>5. CASE UndoLink
  <2>1. sec.at = "undo" /\ sec.k \in Nat \ {0} /\ sec'.k = sec.k - 1 /\ (sec.bad => sec'.bad)
    BY <1>5 DEF UndoLink, Typed, TypedActors, TypedSec
  <2>2. CASE sec.k < PlanAt(a, d)
    BY <1>2, <2>1, <2>2, <1>1, <1>5, UndoValue DEF Unlaid, Unlinked
  <2>3. CASE sec.k = PlanAt(a, d)
    BY <1>2, <2>1, <2>3, PlanNumbers, PlanEntry, <1>1, <1>5, UndoValue DEF Unlinked
  <2> QED
    BY <1>3, <2>1, <2>2, <2>3
<1>6. CASE sec'.k = Plans
  BY <1>3, <1>6
<1> QED
  BY <1>4, <1>5, <1>6, StageSteps

LEMMA UnlaidWhole ==
  ASSUME Typed, Control, Quiet, Tracked, Unlaid, [Next]_vars, ~raced', Undoable', ~PrepareBegins,
         sec'.at \in {"ungen", "uncurrent", "uncommit", "unjournal"}, NEW a, (a \in Arts)', NEW d \in Dests
  PROVE  Unlinked(a, d)'
<1>1. Undoable /\ Arts' = Arts /\ Place(d)' = Place(d) /\ journal'.was = journal.was
  BY UndoableSteps, PlaceKept
<1>2. a \in Arts /\ a \in Artifacts
  BY <1>1, UndoableJournal
<1>3. PlanAt(a, d) \in 1..Plans
  BY <1>2, PlanNumbers
<1>4. CASE sec.at \in {"ungen", "uncurrent", "uncommit", "unjournal"}
  BY <1>4, UndoingFiles, <1>1, <1>2 DEF Undoing, UndoLink, Unlaid, Unlinked
<1>5. CASE UndoBackups /\ ~sec.bad
  BY <1>5, <1>1, <1>2, <1>3 DEF UndoBackups, Unlaid, Unlinked
<1> QED
  BY <1>4, <1>5, StageSteps

LEMMA UnlaidStep ==
  ASSUME Typed, Control, Quiet, Tracked, Laid, Unlaid, [Next]_vars, ~raced'
  PROVE  Unlaid'
<1>1. Undoing' => Undoable' /\ ~PrepareBegins
  BY PrepareBegun, TypedStep, ControlStep, UndoableUndo DEF Typed, TypedActors, TypedSec, Undoing
<1>2. (sec.at = "undo" /\ ~sec.bad => \A a \in Arts, d \in Dests : sec.k < PlanAt(a, d) => Unlinked(a, d))'
  BY <1>1, UnlaidLinks DEF Undoing, Dests, PlanAt
<1>3. (sec.at \in {"ungen", "uncurrent", "uncommit", "unjournal"} =>
          \A a \in Arts, d \in Dests : Unlinked(a, d))'
  BY <1>1, UnlaidWhole DEF Undoing, Dests
<1> QED
  BY <1>2, <1>3 DEF Unlaid

-----------------------------------------------------------------------------
(* The profiles that must be safe stay safe.                                 *)

LEMMA CurrentRec ==
  ASSUME Typed, Control
  PROVE  /\ current \in Nat /\ journal.prev \in Nat
         /\ \A g \in {current, journal.prev} : g # 0 =>
               /\ g \in 1..Len(made) /\ Rec(g).src \in Profiles /\ Rec(g).tgt \in Profiles
               /\ Rec(g).src \in Places /\ Rec(g).tgt \in Places /\ Rec(g).arts \subseteq Artifacts
<1>1. \A g \in {current, journal.prev} : g \in Nat /\ (g # 0 => g \in 1..Len(made))
  BY DEF Control, Marked, Counted, Typed, TypedRecords
<1> QED
  BY <1>1, RecTyped DEF Places

LEMMA SafeAgain ==
  ASSUME Typed', Control', Undoable', Tracked', NEW p \in Profiles, SafeIn(Before, p)'
  PROVE  SafeIn(file, p)'
<1> SUFFICES ASSUME NEW a \in Artifacts
             PROVE  file'[p][a] = latest'[a] \/ (file'[p][a] = 0 /\ file'["store"][a] = latest'[a])
  BY DEF SafeIn, Artifacts
<1>1. p # "store" /\ p \in Places /\ "store" \in Places
  BY HandoffAssumption DEF Places
<1>2. Before'[p][a] = latest'[a] \/ (Before'[p][a] = 0 /\ Before'["store"][a] = latest'[a])
  BY DEF SafeIn, Artifacts
<1>3. /\ Before'["store"][a] = IF a \in Arts' THEN journal'.was["store"][a] ELSE file'["store"][a]
      /\ Before'[p][a] = IF a \in Arts' /\ p = Target' THEN journal'.was["target"][a] ELSE file'[p][a]
  BY <1>1 DEF Before, Places, Artifacts
<1>4. a \in Arts' => file'["store"][a] \in {latest'[a], journal'.was["store"][a]}
                     /\ file'[Target'][a] \in {latest'[a], journal'.was["target"][a]}
  BY DEF Tracked, Unlinked, Place, Dests
<1> QED
  BY <1>2, <1>3, <1>4

LEMMA PreparedSafe ==
  ASSUME Typed, Control, SafeNow, Tracked, Laid, WriteCommitted, sec.job = "prepare"
  PROVE  SafeIn(file, To)
<1>1. sec.at = "committed" /\ Laying
  BY DEF WriteCommitted, Laying
<1>2. Undoable /\ Target = To /\ SafeIn(file, From) /\ From # To
  BY <1>1, FromSafe DEF Control, Staged, Undoable, Open
<1> SUFFICES ASSUME NEW a \in Artifacts
             PROVE  file[To][a] = latest[a] \/ (file[To][a] = 0 /\ file["store"][a] = latest[a])
  BY DEF SafeIn
<1>3. CASE a \in Arts
  BY <1>1, <1>2, <1>3, PlannedSources DEF Laid, Shared
<1>4. CASE a \notin Arts
  BY <1>1, <1>2, <1>4, FilesAre DEF Laid, Tracked, SafeIn
<1> QED
  BY <1>3, <1>4

(* An owner that links or unlinks has not yet, or no longer, a commit ahead. *)
LEMMA LinkingUnowned ==
  ASSUME Typed, Control, LinkStep \/ UndoLink, NEW p, (Homes(p) \/ Goals(p))'
  PROVE  (Homes(p) \/ Others(p))'
<1>1. ASSUME NEW e \in Edits, act'[e].at = "commit", Owns(e)' PROVE FALSE
  <2>1. UNCHANGED <<act, journal>> /\ Owns(e)
    BY <1>1 DEF LinkStep, UndoLink, records, Owns, Claims
  <2>2. CASE LinkStep
    BY <2>1, <2>2, OpenUnowned DEF LinkStep, Control, Staged, Open
  <2>3. CASE UndoLink
    BY <1>1, <2>1, <2>3, UndoingOwned DEF UndoLink, Undoing
  <2> QED
    BY <2>2, <2>3
<1> QED
  BY <1>1 DEF Goals, Others

LEMMA SafeNowFiles ==
  ASSUME Typed, Control, Quiet, SafeNow, [Next]_vars, ~raced', ~LinkStep, ~UndoLink,
         NEW p \in Profiles, Homes(p) \/ Goals(p)
  PROVE  SafeIn(file, p)'
<1>0. SafeIn(file, p) /\ p \in Places /\ "store" \in Places /\ p # "store"
  BY FilesAre DEF SafeNow
<1>1. CASE UNCHANGED <<file, latest>>
  BY <1>0, <1>1 DEF SafeIn, Artifacts
<1>2. CASE StartOpens
  BY <1>2, HolderTyped, FilesAre, <1>0 DEF Control, StartOpens, In, history, Materialised, SafeIn,
    Artifacts
<1>3. CASE HookCleans
  BY <1>3, CurrentRec, FilesAre, <1>0 DEF HookCleans, Activated, history, SameFile, SafeIn,
    Artifacts
<1>4. ASSUME NEW b \in Artifacts, Writes(b) PROVE SafeIn(file, p)'
  BY <1>4, WritesAlone, <1>0, FilesAre DEF Writes, SafeIn, Artifacts
<1>5. ASSUME NEW q \in Profiles, NEW b \in Artifacts, Deleted(q, b) PROVE SafeIn(file, p)'
  BY <1>5, FilesAre, <1>0 DEF Deleted, history, SafeIn, Artifacts
<1> QED
  BY <1>1, <1>2, <1>3, <1>4, <1>5, FileSteps

LEMMA SafeNowStep ==
  ASSUME Typed, Control, Quiet, SafeNow, SafeThen, HarmNow, Tracked, Backed, Laid, [Next]_vars, ~raced'
  PROVE  SafeNow'
<1> SUFFICES ASSUME NEW p \in Profiles, (Homes(p) \/ Goals(p))' PROVE SafeIn(file, p)'
  BY DEF SafeNow
<1>1. CASE LinkStep \/ UndoLink
  BY TypedStep, ControlStep, TrackedStep, SafeThenStep, <1>1, EntryTouched, LinkingUnowned,
    SafeAgain, ZenonT(60) DEF LinkStep, UndoLink, records, Typed, TypedActors, TypedSec, Undoable, Open, Owns,
    Claims, SafeThen
<1>2. CASE ~LinkStep /\ ~UndoLink /\ ~(WriteCommitted /\ sec.job = "prepare" /\ p = To)
  BY <1>2, GoalSteps, SafeNowFiles
<1>3. CASE WriteCommitted /\ sec.job = "prepare" /\ p = To
  BY <1>3, PreparedSafe DEF WriteCommitted, history, SafeIn, Artifacts
<1> QED
  BY <1>1, <1>2, <1>3

-----------------------------------------------------------------------------
(* A start for the generation in force stays harmless.                       *)

(* Which records make the generation in force usable again.                  *)
LEMMA UsableSteps ==
  ASSUME Typed, Control, [Next]_vars, Usable'
  PROVE  \/ Usable /\ UNCHANGED <<current, made>>
         \/ RecoveryAdopts /\ current' = current
         \/ WriteCommitted \/ UndoJournal
<1>0. journal.phase \in Phases
  BY DEF Typed, TypedRecords
<1>1. CASE RecoveryAdopts /\ current' # current
  BY <1>0, <1>1 DEF RecoveryAdopts, Settled, Usable, Phases
<1>2. CASE PrepareBegins
  BY <1>2 DEF PrepareBegins, Usable
<1>3. CASE WritePrepared
  BY <1>3 DEF WritePrepared, Linked, Typed, TypedRecords, Usable
<1>4. CASE WriteCommit \/ WriteCurrent
  BY <1>4 DEF WriteCommit, WriteCurrent, Control, Staged, Usable
<1>5. CASE WriteGeneration
  BY <1>5 DEF WriteGeneration, Control, Staged, Usable
<1>6. CASE UndoGeneration \/ UndoCurrent \/ UndoCommit
  BY <1>6 DEF UndoGeneration, UndoCurrent, UndoCommit, Control, Staged, Undoing, Open, Usable
<1>7. CASE UNCHANGED <<journal, made, current, commit, immut>>
  BY <1>7 DEF Usable, Own
<1> QED
  BY <1>1, <1>2, <1>3, <1>4, <1>5, <1>6, <1>7, JournalSteps, CurrentSteps, CommitSteps, ImmutSteps

LEMMA HarmFrom ==
  ASSUME NEW g, g = current', Harmless(file, g), UNCHANGED <<file, latest>>, g # 0 => Rec(g)' = Rec(g)
  PROVE  Harmless(file, current)'
BY DEF Harmless, Artifacts

(* A generation whose links are all there is harmless.                       *)
LEMMA SharedHarmless ==
  ASSUME Typed, Control, Undoable, Tracked, \A a \in Arts : Shared(a)
  PROVE  Harmless(file, journal.id) /\ journal.id # 0
<1>1. journal.id # 0
  BY UndoableJournal
<1>2. \A a \in Artifacts : a \in Arts => file[Target][a] = file["store"][a]
  BY DEF Shared
<1>3. \A a \in Artifacts : a \notin Arts => file[Target][a] = 0
  BY DEF Tracked
<1> QED
  BY <1>1, <1>2, <1>3 DEF Harmless, Target

LEMMA HarmRecords ==
  ASSUME Typed, Control, HarmNow, HarmThen, Tracked, Laid, Unlaid, [Next]_vars,
         UNCHANGED <<file, latest>>, Usable'
  PROVE  Harmless(file, current)'
<1>1. CASE Usable /\ UNCHANGED <<current, made>>
  BY <1>1, HarmFrom DEF HarmNow, Rec
<1>2. CASE RecoveryAdopts /\ current' = current
  BY <1>2, SharedHarmless, HarmFrom DEF RecoveryAdopts, Settled, Open, Undoable, Typed,
    TypedRecords, Phases, NoJournal, RecoveryFails, CommitUnusable, LinksWhole, Shared, Arts, Rec
<1>3. CASE WriteCommitted
  BY <1>3, SharedHarmless, HarmFrom DEF WriteCommitted, Control, Staged, Laid, Undoable, Open, Rec
<1>4. CASE UndoJournal
  <2>1. sec.at = "unjournal" /\ UNCHANGED <<current, made>>
    BY <1>4 DEF UndoJournal
  <2>2. current = journal.prev /\ Undoable /\ \A a \in Arts, d \in Dests : Unlinked(a, d)
    BY <2>1, UndoingOwned DEF Control, Staged, Unlaid, Undoing
  <2>3. \A p \in Places, a \in Artifacts : Before[p][a] = file[p][a]
    BY <2>2, UndoableJournal DEF Before, Unlinked, Place, Dests
  <2>4. Harmless(file, current)
    <3>1. Harmless(Before, current)
      BY <2>2 DEF HarmThen
    <3>2. "store" \in Places /\ (current # 0 => Rec(current).tgt \in Places)
      BY CurrentRec, FilesAre
    <3> QED
      BY <2>3, <3>1, <3>2 DEF Harmless
  <2> QED
    BY <2>1, <2>4, HarmFrom DEF Rec
<1> QED
  BY <1>1, <1>2, <1>3, <1>4, UsableSteps

(* An edit's generation goes to another profile than it comes from.          *)
LEMMA UndoneMoves ==
  ASSUME Typed, Control, Undoing, ~Open
  PROVE  Rec(journal.id).src # Target
<1>1. sec.job = "undo" /\ sec.by \in Edits /\ Owns(sec.by) /\ act[sec.by].at = "busy"
  BY UndoingOwned
<1>2. Moving(sec.by)
  BY <1>1 DEF Moving
<1> QED
  BY <1>1, <1>2 DEF Owns, Control, Claiming, Roles, Target

LEMMA HarmUndo ==
  ASSUME Typed, Control, Undoable', Tracked', UndoLink, Usable
  PROVE  Harmless(file, current)'
<1>1. UNCHANGED <<journal, made, current, commit, immut>> /\ Undoing
  BY DEF UndoLink, records, Undoing
<1>2. ~Open
  BY DEF Usable, Open
<1>3. current = journal.id /\ journal.id # 0
  BY <1>1, <1>2 DEF Control, Staged, Usable, Marked
<1>4. (Rec(journal.id).src # Target)'
  BY <1>1, <1>2, UndoneMoves DEF Target, Rec
<1>5. \A a \in Artifacts : file'[Target'][a] \in {0, latest'[a]}
  <2> SUFFICES ASSUME NEW a \in Artifacts PROVE file'[Target'][a] \in {0, latest'[a]}
    OBVIOUS
  <2>1. CASE a \notin Arts'
    BY <2>1 DEF Tracked, Artifacts
  <2>2. CASE a \in Arts'
    BY <1>4, <2>2 DEF Tracked, Unlinked, Dests, Place
  <2> QED
    BY <2>1, <2>2
<1> QED
  BY <1>1, <1>3, <1>5 DEF Harmless, Target, Artifacts

LEMMA HarmFiles ==
  ASSUME Typed, Control, Quiet, [Next]_vars, ~raced', ~LinkStep, ~UndoLink, Harmless(file, current),
         UNCHANGED <<current, made>>
  PROVE  Harmless(file, current)'
<1> DEFINE tgt == Rec(current).tgt
<1>0. /\ "store" \in Places
      /\ current # 0 => Rec(current).src \in Places /\ Rec(current).src # "store" /\ tgt \in Places /\ tgt # "store"
  BY CurrentRec, FilesAre
<1>1. CASE UNCHANGED <<file, latest>>
  BY <1>1 DEF Harmless, Artifacts, Rec
<1>2. CASE StartOpens
  BY <1>2, HolderTyped, FilesAre, <1>0 DEF Control, StartOpens, In, history, Unmanaged, Elsewhere,
    Materialised, Harmless, Artifacts, Rec
<1>3. CASE HookCleans
  BY <1>3, <1>0, FilesAre DEF HookCleans, Activated, history, Moved, Harmless, Artifacts, Rec
<1>4. ASSUME NEW b \in Artifacts, Writes(b) PROVE Harmless(file, current)'
  <2>1. running = manifest /\ manifest \in Profiles /\ (current = 0 \/ tgt = manifest)
    BY <1>4, WritesAlone DEF Quiet
  <2>2. file' = [file EXCEPT ![manifest][b] = latest[b] + 1] /\ latest' = [latest EXCEPT ![b] = @ + 1]
    BY <1>4, <2>1 DEF Writes
  <2>3. \A a \in Artifacts : file'["store"][a] = file["store"][a]
    BY <1>0, <2>1, <2>2, FilesAre
  <2>4. current # 0 => \A a \in Artifacts : IF a = b THEN file'[tgt][a] = latest'[a]
              ELSE file'[tgt][a] = file[tgt][a] /\ latest'[a] = latest[a]
    BY <1>0, <2>1, <2>2, FilesAre
  <2> QED
    BY <2>3, <2>4 DEF Harmless, Artifacts, Rec
<1>5. ASSUME NEW q \in Profiles, NEW b \in Artifacts, Deleted(q, b) PROVE Harmless(file, current)'
  BY <1>5, FilesAre, <1>0 DEF Deleted, history, Harmless, Artifacts, Rec
<1> QED
  BY <1>1, <1>2, <1>3, <1>4, <1>5, FileSteps

LEMMA HarmNowStep ==
  ASSUME Typed, Control, Quiet, SafeNow, HarmNow, HarmThen, Tracked, Backed, Laid, Unlaid,
         [Next]_vars, ~raced'
  PROVE  HarmNow'
<1> SUFFICES ASSUME Usable' PROVE Harmless(file, current)'
  BY DEF HarmNow
<1>1. CASE UNCHANGED <<file, latest>>
  BY <1>1, HarmRecords
<1>2. CASE LinkStep
  BY <1>2 DEF LinkStep, records, Control, Staged, Usable
<1>3. CASE UndoLink
  BY <1>3, TrackedStep, TypedStep, ControlStep, UndoableUndo, HarmUndo DEF UndoLink, records,
    Usable, Own, Undoing, Typed, TypedActors, TypedSec
<1>4. CASE ~LinkStep /\ ~UndoLink /\ ~UNCHANGED <<file, latest>>
  BY <1>4, FileSteps, HarmFiles DEF StartOpens, HookCleans, Writes, Deleted, records, Usable, Own,
    HarmNow
<1> QED
  BY <1>1, <1>2, <1>3, <1>4

-----------------------------------------------------------------------------
(* The files of the generation in force stay in the store.                   *)

LEMMA StoreSteps ==
  ASSUME Typed, Control, [Next]_vars, ~LinkStep, ~UndoLink, NEW a \in Artifacts
  PROVE  file'["store"][a] = file["store"][a]
<1>0. "store" \in Places /\ \A p \in Profiles : p \in Places /\ p # "store"
  BY FilesAre
<1>1. CASE UNCHANGED <<file, latest>>
  BY <1>1
<1>2. CASE StartOpens
  BY <1>2, HolderTyped, <1>0, FilesAre DEF Control, StartOpens, In
<1>3. CASE HookCleans
  BY <1>3, CurrentRec, <1>0, FilesAre DEF HookCleans, Activated
<1>4. ASSUME NEW b \in Artifacts, Writes(b) PROVE file'["store"][a] = file["store"][a]
  BY <1>4, <1>0, FilesAre DEF Writes, Typed, TypedActors, TypedRest
<1>5. ASSUME NEW q \in Profiles, NEW b \in Artifacts, Deleted(q, b) PROVE file'["store"][a] = file["store"][a]
  BY <1>0, <1>5, FilesAre DEF Deleted
<1> QED
  BY <1>1, <1>2, <1>3, <1>4, <1>5, FileSteps

LEMMA StoredThen ==
  ASSUME Typed, Control, Quiet, Laid, Stored, [Next]_vars, ~raced', ~torn', Undoable', journal'.prev # 0,
         NEW a, a \in Rec(journal.prev)'.arts
  PROVE  Before'["store"][a] # 0
<1>1. ~torn /\ "store" \in Places
  BY TornKept, FilesAre
<1>2. CASE PrepareBegins
  BY <1>2, PrepareBegun, CurrentRec, <1>1, BeforeBegins DEF Undoing, Rec, Stored
<1>3. CASE ~PrepareBegins
  BY <1>3, UndoableSteps, JournalKept, <1>1, CurrentRec, BeforeSteps DEF Rec, Stored
<1> QED
  BY <1>2, <1>3

(* An undo that ends leaves the files of the generation it goes back to.     *)
LEMMA StoredUndone ==
  ASSUME Typed, Control, Tracked, Backed, Unlaid, Stored, [Next]_vars, ~torn', Undoing, ~Undoing',
         current' # 0, NEW a, a \in Rec(current)'.arts
  PROVE  file'["store"][a] # 0
<1>1. ~torn /\ Undoable /\ "store" \in Places
  BY TornKept, UndoingOwned, FilesAre
<1>2. UNCHANGED <<file, current, made>> /\ current = journal.prev /\ a \in Rec(journal.prev).arts
      /\ (UndoJournal \/ (Open /\ ~UndoJournal))
  <2>1. UNCHANGED <<file, current, made>>
    BY UndoingLeft DEF UndoJournal, UndoBackups, WebDies, DaemonDies, files, records
  <2>2. CASE UndoJournal
    BY <2>1, <2>2 DEF UndoJournal, Control, Staged, Rec
  <2>3. CASE UndoBackups /\ sec.bad
    BY <2>3 DEF Backed, Published, Control, Staged, UndoBackups
  <2>4. CASE torn' = (torn \/ Published)
    BY <2>4, <2>1 DEF Published, Control, Staged, Own, Marked, Rec
  <2> QED
    BY <2>2, <2>3, <2>4, UndoingLeft
<1>3. a \in Artifacts /\ Before["store"][a] # 0
  BY <1>1, <1>2, CurrentRec DEF Stored
<1>4. a \notin Arts => Before["store"][a] = file["store"][a]
  BY <1>1, <1>3 DEF Before
<1>5. a \in Arts => Before["store"][a] = journal.was["store"][a]
  BY <1>1, <1>3 DEF Before
<1>6. a \in Arts => file["store"][a] = latest[a] \/ file["store"][a] = journal.was["store"][a]
  BY <1>1 DEF Tracked, Unlinked, Place, Dests
<1> QED
  BY <1>2, <1>3, <1>4, <1>5, <1>6, FilesAre

LEMMA StoredNow ==
  ASSUME Typed, Control, Laid, Stored, [Next]_vars, ~torn', ~Undoing, ~Undoing',
         current' # 0, NEW a, a \in Rec(current)'.arts
  PROVE  file'["store"][a] # 0
<1>1. ~torn
  BY TornKept
<1>2. CASE WriteCurrent
  BY <1>2 DEF WriteCurrent, files, Laid, Shared, Arts, Rec
<1>3. CASE RecoveryAdopts /\ current' # current
  BY <1>3 DEF RecoveryAdopts, files, Settled, NoJournal, RecoveryFails, CommitUnusable, LinksWhole,
    Rec
<1>4. CASE UNCHANGED current
  <2>1. current \in 1..Len(made) /\ Rec(current).arts \subseteq Artifacts
    BY <1>4, CurrentRec
  <2>2. Rec(current)' = Rec(current)
    <3>1. CASE PrepareBegins
      BY <1>4, <2>1, <3>1, PrepareBegun DEF Rec
    <3>2. CASE ~PrepareBegins
      BY <1>4, <3>2, JournalKept DEF Rec
    <3> QED
      BY <3>1, <3>2
  <2>3. file["store"][a] # 0 /\ a \in Artifacts
    BY <1>1, <1>4, <2>1, <2>2 DEF Stored
  <2>4. ~UndoLink
    BY DEF UndoLink, Undoing
  <2>5. CASE LinkStep
    BY FilesAre, <2>3, <2>5, EntryTouched, LinkValue
  <2>6. CASE ~LinkStep
    BY <2>3, <2>4, <2>6, StoreSteps
  <2> QED
    BY <2>5, <2>6
<1>5. ~UndoCurrent
  BY DEF UndoCurrent, Undoing
<1> QED
  BY <1>2, <1>3, <1>4, <1>5, CurrentSteps

LEMMA StoredStep ==
  ASSUME Typed, Control, Quiet, Tracked, Backed, Laid, Unlaid, Stored, [Next]_vars, ~raced'
  PROVE  Stored'
<1>1. (~torn /\ ~Undoing /\ current # 0 => \A a \in Rec(current).arts : file["store"][a] # 0)'
  BY StoredUndone, StoredNow
<1>2. (~torn /\ Undoable /\ journal.prev # 0 => \A a \in Rec(journal.prev).arts : Before["store"][a] # 0)'
  BY StoredThen
<1> QED
  BY <1>1, <1>2 DEF Stored

-----------------------------------------------------------------------------
(* What is started has its transcript.                                       *)

LEMMA SpawnSteps ==
  ASSUME Typed, Control, [Next]_vars, NEW p \in Actors, act'[p].at = "spawn"
  PROVE  act[p].at = "spawn" \/ StartUnmanaged \/ StartActivates
<1>0. act \in [Actors -> Actor]
  BY DEF Typed, TypedActors, TypedAct
<1>1. CASE UNCHANGED act
  BY <1>1
<1>2. CASE Leaves /\ sec.at # "free"
  BY <1>0, <1>2 DEF Leaves
<1>3. CASE WriteCommitted /\ sec.job = "prepare"
  BY <1>3, PreparesStep, <1>0 DEF Control, Granted, Actor
<1>4. ASSUME NEW x \in Actors, Enter(x) PROVE act[p].at = "spawn"
  BY <1>0, <1>4 DEF Enter, Actor
<1>5. ASSUME NEW e \in Edits, Retires(e) \/ Commits(e) \/ CommitRejected(e) \/ \E q \in Profiles : EditBegins(e, q)
      PROVE  act[p].at = "spawn"
  BY <1>0, <1>5 DEF Retires, Commits, CommitRejected, EditBegins, Actor
<1>6. CASE StartAsked
  BY <1>0, <1>6, NoActorTyped DEF StartAsked, Actor
<1>7. ASSUME NEW x \in Actors, Spawns(x) PROVE act[p].at = "spawn"
  BY <1>0, <1>7, NoActorTyped DEF Spawns, Actor
<1>8. CASE WebDies \/ DaemonDies
  BY <1>0, <1>8, NoActorTyped DEF WebDies, DaemonDies
<1> QED
  BY <1>1, <1>2, <1>3, <1>4, <1>5, <1>6, <1>7, <1>8, ActSteps DEF Outside

LEMMA RunningSteps ==
  ASSUME [Next]_vars
  PROVE  running' \in {running, "none"} \/ (\E p \in Actors : Spawns(p))
BY DEF Next, Edit, EditBegins, Retires, Commits, CommitRejected, StartAsked, Enter,
     Recovery, RecoveryThrows, NothingToRecover, RecoveryAdopts, RecoveryUndoes, Undo,
     UndoClaimed, UndoRefused, UndoLink, UndoBackups, UndoGeneration, UndoCurrent,
     UndoCommit, UndoJournal, Prepare, PrepareRefused, PrepareBegins, Backup, LinkStep,
     WriteGeneration, WritePrepared, WriteCommit, WriteCurrent, WriteCommitted, PrepareFails,
     Finalizes, StartSection, StartUnmanaged, StartRefused, StartOpens, StartActivates, Hook,
     HookIgnored, HookMismatched, HookCleans, HookConfirms, Environment, Deleted, Exits,
     WebDies, DaemonDies, history, vars, files, records, Writes

LEMMA UpSteps ==
  ASSUME Typed, Control, [Next]_vars, Up'
  PROVE  Up \/ StartUnmanaged \/ StartActivates
BY SpawnSteps, RunningSteps DEF Up, Spawns

LEMMA FirstArtifact == 1 \in Artifacts
BY HandoffAssumption DEF Artifacts

LEMMA TranscriptOpens ==
  ASSUME Typed, Control, StartOpens
  PROVE  /\ current # 0 /\ Rec(current).tgt = To /\ ~Open /\ To \in Places
         /\ file'[To][1] # 0 /\ UNCHANGED <<act, journal, current, made, running, manifest>>
         /\ sec'.by = sec.by /\ sec'.job = sec.job
         /\ \A p \in Places \ {To}, a \in Artifacts : file'[p][a] = file[p][a]
<1>1. In("start", "open") /\ current # 0 /\ Rec(current).tgt = To /\ ~Lost /\ UNCHANGED <<act, journal, current, made, running, manifest>>
      /\ file' = [file EXCEPT ![To] = [a \in Artifacts |-> Materialised(a)]]
  BY DEF StartOpens, Unmanaged, Elsewhere, Mismatched, records
<1>2. To \in Places /\ ~Open
  BY <1>1, HolderTyped, UsableAgain DEF Control, In
<1>3. 1 \in Rec(current).arts
  BY <1>1, CurrentRec DEF Control, Counted, Rec
<1>4. file["store"][1] # 0 \/ file[To][1] # 0
  BY <1>1, <1>3 DEF Lost
<1>5. file'[To][1] = IF file[To][1] = 0 THEN file["store"][1] ELSE file[To][1]
  BY <1>1, <1>2, <1>3, FilesAre, FirstArtifact DEF Materialised
<1>6. sec'.by = sec.by /\ sec'.job = sec.job
  BY DEF StartOpens, Typed, TypedActors, TypedSec
<1>7. \A p \in Places \ {To}, a \in Artifacts : file'[p][a] = file[p][a]
  BY <1>1, <1>2, FilesAre
<1> QED
  BY <1>1, <1>2, <1>4, <1>5, <1>6, <1>7

(* The refreshing section of a start leaves its transcript.                  *)
LEMMA TranscriptKept ==
  ASSUME Typed, Control, Quiet, SafeNow, Tracked, Laid, [Next]_vars, ~raced',
         sec.job = "start", ~StartOpens, To \in Places, file[To][1] # 0,
         sec.at \notin {"undo"} \/ Catching
  PROVE  file'[To][1] # 0
<1>0. sec.at # "free" /\ From = To
  BY NoSectionTyped DEF Control, Shaped, Held, Roles, From, To
<1>1. CASE UNCHANGED <<file, latest>>
  BY <1>1
<1>2. CASE LinkStep
  BY <1>0, <1>2, LinkValue, FirstArtifact
<1>3. CASE UndoLink
  <2>1. Catching /\ Undoable
    BY <1>3, EntryTouched DEF UndoLink
  <2>2. Target = To /\ Rec(journal.id).src = Target
    BY <1>0, <2>1 DEF Control, Staged
  <2>3. journal.was["target"][1] # 0
    BY <2>1, <2>2, UndoableJournal DEF Tracked
  <2>4. file'[To][1] \in {file[To][1], journal.was["target"][1]}
    BY <1>3, <2>2, UndoValue, FirstArtifact DEF Place, Dests
  <2> QED
    BY <2>3, <2>4
<1>4. ~HookCleans
  BY DEF HookCleans, In
<1>5. ASSUME NEW b \in Artifacts, Writes(b) PROVE file'[To][1] # 0
  BY <1>5, FilesAre, FirstArtifact DEF Writes
<1>6. ASSUME NEW q \in Profiles, NEW b \in Artifacts, Deleted(q, b) PROVE FALSE
  BY <1>0, <1>6, DeletedAlone
<1> QED
  BY <1>1, <1>2, <1>3, <1>4, <1>5, <1>6, FileSteps

LEMMA StartedActivates ==
  ASSUME Typed, Control, Quiet, SafeNow, Tracked, Laid, Started, [Next]_vars, ~raced',
         In("start", "activate")', ~Unmanaged'
  PROVE  (Rec(current).tgt = To /\ file[To][1] # 0)'
<1>1. To' = To /\ sec.at # "free" /\ sec.job = "start" /\ To \in Places
  BY HolderSteps, HolderTyped DEF In, Control
<1>2. CASE StartOpens
  BY <1>1, <1>2, TranscriptOpens DEF Rec
<1>3. CASE WriteCommitted
  BY <1>3, UndoableJournal, <1>1 DEF WriteCommitted, Control, Staged, Laying, Undoable, Open, Laid,
    Target, Rec, Shared
<1>4. CASE In("start", "activate") /\ ~StartOpens
  BY <1>4, CurrentSteps, JournalSteps, <1>1, TranscriptKept DEF In, RecoveryAdopts, UndoCurrent,
    WriteCurrent, PrepareBegins, WritePrepared, WriteCommitted, UndoJournal, Started, Unmanaged, Rec
<1> QED
  BY <1>2, <1>3, <1>4, StageSteps

Renews == sec.job = "start" /\ (sec.why = "refresh" \/ Catching)

LEMMA RenewsSteps ==
  ASSUME Typed, Control, [Next]_vars, Renews'
  PROVE  To' = To /\ sec.at # "free" /\ sec.job = "start" /\ (StartOpens \/ Renews)
<1>1. sec' # NoSection /\ sec'.at # "free" /\ sec'.job = "start"
  BY ControlStep, NoSectionTyped DEF Renews, Control, Shaped
<1>2. CASE sec' = sec
  BY <1>1, <1>2, SectionSteps, NoSectionTyped DEF Renews, Catching, Undoing, Enter
<1>3. ASSUME NEW p \in Actors, Enter(p) PROVE FALSE
  BY <1>3, NoSectionTyped DEF Enter, NoSection, Renews, Catching
<1>4. CASE Inside /\ sec'.by = sec.by /\ sec'.job = sec.job /\ To' = To
  <2>1. sec.at # "free" /\ sec.job = "start"
    BY <1>1, <1>4, NoSectionTyped DEF Control, Shaped
  <2>2. CASE PrepareFails
    BY <2>2, <1>4, <2>1 DEF PrepareFails, Laying, Control, Shaped, Renews
  <2>3. CASE RecoveryUndoes \/ UndoClaimed
    BY <2>1, <2>3 DEF RecoveryUndoes, UndoClaimed, ToUndo, In, Renews, Catching, Typed, TypedActors, TypedSec
  <2>4. CASE ~PrepareFails /\ ~RecoveryUndoes /\ ~UndoClaimed /\ ~StartOpens
    BY <1>1, <1>4, <2>4, <2>1 DEF Inside, NothingToRecover, UndoLink, UndoBackups, UndoGeneration,
      UndoCurrent, UndoCommit, UndoJournal, PrepareBegins, Backup, LinkStep, WriteGeneration,
      WritePrepared, WriteCommit, WriteCurrent, WriteCommitted, HookCleans, Goto, Return, Typed,
      TypedActors, TypedSec, Control, Shaped, Renews, Catching
  <2> QED
    BY <1>4, <2>1, <2>2, <2>3, <2>4
<1> QED
  BY <1>1, <1>2, <1>3, <1>4, SectionSteps

LEMMA StartedRenews ==
  ASSUME Typed, Control, Quiet, SafeNow, Tracked, Laid, Started, [Next]_vars, ~raced', Renews'
  PROVE  (Base # 0 /\ Rec(Base).tgt = To /\ file[To][1] # 0)'
<1>1. To' = To /\ sec.at # "free" /\ sec.job = "start" /\ To \in Places
  BY RenewsSteps, HolderTyped DEF Control
<1>2. CASE StartOpens
  BY <1>2, TranscriptOpens, <1>1 DEF Base, Open, Rec
<1>3. CASE ~StartOpens
  <2>1. Renews
    BY <1>3, RenewsSteps
  <2>2. Base # 0 /\ Rec(Base).tgt = To /\ file[To][1] # 0
    BY <2>1 DEF Started, Renews
  <2>3. file'[To][1] # 0
    BY <2>1, <1>1, <1>3, <2>2, TranscriptKept DEF Renews, Control, Shaped, Undoing
  <2>4. Base \in {current, journal.prev}
    BY DEF Base
  <2>5. CASE WriteCommitted
    BY <2>5, UndoableJournal, <1>1, <2>3 DEF WriteCommitted, Typed, TypedRecords, Base, Open,
      Control, Staged, Laying, Undoable, Target, Rec
  <2>6. ASSUME ~WriteCommitted PROVE Base' = Base
    <3>1. ~RecoveryAdopts
      BY <2>1 DEF RecoveryAdopts, Settled, Open, Typed, TypedRecords, Phases, Control, Renewing,
        Renews, Catching, Undoing
    <3>2. CASE PrepareBegins
      BY <3>2, PrepareBegun DEF Base, Open
    <3>3. CASE UndoJournal
      BY <3>3, <2>1 DEF UndoJournal, Typed, TypedRecords, Renews, Control, Shaped, Undoing,
        Catching, Staged, Base, Open
    <3>4. CASE WriteCurrent \/ UndoCurrent
      BY <2>1, <3>4 DEF WriteCurrent, Control, Staged, Open, UndoCurrent, Renews, Shaped, Undoing,
        Catching, Base
    <3>5. CASE WritePrepared
      BY <3>5 DEF WritePrepared, Linked, Open, Control, Staged, Typed, TypedRecords, Base
    <3>6. CASE UNCHANGED <<journal, current>>
      BY <3>6 DEF Base, Open
    <3> QED
      BY <2>6, <3>1, <3>2, <3>3, <3>4, <3>5, <3>6, JournalSteps, CurrentSteps
  <2>7. ~WriteCommitted => Rec(Base)' = Rec(Base)
    <3>1. CASE PrepareBegins
      BY <2>2, <2>4, <2>6, <3>1, CurrentRec, PrepareBegun DEF Rec
    <3>2. CASE ~PrepareBegins
      BY <2>6, <3>2, JournalKept DEF Rec
    <3> QED
      BY <3>1, <3>2
  <2> QED
    BY <1>1, <2>2, <2>3, <2>5, <2>6, <2>7
<1> QED
  BY <1>2, <1>3

(* A start that is let through finds the transcript.                         *)
LEMMA StartedGoes ==
  ASSUME Typed, Control, SafeNow, HarmNow, Started, StartUnmanaged \/ StartActivates, ~raced'
  PROVE  file'[manifest'][1] # 0
<1>1. UNCHANGED <<file, manifest>> /\ To = manifest
  BY DEF StartUnmanaged, StartActivates, files, Races, To
<1>2. Usable
  BY UsableAgain DEF StartUnmanaged, StartActivates, In
<1>3. SafeIn(file, manifest)
  BY DEF SafeNow, Homes, Typed, TypedActors, TypedRest
<1>4. CASE current = 0
  BY <1>2, <1>4, FirstArtifact, FilesAre, <1>1, <1>3 DEF HarmNow, Harmless, SafeIn
<1>5. CASE current # 0
  BY <1>5, <1>1 DEF StartUnmanaged, StartActivates, Unmanaged, Started
<1> QED
  BY <1>4, <1>5

LEMMA StartedUp ==
  ASSUME Typed, Control, Quiet, SafeNow, Tracked, Laid, Started, [Next]_vars, ~raced', Up, Up'
  PROVE  file'[manifest'][1] # 0
<1>0. manifest \in Places /\ manifest # "store" /\ file[manifest][1] # 0
  BY FilesAre DEF Started, Typed, TypedActors, TypedRest
<1>1. manifest' = manifest
  BY MovingIsDown, ManifestSteps DEF Commits, Moving
<1>2. CASE UNCHANGED <<file, latest>>
  BY <1>0, <1>1, <1>2
<1>3. ASSUME Open
      PROVE  Undoable /\ Target = manifest /\ Rec(journal.id).src = manifest
  BY <1>3, RefreshedHome DEF Undoable, Refreshing, Target
<1>4. CASE LinkStep
  BY <1>4, <1>3, LinkValue, <1>0, <1>1, FirstArtifact DEF LinkStep, Control, Staged, Open
<1>5. CASE UndoLink
  <2>1. Undoing
    BY <1>5 DEF UndoLink, Undoing
  <2>2. Open
    BY PreparerMoves, MovingIsDown, <2>1, UndoingOwned
  <2>3. journal.was["target"][1] # 0
    BY <1>3, <2>2, UndoableJournal DEF Tracked
  <2>4. file'[manifest][1] \in {file[manifest][1], journal.was["target"][1]}
    BY <1>3, <1>5, <2>2, UndoValue, FirstArtifact DEF Place, Dests
  <2> QED
    BY <1>0, <1>1, <2>3, <2>4
<1>6. CASE StartOpens
  BY <1>0, <1>1, <1>6, TranscriptOpens, FirstArtifact
<1>7. CASE HookCleans
  BY <1>7, CurrentRec, <1>0, <1>1, FilesAre, FirstArtifact DEF HookCleans, Activated, Quiet,
    Recallable, Moved
<1>8. ASSUME NEW b \in Artifacts, Writes(b) PROVE file'[manifest][1] # 0
  BY <1>8, FilesAre, <1>0, FirstArtifact DEF Writes
<1>9. ASSUME NEW q \in Profiles, NEW b \in Artifacts, Deleted(q, b) PROVE FALSE
  BY <1>9, DeletedAlone
<1> QED
  BY <1>1, <1>2, <1>4, <1>5, <1>6, <1>7, <1>8, <1>9, FileSteps

LEMMA StartedStep ==
  ASSUME Typed, Control, Quiet, SafeNow, HarmNow, Tracked, Laid, Started, [Next]_vars, ~raced'
  PROVE  Started'
<1>1. (In("start", "activate") /\ ~Unmanaged => Rec(current).tgt = To /\ file[To][1] # 0)'
  BY StartedActivates
<1>2. (sec.job = "start" /\ (sec.why = "refresh" \/ Catching) =>
          Base # 0 /\ Rec(Base).tgt = To /\ file[To][1] # 0)'
  BY StartedRenews DEF Renews
<1>3. (Up => file[manifest][1] # 0)'
  BY UpSteps, StartedGoes, StartedUp
<1> QED
  BY <1>1, <1>2, <1>3 DEF Started

-----------------------------------------------------------------------------
(* The invariant holds.                                                      *)

LEMMA FilesStep ==
  ASSUME Typed, Control, Quiet, Files, [Next]_vars, ~raced'
  PROVE  Files'
BY SafeNowStep, SafeThenStep, HarmNowStep, HarmThenStep, TrackedStep, BackedStep, LaidStep,
   UnlaidStep, StoredStep, StartedStep DEF Files

LEMMA GuardedStep ==
  ASSUME Typed, Control, Guarded, [Next]_vars
  PROVE  Guarded'
<1> SUFFICES ASSUME ~raced' PROVE Quiet' /\ Files'
  BY DEF Guarded
<1>1. Quiet /\ Files
  BY RacedKept DEF Guarded
<1> QED
  BY <1>1, QuietStep, FilesStep DEF Files

LEMMA GuardedInit == Init => Guarded
<1> SUFFICES ASSUME Init PROVE Quiet /\ Files
  BY DEF Guarded
<1>0. Typed /\ Control
  BY TypedInit, ControlInit
<1>1. /\ sec = NoSection /\ sec.at = "free" /\ sec.job = "none" /\ \A p \in Actors : act[p].at = "idle"
      /\ journal.phase = "none" /\ current = 0 /\ activation.id = 0
      /\ manifest = First /\ running = First /\ First \in Profiles
  BY NoActorTyped, NoSectionTyped, HandoffAssumption DEF Init, NoJournal
<1>2. ~Open /\ ~Laying /\ ~Undoing /\ \A e \in Edits : ~Claims(e) /\ ~Owns(e) /\ ~Moving(e) /\ ~Pending(e)
  BY <1>1, NoSectionTyped, HandoffAssumption DEF Open, Laying, Undoing, Claims, Owns, Moving, Pending, Actors
<1>3. ~Undoable
  BY <1>1, <1>2 DEF Undoable
<1>4. "store" \in Places /\ First \in Places /\ First # "store"
  BY <1>1, <1>0, FilesAre
<1>5. \A a \in Artifacts : file["store"][a] = 0 /\ file[First][a] = 1 /\ latest[a] = 1
  BY <1>4 DEF Init
<1>6. Quiet
  BY <1>1, <1>2, HandoffAssumption DEF Quiet, Actors
<1>7. SafeNow
  BY <1>1, <1>2, <1>5, HandoffAssumption DEF SafeNow, SafeIn, Homes, Goals, Actors
<1>8. SafeThen /\ HarmThen /\ Tracked
  BY <1>3 DEF SafeThen, HarmThen, Tracked
<1>9. HarmNow
  BY <1>1, <1>5 DEF HarmNow, Harmless
<1>10. Backed /\ Laid /\ Unlaid /\ Stored
  BY <1>1, <1>2, <1>3 DEF Backed, Laid, Unlaid, Stored
<1>11. Started
  BY <1>1, <1>5, FirstArtifact DEF Started, In
<1> QED
  BY <1>6, <1>7, <1>8, <1>9, <1>10, <1>11 DEF Files

(* Who holds the lock and how far the records and the files are, whose       *)
(* generation is in force, who runs, and which files must be where: the      *)
(* invariant that the handoff's properties rest on.                          *)
THEOREM HandoffInvariant == Spec => []Inv
<1>1. Init => Inv
  BY TypedInit, ControlInit, HomeInit, GuardedInit DEF Inv
<1>2. Inv /\ [Next]_vars => Inv'
  BY TypedStep, ControlStep, HomeStep, GuardedStep DEF Inv
<1> QED
  BY <1>1, <1>2, PTL DEF Spec

-----------------------------------------------------------------------------
(* What it promises.                                                         *)

(* However handoffs, failures, crashes and their recoveries interleave, the  *)
(* newest version of every file of the conversation is in the profile the    *)
(* manifest names or in the store, unless a start was let through past an    *)
(* edit on its way or a file was written while a journal was unsettled.      *)
THEOREM NewestIsKept == Spec => []Kept
<1>1. Inv => Kept
  BY DEF Kept, Inv, Guarded, Files, Typed, TypedActors, TypedRest, SafeNow, Homes, SafeIn
<1> QED
  BY <1>1, HandoffInvariant, PTL

(* A conversation that runs has its transcript, and never an older version   *)
(* of a file than the newest it wrote: no link, restored file or undone      *)
(* handoff puts back what it had before.                                     *)
THEOREM LiveConversationIsCurrent == Spec => []LiveIsCurrent
<1>1. Inv => LiveIsCurrent
  BY DEF LiveIsCurrent, Inv, Guarded, Files, Typed, TypedActors, TypedRest, Quiet, Up, SafeNow,
    Homes, Started, SafeIn
<1> QED
  BY <1>1, HandoffInvariant, PTL

(* At rest the journal, the marker and the generation agree well enough for  *)
(* the next recovery, and what is settled has its files in the store: no     *)
(* crash or failed write, but for one that cuts the undo of a committed      *)
(* generation, leaves records that a start answers with                      *)
(* continuity-store-corrupt.                                                 *)
THEOREM RecordsAreUsable == Spec => []NeverCorrupt
<1>1. Inv => NeverCorrupt
  BY NoSectionTyped DEF NeverCorrupt, Inv, Guarded, Files, Undoing, Control, Marked, Own, Laid,
    LinksWhole, Shared, Arts, CommitUnusable, Open, Stored, Settled, Counted, Typed, TypedRecords
<1> QED
  BY <1>1, HandoffInvariant, PTL
=============================================================================
