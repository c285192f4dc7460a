--------------------------- MODULE ProfileHandoff ---------------------------
(***************************************************************************)
(* A Claude conversation that follows its Desk session from one agent      *)
(* profile to another (src/server/claudeProfileContinuity.ts, with the     *)
(* session edit of src/server/routes/sessionsRoutes.ts, the start of       *)
(* terminalDaemon.ts and the SessionStart hook of systemRoutes.ts).        *)
(*                                                                         *)
(* The conversation is a few files.  A handoff hard-links them into a      *)
(* store and into the target profile, records a generation around that     *)
(* with a journal and a commit marker, and only then is the manifest       *)
(* changed.  A start repairs what an interrupted handoff left, restores    *)
(* missing files from the store and records new ones; the first hook of    *)
(* the started conversation removes the files of the source profile.       *)
(* The sections that touch the store hold one file lock; retiring,         *)
(* committing the manifest and spawning happen outside it.                 *)
(***************************************************************************)
EXTENDS Integers, Sequences

CONSTANTS
    Profiles,       \* the profiles' names
    First,          \* the profile the session starts in
    NArtifacts,     \* files of the conversation
    Edits,          \* profile edits that may be in flight together
    MaxEdits, MaxStarts, MaxWrites, MaxFaults   \* bounds

ASSUME HandoffAssumption ==
    /\ First \in Profiles /\ "store" \notin Profiles /\ "none" \notin Profiles
    /\ {"user", "hook"} \cap Edits = {}
    /\ NArtifacts \in Nat \ {0}
    /\ {MaxEdits, MaxStarts, MaxWrites, MaxFaults} \subseteq Nat

VARIABLES
    \* files: which inode is linked where, 0 = no file
    file,        \* a profile's copy and the store's copy of each artifact
    backup,      \* backups/<generation> of the generation in the journal
    \* control records
    journal, commit, current,   \* journal.json, commit.json, generation.json
    immut,       \* generations/<id>.json
    activation,  \* activation.json
    made,        \* what each generation id stands for, in order
    manifest,    \* the profile the session has in the manifest
    \* processes
    running,     \* the profile the live conversation runs under
    act,         \* the edits, the user's start request and the posted hook
    sec,         \* the section that holds the continuity lock
    \* history
    latest,      \* the inode last written by the conversation
    torn,        \* an undo of the committed generation did not finish
    abandoned,   \* an edit died, or failed to undo what it had prepared
    raced,       \* a start was let through past an edit on its way, or a file
                 \* was written while a journal was unsettled
    returned,    \* a commit brought back the manifest another edit had read
    edits, starts, faults   \* counters for the bounds

files == <<file, backup>>
records == <<journal, commit, current, immut, activation, made>>
history == <<latest, torn, abandoned, raced, returned>>
bounds == <<edits, starts, faults>>
vars == <<files, records, manifest, running, act, sec, history, bounds>>

Artifacts == 1..NArtifacts
Places == Profiles \cup {"store"}
Actors == Edits \cup {"user", "hook"}
MaxId == MaxEdits + MaxEdits + MaxStarts

NoFiles == [a \in Artifacts |-> 0]
NoBackup == [d \in {"store", "target"} |-> NoFiles]
NoJournal == [id |-> 0, prev |-> 0, phase |-> "none", was |-> NoBackup]
NoActor == [at |-> "idle", src |-> First, tgt |-> First, was |-> FALSE, id |-> 0]
NoSection == [by |-> "none", job |-> "none", at |-> "free", k |-> 0,
              why |-> "none", bad |-> FALSE]

-----------------------------------------------------------------------------
(* Reading the state.                                                      *)

Present(p) == {a \in Artifacts : file[p][a] # 0}

\* generation records by id
Rec(id) == made[id]
Target == Rec(journal.id).tgt
Own == commit = journal.id

\* the profiles a section works on: a start refreshes in place
From == act[sec.by].src
To == act[sec.by].tgt

\* the plan's k-th entry: each artifact's store link, then its target link
PlanArtifact(k) == (k + 1) \div 2
PlanDest(k) == IF k % 2 = 1 THEN "store" ELSE "target"
PlanPlace(k) == IF k % 2 = 1 THEN "store" ELSE Target
Plans == 2 * NArtifacts

Fault == faults < MaxFaults /\ faults' = faults + 1

In(job, place) == sec.job = job /\ sec.at = place
Goto(place) == sec' = [sec EXCEPT !.at = place]
ToUndo(why) == sec' = [sec EXCEPT !.at = "undo", !.k = Plans, !.why = why, !.bad = FALSE]

\* an edit that is through: a session that ran before it is started again
Resume(p, profile) ==
    IF act[p].was THEN [act[p] EXCEPT !.at = "start", !.src = profile, !.tgt = profile]
                  ELSE NoActor

\* what the caller of a section does with its outcome
Continues(p, job, ok) ==
    IF job = "prepare" /\ ok THEN [act[p] EXCEPT !.at = "commit", !.id = journal.id]
    ELSE IF job \in {"prepare", "undo"} THEN Resume(p, act[p].src)
    ELSE IF job = "finalize" THEN Resume(p, act[p].tgt)
    ELSE IF job = "start" /\ ok THEN [act[p] EXCEPT !.at = "spawn"]
    ELSE IF act[p].at = "post" THEN act[p]     \* a hook posted meanwhile
    ELSE NoActor

InDaemon(p) == act[p].at \in {"starting", "spawn"}
Moving(e) == act[e].at \notin {"idle", "start", "starting", "spawn"}

\* history: a start gets its leave while an edit is on its way, or for a
\* profile the session has left
Races ==
    raced' = (raced \/ act[sec.by].tgt # manifest \/ \E e \in Edits : Moving(e))

Return(ok) ==
    /\ sec' = NoSection
    /\ act' = [act EXCEPT ![sec.by] = Continues(sec.by, sec.job, ok)]

-----------------------------------------------------------------------------
(* executeClaudeProfileHandoff, outside the lock.                          *)

\* liveness is read once, before anything is retired
EditBegins(e, target) ==
    /\ act[e].at = "idle" /\ edits < MaxEdits /\ target # manifest
    /\ edits' = edits + 1
    /\ act' = [act EXCEPT ![e] = [at |-> IF running = "none" THEN "prepare" ELSE "retire",
                                  src |-> manifest, tgt |-> target,
                                  was |-> running # "none", id |-> 0]]
    /\ raced' = (raced \/ \E p \in Actors : InDaemon(p))
    /\ UNCHANGED <<files, records, manifest, running, sec, latest, torn, abandoned,
                   returned, starts, faults>>

Retires(e) ==
    /\ act[e].at = "retire"
    /\ running' = "none"
    /\ act' = [act EXCEPT ![e].at = "prepare"]
    /\ UNCHANGED <<files, records, manifest, sec, history, bounds>>

\* commitManifestIfUnchanged: what changed is this profile or something else
Unchanged(e) == manifest = act[e].src

\* an edit that has read the manifest and not yet tried to commit
Pending(e) == act[e].at \in {"retire", "prepare", "commit"} \/ (sec.by = e /\ sec.job = "prepare")

Commits(e) ==
    /\ act[e].at = "commit" /\ Unchanged(e)
    /\ manifest' = act[e].tgt
    /\ act' = [act EXCEPT ![e].at = "finalize"]
    /\ returned' = (returned \/ \E x \in Edits : Pending(x) /\ act[x].src = act[e].tgt)
    /\ UNCHANGED <<files, records, running, sec, latest, torn, abandoned, raced, bounds>>

CommitRejected(e) ==
    /\ act[e].at = "commit"
    /\ \/ ~Unchanged(e) /\ UNCHANGED faults
       \/ Unchanged(e) /\ Fault
    /\ act' = [act EXCEPT ![e].at = "undo"]
    /\ UNCHANGED <<files, records, manifest, running, sec, history, edits, starts>>

\* the user's start of a stopped session, for the manifest's profile: the plan
\* reads liveness before the starts are sent
StartAsked ==
    /\ act["user"].at = "idle" /\ running = "none" /\ starts < MaxStarts
    /\ starts' = starts + 1
    /\ act' = [act EXCEPT !["user"] = [NoActor EXCEPT !.at = "start", !.src = manifest,
                                                      !.tgt = manifest]]
    /\ UNCHANGED <<files, records, manifest, running, sec, history, edits, faults>>

\* the daemon spawns, unless the session is live already
Spawns(p) ==
    /\ act[p].at = "spawn"
    /\ running' = IF running = "none" THEN act[p].tgt ELSE running
    /\ act' = IF running = "none" THEN [act EXCEPT ![p] = NoActor, !["hook"].at = "post"]
                                  ELSE [act EXCEPT ![p] = NoActor]
    /\ UNCHANGED <<files, records, manifest, sec, history, bounds>>

\* taking the lock: the section's job is the caller's next call
Enter(p) ==
    /\ sec = NoSection
    /\ act[p].at \in {"prepare", "undo", "finalize", "start", "post"}
    /\ LET job == IF act[p].at = "post" THEN "confirm" ELSE act[p].at IN
          sec' = [NoSection EXCEPT !.by = p, !.job = job,
                     !.at = IF job \in {"prepare", "start"} THEN "recover" ELSE "open"]
    /\ act' = [act EXCEPT ![p].at = IF @ = "start" THEN "starting" ELSE "busy"]
    /\ UNCHANGED <<files, records, manifest, running, history, bounds>>

-----------------------------------------------------------------------------
(* recoverInterruptedHandoff.                                              *)

\* recoveryOptionsForJournal, whatever the phase; the first recovery of a start
\* resolves the journal's own profiles, that of its refresh knows only one
Unresolvable == (sec.job = "prepare" \/ sec.why = "refresh") /\ Target \notin {From, To}

\* validateCommittedLinks
LinksWhole ==
    \A a \in Rec(journal.id).arts :
        file["store"][a] # 0 /\ file["store"][a] = file[Target][a]

CommitUnusable ==
    IF Own THEN \/ journal.id \notin immut
                \/ journal.phase # "committed" /\ ~LinksWhole
           ELSE journal.phase = "committed" \/ commit \notin {0, journal.prev}

RecoveryFails ==
    /\ journal # NoJournal
    /\ Unresolvable \/ (journal.phase # "rolled-back" /\ CommitUnusable)

Settled == journal.phase \in {"none", "rolled-back"} \/ (Own /\ journal.phase = "committed")

RecoveryThrows ==
    /\ sec.at = "recover" /\ RecoveryFails
    /\ Return(FALSE)
    /\ UNCHANGED <<files, records, manifest, running, history, bounds>>

NothingToRecover ==
    /\ sec.at = "recover" /\ ~RecoveryFails /\ Settled
    /\ backup' = NoBackup
    /\ Goto(IF sec.job = "prepare" \/ sec.why = "refresh" THEN "check" ELSE "open")
    /\ UNCHANGED <<file, records, manifest, running, act, history, bounds>>

\* the marker is there: finish what the interrupted handoff had committed
RecoveryAdopts ==
    /\ sec.at = "recover" /\ ~RecoveryFails /\ ~Settled /\ Own
    /\ IF current # journal.id
       THEN current' = journal.id /\ UNCHANGED journal
       ELSE journal' = [journal EXCEPT !.phase = "committed"] /\ UNCHANGED current
    /\ UNCHANGED <<files, commit, immut, activation, made, manifest, running, act,
                   sec, history, bounds>>

RecoveryUndoes ==
    /\ sec.at = "recover" /\ ~RecoveryFails /\ ~Settled /\ ~Own
    /\ ToUndo("recover")
    /\ UNCHANGED <<files, records, manifest, running, act, history, bounds>>

-----------------------------------------------------------------------------
(* Undoing a generation: rollbackLinkPlans and restorePreviousControl-     *)
(* Records, the same steps for a recovery, for the catch of a failed       *)
(* preparation and for rollbackClaudeSessionHandoff.                       *)

Published == Own \/ journal.phase = "committed"
Undoing == sec.at \in {"undo", "ungen", "uncurrent", "uncommit", "unjournal"}

\* rollbackClaudeSessionHandoff only undoes its own committed generation
MayUndo == journal.id = act[sec.by].id /\ journal.phase = "committed"

UndoClaimed ==
    /\ In("undo", "open") /\ MayUndo
    /\ ToUndo("undo")
    /\ UNCHANGED <<files, records, manifest, running, act, history, bounds>>

UndoRefused ==
    /\ In("undo", "open") /\ ~MayUndo
    /\ abandoned' = TRUE
    /\ Return(FALSE)
    /\ UNCHANGED <<files, records, manifest, running, latest, torn, raced, returned, bounds>>

\* one entry of the plan, last first: a link that was not there is removed,
\* one that was is put back from its backup, or must not have changed
UndoLink ==
    /\ sec.at = "undo" /\ sec.k > 0
    /\ LET a == PlanArtifact(sec.k)
           p == PlanPlace(sec.k)
           was == journal.was[PlanDest(sec.k)][a]
           kept == backup[PlanDest(sec.k)][a]
           planned == a \in Rec(journal.id).arts
       IN /\ file' = IF planned /\ (was = 0 \/ kept # 0)
                     THEN [file EXCEPT ![p][a] = kept] ELSE file
          /\ sec' = [sec EXCEPT !.k = @ - 1,
                        !.bad = @ \/ (planned /\ was # 0 /\ kept = 0 /\ file[p][a] # was)]
    /\ UNCHANGED <<backup, records, manifest, running, act, history, bounds>>

\* the backups go whatever happened; a link that could not be put back fails
\* the undo before any control record is touched
UndoBackups ==
    /\ sec.at = "undo" /\ sec.k = 0
    /\ backup' = NoBackup
    /\ IF sec.bad THEN /\ Return(FALSE)
                       /\ torn' = (torn \/ Published)
                       /\ abandoned' = TRUE
                  ELSE Goto("ungen") /\ UNCHANGED <<act, torn, abandoned>>
    /\ UNCHANGED <<file, records, manifest, running, latest, raced, returned, bounds>>

UndoGeneration ==
    /\ sec.at = "ungen"
    /\ immut' = immut \ {journal.id}
    /\ Goto("uncurrent")
    /\ UNCHANGED <<files, journal, commit, current, activation, made, manifest,
                   running, act, history, bounds>>

Restored_Kept == current
Restored == journal.prev

UndoCurrent ==
    /\ sec.at = "uncurrent" /\ journal.prev \in immut \cup {0}
    /\ current' = Restored
    /\ Goto("uncommit")
    /\ UNCHANGED <<files, journal, commit, immut, activation, made, manifest,
                   running, act, history, bounds>>

UndoCommit ==
    /\ sec.at = "uncommit"
    /\ commit' = journal.prev
    /\ Goto("unjournal")
    /\ UNCHANGED <<files, journal, current, immut, activation, made, manifest,
                   running, act, history, bounds>>

\* a recovery goes on with its caller; the others report the failure
UndoJournal ==
    /\ sec.at = "unjournal"
    /\ journal' = [journal EXCEPT !.phase = "rolled-back"]
    /\ IF sec.why = "recover"
       THEN Goto("recover") /\ UNCHANGED act
       ELSE Return(FALSE)
    /\ UNCHANGED <<files, commit, current, immut, activation, made, manifest,
                   running, history, bounds>>

-----------------------------------------------------------------------------
(* prepareClaudeSessionHandoffLocked after the recovery.                   *)

Conflicting ==
    \/ ~(Present(To) \subseteq Present(From))
    \/ \E a \in Present(To) : file[To][a] # file[From][a]

\* the first artifact is the transcript
Preparable == file[From][1] # 0 /\ ~Conflicting

PrepareRefused ==
    /\ sec.at = "check" /\ ~Preparable
    /\ Return(FALSE)
    /\ UNCHANGED <<files, records, manifest, running, history, bounds>>

PrepareBegins ==
    /\ sec.at = "check" /\ Preparable
    /\ LET arts == Present(From)
           There(p) == [a \in Artifacts |-> IF a \in arts THEN file[p][a] ELSE 0]
       IN /\ made' = Append(made, [src |-> From, tgt |-> To, arts |-> arts])
          /\ journal' = [id |-> Len(made) + 1, prev |-> current, phase |-> "preparing",
                         was |-> [d \in {"store", "target"} |->
                                    There(IF d = "store" THEN d ELSE To)]]
    /\ Goto("backup")
    /\ UNCHANGED <<files, commit, current, immut, activation, manifest, running, act,
                   history, bounds>>

Backup ==
    /\ sec.at = "backup"
    /\ backup' = journal.was
    /\ sec' = [sec EXCEPT !.at = "link", !.k = 1]
    /\ UNCHANGED <<file, records, manifest, running, act, history, bounds>>

Planned(k) == k <= Plans

LinkStep ==
    /\ sec.at = "link" /\ Planned(sec.k)
    /\ LET a == PlanArtifact(sec.k)
       IN file' = IF a \in Rec(journal.id).arts
                  THEN [file EXCEPT ![PlanPlace(sec.k)][a] = file[From][a]] ELSE file
    /\ sec' = [sec EXCEPT !.k = @ + 1]
    /\ UNCHANGED <<backup, records, manifest, running, act, history, bounds>>

WriteGeneration ==
    /\ sec.at = "link" /\ ~Planned(sec.k)
    /\ immut' = immut \cup {journal.id}
    /\ Goto("prepared")
    /\ UNCHANGED <<files, journal, commit, current, activation, made, manifest,
                   running, act, history, bounds>>

Linked_Committed == [journal EXCEPT !.phase = "committed"]
Linked == [journal EXCEPT !.phase = "prepared"]

WritePrepared ==
    /\ sec.at = "prepared"
    /\ journal' = Linked
    /\ Goto("marker")
    /\ UNCHANGED <<files, commit, current, immut, activation, made, manifest,
                   running, act, history, bounds>>

WriteCommit ==
    /\ sec.at = "marker"
    /\ commit' = journal.id
    /\ Goto("current")
    /\ UNCHANGED <<files, journal, current, immut, activation, made, manifest,
                   running, act, history, bounds>>

WriteCurrent ==
    /\ sec.at = "current"
    /\ current' = journal.id
    /\ Goto("committed")
    /\ UNCHANGED <<files, journal, commit, immut, activation, made, manifest,
                   running, act, history, bounds>>

\* a handoff keeps its backups until the manifest is committed
WriteCommitted ==
    /\ sec.at = "committed"
    /\ journal' = [journal EXCEPT !.phase = "committed"]
    /\ IF sec.job = "prepare"
       THEN /\ sec' = NoSection
            /\ act' = [act EXCEPT ![sec.by] = Continues(sec.by, "prepare", TRUE)]
            /\ UNCHANGED backup
       ELSE backup' = NoBackup /\ Goto("activate") /\ UNCHANGED act
    /\ UNCHANGED <<file, commit, current, immut, activation, made, manifest,
                   running, history, bounds>>

\* a link or a durable write fails: the catch undoes what was done so far
PrepareFails ==
    /\ sec.at \in {"backup", "link", "prepared", "marker", "current", "committed"}
    /\ Fault
    /\ ToUndo("catch")
    /\ UNCHANGED <<files, records, manifest, running, act, history, edits, starts>>

\* finalizeClaudeSessionHandoff: the committed generation's backups go
Finalizes ==
    /\ In("finalize", "open")
    /\ backup' = IF MayUndo THEN NoBackup ELSE backup
    /\ Return(MayUndo)
    /\ UNCHANGED <<file, records, manifest, running, history, bounds>>

-----------------------------------------------------------------------------
(* prepareClaudeSessionStartLocked after the recovery.                     *)

Unmanaged == current = 0

\* continuity-session-conflict
Elsewhere == Rec(current).tgt # To

\* continuity-store-corrupt
Lost == \E a \in Rec(current).arts : file["store"][a] = 0 /\ file[To][a] = 0
Mismatched == commit # current \/ Lost

StartUnmanaged ==
    /\ In("start", "open") /\ Unmanaged
    /\ Return(TRUE) /\ Races
    /\ UNCHANGED <<files, records, manifest, running, latest, torn, abandoned, returned,
                   bounds>>

StartRefused ==
    /\ In("start", "open") /\ ~Unmanaged /\ (Elsewhere \/ Mismatched)
    /\ Return(FALSE)
    /\ UNCHANGED <<files, records, manifest, running, history, bounds>>

\* a missing file comes back from the store; a file the conversation wrote
\* anew, or one the generation does not know, makes a new generation
Materialised_StoreFirst(a) ==
    IF file["store"][a] # 0 THEN file["store"][a] ELSE file[To][a]
Materialised(a) ==
    IF a \in Rec(current).arts /\ file[To][a] = 0 THEN file["store"][a] ELSE file[To][a]

Renewed ==
    \/ \E a \in Rec(current).arts : Materialised(a) # file["store"][a]
    \/ Present(To) \cup Rec(current).arts # Rec(current).arts

StartOpens ==
    /\ In("start", "open") /\ ~Unmanaged /\ ~Elsewhere /\ ~Mismatched
    /\ file' = [file EXCEPT ![To] = [a \in Artifacts |-> Materialised(a)]]
    /\ sec' = IF Renewed THEN [sec EXCEPT !.at = "recover", !.why = "refresh"]
                          ELSE [sec EXCEPT !.at = "activate"]
    /\ UNCHANGED <<backup, records, manifest, running, act, history, bounds>>

StartActivates ==
    /\ In("start", "activate")
    /\ activation' = [id |-> current, state |-> "starting"]
    /\ Return(TRUE) /\ Races
    /\ UNCHANGED <<files, journal, commit, current, immut, made, manifest, running,
                   latest, torn, abandoned, returned, bounds>>

-----------------------------------------------------------------------------
(* confirmClaudeSessionStart, from the SessionStart hook.                  *)

\* the activation in force, and the source's files that are the store's
Activated == activation.id # 0 /\ activation.id = current
Moved_Any == Activated
Moved == Activated /\ Rec(current).src # Rec(current).tgt
SameFile(a) == file["store"][a] = file[Rec(current).src][a]

HookIgnored ==
    /\ In("confirm", "open") /\ ~Activated
    /\ Return(TRUE)
    /\ UNCHANGED <<files, records, manifest, running, history, bounds>>

HookMismatched ==
    /\ In("confirm", "open") /\ Activated /\ Fault
    /\ activation' = [activation EXCEPT !.state = "needs-attention"]
    /\ Return(TRUE)
    /\ UNCHANGED <<files, journal, commit, current, immut, made, manifest, running,
                   history, edits, starts>>

HookCleans ==
    /\ In("confirm", "open") /\ Activated
    /\ LET src == Rec(current).src
           gone == IF Moved THEN {a \in Rec(current).arts : SameFile(a)} ELSE {}
           left == IF Moved THEN (Present(src) \cap Rec(current).arts) \ gone ELSE {}
       IN /\ file' = [file EXCEPT ![src] = [a \in Artifacts |-> IF a \in gone THEN 0 ELSE @[a]]]
          /\ sec' = [sec EXCEPT !.at = "confirmed", !.bad = left # {}]
    /\ UNCHANGED <<backup, records, manifest, running, act, history, bounds>>

HookConfirms ==
    /\ In("confirm", "confirmed")
    /\ activation' = [activation EXCEPT
                        !.state = IF sec.bad THEN "needs-attention" ELSE "ready"]
    /\ Return(TRUE)
    /\ UNCHANGED <<files, journal, commit, current, immut, made, manifest, running,
                   history, bounds>>

-----------------------------------------------------------------------------
(* The conversation, the user's files and the two server processes.        *)

\* Claude replaces a file of its conversation (appends keep the inode)
Writes(a) ==
    /\ running # "none" /\ latest[a] <= MaxWrites
    /\ latest' = [latest EXCEPT ![a] = @ + 1]
    /\ file' = [file EXCEPT ![running][a] = latest[a] + 1]
    /\ raced' = (raced \/ ~Settled)
    /\ UNCHANGED <<backup, records, manifest, running, act, sec, torn, abandoned,
                   returned, bounds>>

Exits ==
    /\ running # "none"
    /\ running' = "none"
    /\ UNCHANGED <<files, records, manifest, act, sec, history, bounds>>

\* a file the store also has is deleted from a profile at rest, its journal
\* settled
Deleted(p, a) ==
    /\ \A e \in Actors : act[e].at = "idle"
    /\ running = "none" /\ Settled /\ file[p][a] # 0 /\ file[p][a] = file["store"][a]
    /\ Fault
    /\ file' = [file EXCEPT ![p][a] = 0]
    /\ UNCHANGED <<backup, records, manifest, running, act, sec, history, edits, starts>>

\* a section that dies in the middle; the lock it held goes stale
Cut == torn' = (torn \/ (Undoing /\ Published))
WebDies ==
    /\ Fault
    /\ act' = [p \in Actors |-> IF p = "user" \/ InDaemon(p) THEN act[p] ELSE NoActor]
    /\ abandoned' = (abandoned \/ \E e \in Edits : ~InDaemon(e) /\ act[e] # NoActor)
    /\ IF sec.job \in {"none", "start"}
       THEN UNCHANGED <<sec, torn>>
       ELSE sec' = NoSection /\ Cut
    /\ UNCHANGED <<files, records, manifest, running, latest, raced, returned,
                   edits, starts>>

DaemonDies ==
    /\ \E p \in Actors : InDaemon(p)
    /\ Fault
    /\ act' = [p \in Actors |-> IF InDaemon(p) THEN NoActor ELSE act[p]]
    /\ IF sec.job = "start" THEN sec' = NoSection /\ Cut ELSE UNCHANGED <<sec, torn>>
    /\ UNCHANGED <<files, records, manifest, running, latest, abandoned, raced, returned,
                   edits, starts>>

-----------------------------------------------------------------------------
(* The specification.                                                      *)

Init ==
    /\ file = [p \in Places |-> [a \in Artifacts |-> IF p = First THEN 1 ELSE 0]]
    /\ backup = NoBackup
    /\ journal = NoJournal /\ commit = 0 /\ current = 0 /\ immut = {} /\ made = <<>>
    /\ activation = [id |-> 0, state |-> "none"]
    /\ manifest = First
    /\ running = First
    /\ act = [p \in Actors |-> NoActor]
    /\ sec = NoSection
    /\ latest = [a \in Artifacts |-> 1]
    /\ torn = FALSE /\ abandoned = FALSE /\ raced = FALSE /\ returned = FALSE
    /\ edits = 0 /\ starts = 0 /\ faults = 0

Edit(e) ==
    \/ \E p \in Profiles : EditBegins(e, p)
    \/ Retires(e) \/ Commits(e) \/ CommitRejected(e)

Recovery == RecoveryThrows \/ NothingToRecover \/ RecoveryAdopts \/ RecoveryUndoes

Undo ==
    \/ UndoClaimed \/ UndoRefused \/ UndoLink \/ UndoBackups \/ UndoGeneration
    \/ UndoCurrent \/ UndoCommit \/ UndoJournal

Prepare ==
    \/ PrepareRefused \/ PrepareBegins \/ Backup \/ LinkStep \/ WriteGeneration
    \/ WritePrepared \/ WriteCommit \/ WriteCurrent \/ WriteCommitted \/ PrepareFails

StartSection == StartUnmanaged \/ StartRefused \/ StartOpens \/ StartActivates

Hook == HookIgnored \/ HookMismatched \/ HookCleans \/ HookConfirms

Environment ==
    \/ \E a \in Artifacts : Writes(a)
    \/ \E p \in Profiles, a \in Artifacts : Deleted(p, a)
    \/ Exits \/ WebDies \/ DaemonDies

Next ==
    \/ \E e \in Edits : Edit(e)
    \/ StartAsked
    \/ \E p \in Actors : Spawns(p) \/ Enter(p)
    \/ Recovery \/ Undo \/ Prepare \/ Finalizes \/ StartSection \/ Hook
    \/ Environment

Spec == Init /\ [][Next]_vars

-----------------------------------------------------------------------------
(* Properties.                                                             *)

Inodes == 0..(MaxWrites + 1)
Ids == 0..MaxId
FileSet == [Artifacts -> Inodes]

TypeOK ==
    /\ file \in [Places -> FileSet]
    /\ backup \in [{"store", "target"} -> FileSet]
    /\ journal \in [id : Ids, prev : Ids, was : [{"store", "target"} -> FileSet],
                    phase : {"none", "preparing", "prepared", "committed", "rolled-back"}]
    /\ commit \in Ids /\ current \in Ids /\ immut \subseteq Ids
    /\ activation \in [id : Ids,
                       state : {"none", "starting", "ready", "needs-attention"}]
    /\ made \in Seq([src : Profiles, tgt : Profiles, arts : SUBSET Artifacts])
    /\ Len(made) <= MaxId
    /\ manifest \in Profiles /\ running \in Profiles \cup {"none"}
    /\ act \in [Actors -> [at : {"idle", "retire", "prepare", "commit", "finalize", "undo",
                                 "start", "starting", "spawn", "post", "busy"},
                           src : Profiles, tgt : Profiles, was : BOOLEAN, id : Ids]]
    /\ sec.by \in Actors \cup {"none"} /\ sec.k \in 0..(Plans + 1)
    /\ latest \in FileSet
    /\ {torn, abandoned, raced, returned} \subseteq BOOLEAN

Resting == \A e \in Edits : act[e].at = "idle"

\* However handoffs, failures, crashes and their recoveries interleave, the
\* newest version of every file of the conversation is in the profile the
\* manifest names or in the store, unless a start was let through past an edit
\* in flight or a file was written while a journal was unsettled.
Kept ==
    ~raced => \A a \in Artifacts : latest[a] \in {file[manifest][a], file["store"][a]}

\* A conversation that runs has its transcript, and never an older version of
\* a file than the newest it wrote.
LiveIsCurrent ==
    ~raced /\ running # "none" =>
        file[running][1] # 0 /\ \A a \in Artifacts : file[running][a] \in {0, latest[a]}

\* Whatever step a crash or a failed write cut, the next start finds records
\* it can recover from: only the undo of a committed generation, cut half way,
\* can leave records that answer continuity-store-corrupt.
NeverCorrupt ==
    sec = NoSection /\ ~torn /\ ~raced =>
        /\ journal.phase \in {"preparing", "prepared", "committed"} => ~CommitUnusable
        /\ Settled /\ current # 0 =>
             /\ commit = current
             /\ \A a \in Rec(current).arts : file["store"][a] # 0 \/ file[manifest][a] # 0

\* With no edit in flight and none abandoned, and unless the manifest went away
\* and came back under an edit that had read it, the generation on disk is the
\* manifest's profile's: a start is never refused as belonging elsewhere.
HomeIsTarget ==
    sec = NoSection /\ Resting /\ ~abandoned /\ ~returned =>
        current = 0 \/ Rec(current).tgt = manifest
=============================================================================
