---------------------------- MODULE PromptOutbox ----------------------------
(***************************************************************************)
(* What the delivery engine promises the members of a channel: an outbox   *)
(* that hands prompts to one session in the order they were posted, at     *)
(* least once, and never again after the hand-over was recorded.           *)
(***************************************************************************)
EXTENDS Integers

CONSTANT NumMsgs

VARIABLES
  posted,   (* prompts accepted so far: 1..posted                       *)
  owed,     (* those neither handed over nor given up                   *)
  done,     (* those whose hand-over is recorded                        *)
  arrivals, (* how often each prompt reached the session                *)
  orderly   (* nothing happened yet that costs the order of posting     *)

outbox == <<posted, owed, done, arrivals, orderly>>

Init ==
  /\ posted = 0 /\ owed = {} /\ done = {}
  /\ arrivals = [m \in 1..NumMsgs |-> 0]
  /\ orderly = TRUE

(* A prompt is accepted; at the cap the oldest ones are given up for it. *)
Accept ==
  /\ posted < NumMsgs
  /\ posted' = posted + 1
  /\ owed' \subseteq owed \cup {posted'}
  /\ orderly => \A kept \in owed', shed \in owed \ owed' : shed < kept
  /\ posted' \in owed'
  /\ UNCHANGED <<done, arrivals, orderly>>

(* Prompts are given up for good: whoever runs the session dropped them. *)
GiveUp ==
  /\ owed' \subseteq owed
  /\ UNCHANGED <<posted, done, arrivals, orderly>>

(* A restart cut short loses the order and, with it, perhaps some prompts. *)
Scramble ==
  /\ owed' \subseteq owed
  /\ orderly' = FALSE
  /\ UNCHANGED <<posted, done, arrivals>>

(* The prompts S reach the session together.  None was handed over before,  *)
(* and no prompt older than all of them is left waiting, order permitting.  *)
Reaches(S) ==
  /\ S # {} /\ S \subseteq (1..posted) \ done
  /\ orderly => \A older \in owed \ S : \E m \in S : m < older
  /\ arrivals' = [m \in 1..NumMsgs |-> arrivals[m] + IF m \in S THEN 1 ELSE 0]

(* They reach it and the outbox knows, for good of those it could record. *)
HandOver(S) ==
  /\ Reaches(S)
  /\ \E recorded \in SUBSET S : done' = done \cup recorded
  /\ owed' = owed \ S
  /\ UNCHANGED <<posted, orderly>>

(* They reach it and the outbox does not learn of it: a crash, a lost reply. *)
Unnoticed(S) == Reaches(S) /\ UNCHANGED <<posted, owed, done, orderly>>

Next == Accept \/ GiveUp \/ Scramble \/ \E S \in SUBSET (1..NumMsgs) : HandOver(S) \/ Unnoticed(S)

Spec == Init /\ [][Next]_outbox

=============================================================================
