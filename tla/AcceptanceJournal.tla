-------------------------- MODULE AcceptanceJournal --------------------------
(***************************************************************************)
(* What the intake promises its consumers and producers: a journal of      *)
(* accepted events in one total order that nothing ever rewrites, in which *)
(* no producer's number is used twice or out of order, one generation      *)
(* speaks through one producer instance, and no generation speaks after a  *)
(* later one did.                                                          *)
(***************************************************************************)
EXTENDS Integers

VARIABLES
  journal,  (* receipts: an event and its place in the order           *)
  spent     (* pairs of a producer's stream and a number used in it    *)

Stream(e) == <<e.gen, e.instance, e.transport>>

Init == journal = {} /\ spent = {}

(* Every number used in the stream so far is lower. *)
Unspent(stream, seq) == \A s \in spent : s[1] = stream => s[2] < seq

(* An event is accepted at a place after all the others. *)
Accept(r) ==
  /\ journal' = journal \cup {r}
  /\ \A older \in journal :
       /\ older.number < r.number
       /\ older.env.gen <= r.env.gen
       /\ older.env.gen = r.env.gen => older.env.instance = r.env.instance
  /\ Unspent(Stream(r.env), r.env.seq)
  /\ spent' = spent \cup {<<Stream(r.env), r.env.seq>>}

(* A number is spent on something that is no event, by an instance the        *)
(* journal knows.                                                             *)
Claim(stream, seq) ==
  /\ \E r \in journal : r.env.gen = stream[1] /\ r.env.instance = stream[2]
  /\ Unspent(stream, seq)
  /\ spent' = spent \cup {<<stream, seq>>}
  /\ UNCHANGED journal

Next == (\E r \in journal' : Accept(r)) \/ (\E s \in spent' : Claim(s[1], s[2]))

Spec == Init /\ [][Next]_<<journal, spent>>

=============================================================================
