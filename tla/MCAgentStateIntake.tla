------------------------- MODULE MCAgentStateIntake -------------------------
(* Instances of AgentStateIntake for TLC. *)
EXTENDS AgentStateIntake

Push(g, i, seq, id, about) ==
  [gen |-> g, instance |-> i, transport |-> "push", seq |-> seq, id |-> id, about |-> about]

(* Two generations, two instances, heartbeats and events of a provider session, *)
(* and one event that carries the id of another.                                *)
TwoProducers ==
  {Push(g, i, 1, 1, None) : g \in {2, 3}, i \in Instances}
  \cup {Push(2, i, seq, seq, about) :
          i \in Instances, seq \in {2, 3}, about \in Targets}
  \cup {Push(2, i, 4, 1, None) : i \in Instances}

TwoRegistrations ==
  {[gen |-> 2, instance |-> i, seq |-> seq, target |-> t] :
     i \in Instances, seq \in {2, 3}, t \in Targets}
=============================================================================
