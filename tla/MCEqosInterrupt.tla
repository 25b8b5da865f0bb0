---------------------------- MODULE MCEqosInterrupt ----------------------------
(* Two questions, one to a behaviour: a queue that is armed and disarmed on a *)
(* link that does not change, and a link that changes while no queue runs.    *)
(* Neither HwLinkChange nor StartQueue has a fairness condition.              *)
EXTENDS EqosInterrupt

VARIABLE question   \* "queue" or "link"

MCInit == Init /\ question \in {"queue", "link"}

MCNext ==
  /\ Next
  /\ question = "queue" => UNCHANGED link
  /\ question = "link" => UNCHANGED nx
  /\ UNCHANGED question

MCSpec == MCInit /\ [][MCNext]_<<vars, question>> /\ Fairness
===============================================================================
