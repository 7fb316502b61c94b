---------------------------- MODULE WakeService ----------------------------
(***************************************************************************)
(* What jobmgr promises to the agents that submit work to it, and nothing  *)
(* about how: a job that asked for a wake is in flight until it is over,   *)
(* then its handover is due, then its owner has been handed it.  Several   *)
(* due jobs of one owner may be handed over together.  A submission that   *)
(* the CLI itself refuses was reported to the submitter on the spot, and   *)
(* jobs without a wake close silently, several at once when their records  *)
(* turn out to be in done/ already.                                        *)
(***************************************************************************)
CONSTANTS Jobs, Owners, Owner, NoWake

VARIABLE phase

Phases == {"new", "inflight", "due", "handed", "refused", "closed"}

Init == phase = [j \in Jobs |-> "new"]

Move(S, from, to) ==
    /\ \A j \in S : phase[j] = from
    /\ phase' = [j \in Jobs |-> IF j \in S THEN to ELSE phase[j]]

Accept(j)   == Move({j}, "new", "inflight")
Refuse(j)   == Move({j}, "inflight", "refused")
Close(S)    == S \subseteq NoWake /\ Move(S, "inflight", "closed")
Complete(j) == j \notin NoWake /\ Move({j}, "inflight", "due")

HandOver(o, S) ==
    /\ S # {}
    /\ \A j \in S : Owner[j] = o
    /\ Move(S, "due", "handed")

Next ==
    \/ \E j \in Jobs : Accept(j) \/ Refuse(j) \/ Complete(j)
    \/ \E S \in SUBSET Jobs : Close(S)
    \/ \E o \in Owners : \E S \in SUBSET Jobs : HandOver(o, S)

HandOverOf(j) ==
    \E S \in SUBSET Jobs : j \in S /\ HandOver(Owner[j], S)

\* A handover that is due is eventually made.
Fairness == \A j \in Jobs : WF_phase(HandOverOf(j))

Safety == Init /\ [][Next]_phase

Spec == Safety /\ Fairness
=============================================================================
