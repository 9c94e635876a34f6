---------------------------- MODULE MCCampaign -----------------------------
(***************************************************************************)
(* Campaign on small instances: one or two campaigns whose audience is     *)
(* smaller than the set of active subscribers.                             *)
(***************************************************************************)
EXTENDS Campaign, TLC

CONSTANTS s1

MCAudienceOf == [c \in Campaigns |-> {s1}]

WorkerSymmetry == Permutations(Workers) \cup Permutations(Broadcasts)

(* Bound: the tenant leaves the campaign's broadcasts alone. *)
NoMeddling ==
    \A b \in Broadcasts : ~cancelling[b] /\ status[b] # "pending"

=============================================================================
