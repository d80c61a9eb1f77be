---------------------------- MODULE RecipeOutcome ----------------------------
(***************************************************************************)
(* What kafka.md and recipe_ai_recommendations.md promise of a recipe      *)
(* request: it has one outcome for good, the job whose result the history  *)
(* keeps for its requestId, and every completed event that is ever         *)
(* published for it names that job.                                        *)
(***************************************************************************)
CONSTANTS RequestId, Job, None

VARIABLES
    outcome,      \* requestId -> the job whose result stands for it
    announced     \* <<requestId, job>> of the events published

ovars == <<outcome, announced>>

OInit ==
    /\ outcome = [r \in RequestId |-> None]
    /\ announced = {}

Settle(r, j) ==
    /\ outcome[r] = None
    /\ outcome' = [outcome EXCEPT ![r] = j]
    /\ UNCHANGED announced

Announce(r) ==
    /\ outcome[r] # None
    /\ announced' = announced \cup {<<r, outcome[r]>>}
    /\ UNCHANGED outcome

ONext == \E r \in RequestId : Announce(r) \/ \E j \in Job : Settle(r, j)

OSpec == OInit /\ [][ONext]_ovars
=============================================================================
