----------------------------- MODULE MCAgentTurn -----------------------------
(****************************************************************************)
(* Instances of AgentTurn for TLC.  Requests, drafts and entities are only  *)
(* compared, so the safety runs use their symmetry; TwoClients, which       *)
(* checks a liveness property, does not.                                    *)
(****************************************************************************)
EXTENDS AgentTurn, TLC

CONSTANT First  \* a request that PendingInit has used up

Symmetry ==
  Permutations(Requests \ {First}) \cup Permutations(Drafts)
    \cup Permutations(Entities)

(* A session that awaits a review: the turn of First ran from Init, a        *)
(* message that led to the draft d, and stopped at the gate.                 *)
PendingInit ==
  \E d \in Drafts :
    /\ session = [status |-> "awaiting_review", review |-> d,
                  committed |-> {}]
    /\ ckpt = [values |-> [EmptyState EXCEPT !.draft = d, !.attempts = 2],
               next |-> "human_review", interrupted |-> TRUE,
               writer |-> First]
    /\ pc = [r \in Requests |-> IF r = First THEN "done" ELSE "new"]
    /\ ask = [r \in Requests |->
                IF r = First THEN [kind |-> "message"] ELSE NoAsk]
    /\ mem = [r \in Requests |-> EmptyState]
    /\ node = [r \in Requests |-> "END"]
    /\ prior = [r \in Requests |-> {}]
    /\ approved = {}
    /\ writes = {}
    /\ origin = [r \in Requests |->
                   IF r = First THEN [NoOrigin EXCEPT !.entry = "assistant"]
                                ELSE NoOrigin]
    /\ shown = [r \in Requests |-> NoDraft]
    /\ announced = [r \in Requests |-> {}]

(* A session in which First asked for a review too early and was refused.   *)
FreshInit ==
  /\ session = [status |-> "idle", review |-> NoDraft, committed |-> {}]
  /\ ckpt = [values |-> EmptyState, next |-> "END", interrupted |-> FALSE,
             writer |-> NoOne]
  /\ pc = [r \in Requests |-> IF r = First THEN "refused" ELSE "new"]
  /\ ask = [r \in Requests |-> IF r = First
              THEN [kind |-> "review", action |-> "approve", draft |-> NoDraft] ELSE NoAsk]
  /\ mem = [r \in Requests |-> EmptyState]
  /\ node = [r \in Requests |-> "END"]
  /\ prior = [r \in Requests |-> {}]
  /\ approved = {}
  /\ writes = {}
  /\ origin = [r \in Requests |-> NoOrigin]
  /\ shown = [r \in Requests |-> NoDraft]
  /\ announced = [r \in Requests |-> {}]

(* Bound: after the pending review, at most one turn fails or is lost.      *)
FewMishaps ==
  pc[First] = "done" => Cardinality({r \in Requests : pc[r] \in {"failed", "lost"}}) <= 1

MixedSpec == (FreshInit \/ PendingInit) /\ [][Next]_vars

PendingFairSpec == PendingInit /\ [][Next]_vars /\ Fairness
=============================================================================
