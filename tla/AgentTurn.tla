------------------------------ MODULE AgentTurn ------------------------------
(***************************************************************************)
(* One agent conversation: the session row of the registry, the LangGraph  *)
(* checkpoint of its thread, and the client requests (chat messages,       *)
(* direct skill runs, review decisions) whose turns run on it.             *)
(*                                                                         *)
(* The backend is one asyncio process.  A request runs between two awaits  *)
(* without interruption, and every await is a point where another request  *)
(* of the same conversation may run; each action below is one such piece.  *)
(* A turn loads the checkpoint once, works on its own copy (mem) and saves *)
(* a checkpoint after every node, so overlapping turns overwrite each      *)
(* other.  Draft contents are opaque.                                      *)
(***************************************************************************)
EXTENDS Naturals, FiniteSets

CONSTANTS
  Requests,                 \* client requests, each used at most once
  Drafts,                   \* contents of a proposal
  Entities,                 \* ids of the entities a write can touch
  NoDraft,                  \* the absent draft
  NoOne,                    \* the absent request
  MAX_GENERATION_ATTEMPTS,  \* generations of one proposal before clones drop
  MaxActive,                \* requests the clients keep in flight at once
  Faults                    \* whether clients disconnect and the process dies

ASSUME DraftAssumption == NoDraft \notin Drafts
ASSUME RequestAssumption == NoOne \notin Requests
ASSUME AttemptsAssumption == MAX_GENERATION_ATTEMPTS \in Nat \ {0}
ASSUME ActiveAssumption == MaxActive \in Nat \ {0}
ASSUME FaultsAssumption == Faults \in BOOLEAN

VARIABLES
  session,    \* the registry row: status, review snapshot, committed ids
  ckpt,       \* the latest checkpoint of the thread
  pc,         \* where each request is
  ask,        \* what each request asks for
  mem,        \* each turn's own copy of the graph state
  node,       \* the node each turn executes next
  prior,      \* session.committed as the turn read it when it began
  (* History: what happened, for stating properties; no guard reads these. *)
  approved,   \* approvals given, by the request that gave them
  writes,     \* writes to the world
  origin,     \* the thread as each turn found it, and the node it began at
  shown,      \* the review snapshot in the registry when an approval was given
  announced   \* ids each turn announced as committed

vars == <<session, ckpt, pc, ask, mem, node, prior,
          approved, writes, origin, shown, announced>>

history == <<approved, writes, origin, shown, announced>>
-----------------------------------------------------------------------------
Statuses == {"idle", "running", "awaiting_review", "committed", "rejected",
             "failed"}

MaybeDraft == Drafts \cup {NoDraft}
MaybeRequest == Requests \cup {NoOne}

(* The nodes of the graph; "END" is LangGraph's end of a run. *)
Nodes == {"assistant", "tools", "begin_changes", "retrieve_context",
          "brainstorm", "generate_changes", "validate_changes",
          "human_review", "commit", "END"}

(* Entry nodes a direct skill run can name; "none" is no kickoff. *)
SkillEntries == {"begin_changes", "brainstorm"}

(* The graph state, without texts and token counts: over_budget is whether *)
(* the spent tokens reached the budget, retry_feedback whether the text is *)
(* not empty.  grant is history: the request whose approval is in force.   *)
GraphState ==
  [skill_kickoff : SkillEntries \cup {"none"},
   draft : MaybeDraft,
   decision_action : {"none", "approve", "reject", "revise"},
   draft_committed : BOOLEAN,
   attempts : Nat,
   retry_feedback : BOOLEAN,
   over_budget : BOOLEAN,
   committed_entity_ids : SUBSET Entities,
   grant : MaybeRequest]

EmptyState ==
  [skill_kickoff |-> "none", draft |-> NoDraft, decision_action |-> "none",
   draft_committed |-> FALSE, attempts |-> 0, retry_feedback |-> FALSE,
   over_budget |-> FALSE, committed_entity_ids |-> {}, grant |-> NoOne]

(* Requests a client can send. *)
Messages == [kind : {"message"}]
SkillRuns == [kind : {"skill"}, skill : SkillEntries]
Reviews == [kind : {"review"}, action : {"approve", "reject", "revise"},
            draft : MaybeDraft]
NoAsk == [kind |-> "none"]
Asks == Messages \cup SkillRuns \cup Reviews

(* "guarded": the router's guard passed; "required": the runner's own check *)
(* passed; "starting": status set to running; "resuming": a review turn     *)
(* before its first node; "graph": between nodes; "applied": commit has     *)
(* written but its checkpoint is not saved; "finalizing", "reconciled" and  *)
(* "announcing" follow the end of the graph run.                            *)
InGraph == {"resuming", "graph", "applied"}

(* The runner's try block spans the event stream of the run to its very end: *)
(* at "finalizing" the last checkpoint is saved and the stream not yet left. *)
InStream == InGraph \cup {"finalizing"}
Active == {"guarded", "required", "starting", "finalizing", "reconciled",
           "announcing"} \cup InGraph
Ended == {"refused", "done", "failed", "lost"}

Writes == [by : Requests, grant : MaybeRequest, draft : MaybeDraft,
           touched : SUBSET Entities]

NoOrigin == [entry |-> "END", interrupted |-> FALSE, basis |-> NoOne]

TypeOK ==
  /\ session \in [status : Statuses, review : MaybeDraft,
                  committed : SUBSET Entities]
  /\ ckpt \in [values : GraphState, next : Nodes, interrupted : BOOLEAN,
               writer : MaybeRequest]
  /\ pc \in [Requests -> {"new"} \cup Active \cup Ended]
  /\ ask \in [Requests -> Asks \cup {NoAsk}]
  /\ mem \in [Requests -> GraphState]
  /\ node \in [Requests -> Nodes]
  /\ prior \in [Requests -> SUBSET Entities]
  /\ approved \in SUBSET [by : Requests, draft : MaybeDraft]
  /\ writes \in SUBSET Writes
  /\ origin \in [Requests -> [entry : Nodes, interrupted : BOOLEAN,
                              basis : MaybeRequest]]
  /\ shown \in [Requests -> MaybeDraft]
  /\ announced \in [Requests -> SUBSET Entities]

Init ==
  /\ session = [status |-> "idle", review |-> NoDraft, committed |-> {}]
  /\ ckpt = [values |-> EmptyState, next |-> "END", interrupted |-> FALSE,
             writer |-> NoOne]
  /\ pc = [r \in Requests |-> "new"]
  /\ ask = [r \in Requests |-> NoAsk]
  /\ mem = [r \in Requests |-> EmptyState]
  /\ node = [r \in Requests |-> "END"]
  /\ prior = [r \in Requests |-> {}]
  /\ approved = {}
  /\ writes = {}
  /\ origin = [r \in Requests |-> NoOrigin]
  /\ shown = [r \in Requests |-> NoDraft]
  /\ announced = [r \in Requests |-> {}]
-----------------------------------------------------------------------------
(* Receiving a request *)

Goto(r, label) == pc' = [pc EXCEPT ![r] = label]

(* A request is over; its turn's own state goes with it. *)
Leave(r, label) ==
  /\ Goto(r, label)
  /\ mem' = [mem EXCEPT ![r] = EmptyState]
  /\ node' = [node EXCEPT ![r] = "END"]
  /\ prior' = [prior EXCEPT ![r] = {}]

(* Variant, to test ProposalWrittenOnce: a review is let in at any time.    *)
Admissible_AnyReview(kind, status) ==
  kind # "review" => status # "awaiting_review"

(* A review needs a session awaiting one; anything else needs the opposite. *)
Admissible(kind, status) ==
  IF kind = "review" THEN status = "awaiting_review"
                     ELSE status # "awaiting_review"

(* A request reaches the router, whose guard dependency reads the session. *)
Arrive(r, a) ==
  /\ pc[r] = "new"
  /\ Cardinality({q \in Requests : pc[q] \in Active}) < MaxActive
  /\ ask' = [ask EXCEPT ![r] = a]
  /\ Goto(r, IF Admissible(a.kind, session.status) THEN "guarded"
                                                   ELSE "refused")
  /\ UNCHANGED <<session, ckpt, mem, node, prior, history>>

(* The runner reads the session again and repeats the check. *)
RequireSession(r) ==
  /\ pc[r] = "guarded"
  /\ IF Admissible(ask[r].kind, session.status)
     THEN /\ prior' = [prior EXCEPT ![r] = session.committed]
          /\ Goto(r, "required")
          /\ UNCHANGED <<mem, node>>
     ELSE Leave(r, "refused")
  /\ UNCHANGED <<session, ckpt, ask, history>>

StartTurn(r) ==
  /\ pc[r] = "required"
  /\ session' = [session EXCEPT !.status = "running"]
  /\ Goto(r, "starting")
  /\ UNCHANGED <<ckpt, ask, mem, node, prior, history>>

(* A message or a skill run resets the outcome of the previous turn. *)
TurnInput(a, v) ==
  [v EXCEPT !.decision_action = "none", !.draft_committed = FALSE,
            !.skill_kickoff = IF a.kind = "skill" THEN a.skill ELSE @]

RouteEntry(v) ==
  IF v.skill_kickoff = "none" THEN "assistant" ELSE v.skill_kickoff

Remember(r, entry) ==
  origin' = [origin EXCEPT ![r] = [entry |-> entry,
                                   interrupted |-> ckpt.interrupted,
                                   basis |-> ckpt.writer]]

(* A new input abandons whatever the thread was in the middle of. *)
LoadForInput(r) ==
  LET v == TurnInput(ask[r], ckpt.values)
      entry == RouteEntry(v)
  IN  /\ pc[r] = "starting"
      /\ ask[r].kind # "review"
      /\ mem' = [mem EXCEPT ![r] = v]
      /\ node' = [node EXCEPT ![r] = entry]
      /\ ckpt' = [values |-> v, next |-> entry, interrupted |-> FALSE,
                  writer |-> r]
      /\ Remember(r, entry)
      /\ Goto(r, "graph")
      /\ UNCHANGED <<session, ask, prior, approved, writes, shown,
                     announced>>

(* A resume command continues at the node the checkpoint names. *)
LoadForReview(r) ==
  /\ pc[r] = "starting"
  /\ ask[r].kind = "review"
  /\ mem' = [mem EXCEPT ![r] = ckpt.values]
  /\ node' = [node EXCEPT ![r] = ckpt.next]
  /\ Remember(r, ckpt.next)
  /\ Goto(r, IF ckpt.next = "END" THEN "finalizing" ELSE "resuming")
  /\ UNCHANGED <<session, ckpt, ask, prior, approved, writes, shown,
                 announced>>
-----------------------------------------------------------------------------
(* The nodes of the graph *)

At(r, n) == pc[r] \in {"resuming", "graph"} /\ node[r] = n

(* A node returned: its update is merged, the next node chosen, and the     *)
(* result saved as the thread's latest checkpoint.                          *)
Superstep(r, next, v) ==
  /\ mem' = [mem EXCEPT ![r] = v]
  /\ node' = [node EXCEPT ![r] = next]
  /\ ckpt' = [values |-> v, next |-> next, interrupted |-> FALSE,
              writer |-> r]
  /\ Goto(r, IF next = "END" THEN "finalizing" ELSE "graph")
  /\ UNCHANGED <<session, ask, prior, origin, announced>>

ReadOnly == UNCHANGED <<approved, writes, shown>>

(* A model call may spend the budget; it never frees any. *)
Spend(v) == {[v EXCEPT !.over_budget = b] : b \in {v.over_budget, TRUE}}

(* Past the budget the reply is canned and asks for no tool. *)
Assistant(r) ==
  /\ At(r, "assistant")
  /\ \/ /\ mem[r].over_budget
        /\ Superstep(r, "END", mem[r])
     \/ /\ ~mem[r].over_budget
        /\ \E v \in Spend(mem[r]),
              next \in {"END", "tools"} \cup SkillEntries :
             Superstep(r, next, v)
  /\ ReadOnly

Tools(r) ==
  /\ At(r, "tools")
  /\ Superstep(r, "assistant", mem[r])
  /\ ReadOnly

Brainstorm(r) ==
  /\ At(r, "brainstorm")
  /\ \E v \in Spend(mem[r]) :
       Superstep(r, "END", [v EXCEPT !.skill_kickoff = "none"])
  /\ ReadOnly

(* A new proposal starts from nothing an earlier one left behind. *)
FreshProposal(v) ==
  [v EXCEPT !.skill_kickoff = "none", !.draft = NoDraft, !.attempts = 0,
            !.retry_feedback = FALSE, !.draft_committed = FALSE,
            !.decision_action = "none"]

BeginChanges(r) ==
  /\ At(r, "begin_changes")
  /\ Superstep(r, "retrieve_context", FreshProposal(mem[r]))
  /\ ReadOnly

RetrieveContext(r) ==
  /\ At(r, "retrieve_context")
  /\ Superstep(r, "generate_changes", mem[r])
  /\ ReadOnly

(* Past the budget the draft stays as it is, but the attempt counts. *)
GenerateChanges(r) ==
  /\ At(r, "generate_changes")
  /\ LET counted == [mem[r] EXCEPT !.attempts = @ + 1,
                                   !.retry_feedback = FALSE]
     IN  \/ /\ mem[r].over_budget
            /\ Superstep(r, "validate_changes", counted)
         \/ /\ ~mem[r].over_budget
            /\ \E d \in Drafts, v \in Spend(counted) :
                 Superstep(r, "validate_changes", [v EXCEPT !.draft = d])
  /\ ReadOnly

(* Whether a draft that copies existing entities is sent back. *)
MayRetry(v) == v.attempts < MAX_GENERATION_ATTEMPTS

RouteAfterValidate(v) ==
  IF v.retry_feedback /\ v.attempts < MAX_GENERATION_ATTEMPTS
  THEN "generate_changes" ELSE "human_review"

(* No draft: nothing to check.  Otherwise clones are sent back while the    *)
(* attempts last; after that they, and the other invalid parts, are dropped,*)
(* which leaves some draft.                                                 *)
ValidateChanges(r) ==
  LET Leaves(v) == Superstep(r, RouteAfterValidate(v), v)
  IN  /\ At(r, "validate_changes")
      /\ \/ /\ mem[r].draft = NoDraft
            /\ Leaves(mem[r])
         \/ /\ mem[r].draft # NoDraft
            /\ MayRetry(mem[r])
            /\ Leaves([mem[r] EXCEPT !.retry_feedback = TRUE])
         \/ /\ mem[r].draft # NoDraft
            /\ \E d \in Drafts, v \in Spend(mem[r]) :
                 Leaves([v EXCEPT !.draft = d, !.attempts = @ + 1])
      /\ ReadOnly

RouteAfterReview(v) ==
  IF v.decision_action = "revise" THEN "generate_changes" ELSE "commit"

(* Variant, to test RegenerationIsSettled: a revision keeps the attempts used. *)
Decided_KeepsAttempts(v, r, a) ==
  [v EXCEPT !.decision_action = a.action,
            !.draft = IF a.draft = NoDraft THEN @ ELSE a.draft,
            !.grant = IF a.action = "approve" THEN r ELSE NoOne]

(* The state after the decision a: the content a names wins over the draft. *)
Decided(v, r, a) ==
  [v EXCEPT !.decision_action = a.action,
            !.draft = IF a.draft = NoDraft THEN @ ELSE a.draft,
            !.attempts = IF a.action = "revise" THEN 0 ELSE @,
            !.grant = IF a.action = "approve" THEN r ELSE NoOne]

(* Nothing to review: the gate is passed with no decision. *)
ReviewNothing(r) ==
  LET v == [mem[r] EXCEPT !.decision_action = "none", !.grant = NoOne]
  IN  /\ At(r, "human_review")
      /\ mem[r].draft = NoDraft
      /\ Superstep(r, RouteAfterReview(v), v)
      /\ ReadOnly

(* The gate: the run stops here.  The interrupt is stored with the          *)
(* checkpoint this turn saved last, unseen if another turn saved one since. *)
Interrupt(r) ==
  /\ pc[r] = "graph"
  /\ node[r] = "human_review"
  /\ mem[r].draft # NoDraft
  /\ ckpt' = [ckpt EXCEPT !.interrupted = @ \/ ckpt.writer = r]
  /\ Goto(r, "finalizing")
  /\ UNCHANGED <<session, ask, mem, node, prior, history>>

(* The gate, resumed with the game master's decision. *)
Decide(r) ==
  LET v == Decided(mem[r], r, ask[r])
  IN  /\ pc[r] = "resuming"
      /\ node[r] = "human_review"
      /\ mem[r].draft # NoDraft
      /\ Superstep(r, RouteAfterReview(v), v)
      /\ IF ask[r].action = "approve"
         THEN /\ approved' = approved \cup {[by |-> r, draft |-> v.draft]}
              /\ shown' = [shown EXCEPT ![r] = session.review]
         ELSE UNCHANGED <<approved, shown>>
      /\ UNCHANGED writes
-----------------------------------------------------------------------------
(* The commit node *)

(* Variant, to test the gate: any draft that reaches the commit is written. *)
Approves_AnyDraft(v) == v.draft # NoDraft

Approves(v) == v.decision_action = "approve" /\ v.draft # NoDraft

(* Already committed, rejected, without a draft, or (when the world moved   *)
(* on since the review) refused by the preflight: nothing is written.       *)
CommitNothing(r) ==
  /\ At(r, "commit")
  /\ \/ /\ mem[r].draft_committed
        /\ Superstep(r, "END", mem[r])
     \/ /\ ~mem[r].draft_committed
        /\ Superstep(r, "END", [mem[r] EXCEPT !.draft = NoDraft])
  /\ ReadOnly

Applied(r, touched) ==
  writes' = writes \cup {[by |-> r, grant |-> mem[r].grant,
                          draft |-> mem[r].draft, touched |-> touched]}

(* Variant, to test GateSpec: the write does not end the node.              *)
CommitApplies_Again(r) ==
  /\ At(r, "commit")
  /\ ~mem[r].draft_committed
  /\ Approves(mem[r])
  /\ \E touched \in SUBSET Entities : Applied(r, touched)
  /\ UNCHANGED <<session, ckpt, pc, ask, mem, node, prior, approved, origin,
                 shown, announced>>

(* The approved content is written; touched are the ids it created and the  *)
(* ids it patched, so an id touched by two writes is patched by the second. *)
CommitApplies(r) ==
  /\ At(r, "commit")
  /\ ~mem[r].draft_committed
  /\ Approves(mem[r])
  /\ \E touched \in SUBSET Entities : Applied(r, touched)
  /\ Goto(r, "applied")
  /\ UNCHANGED <<session, ckpt, ask, mem, node, prior, approved, origin,
                 shown, announced>>

(* A write fails after touching some entities; what could not be undone     *)
(* stays, and the node raises.                                              *)
CommitRaises(r) ==
  /\ At(r, "commit")
  /\ ~mem[r].draft_committed
  /\ Approves(mem[r])
  /\ \E touched \in SUBSET Entities : Applied(r, touched)
  /\ session' = [session EXCEPT !.status = "failed"]
  /\ Leave(r, "failed")
  /\ UNCHANGED <<ckpt, ask, approved, origin, shown, announced>>

Touched(r) == UNION {w.touched : w \in {x \in writes : x.by = r}}

(* Variant, to test WritesAreAccounted: only the latest ids are kept.    *)
CommitSaved_Replaces(r) ==
  /\ pc[r] = "applied"
  /\ Superstep(r, "END",
               [mem[r] EXCEPT !.draft = NoDraft, !.draft_committed = TRUE,
                              !.committed_entity_ids = Touched(r)])
  /\ ReadOnly

CommitSaved(r) ==
  /\ pc[r] = "applied"
  /\ Superstep(r, "END",
               [mem[r] EXCEPT !.draft = NoDraft, !.draft_committed = TRUE,
                              !.committed_entity_ids = @ \cup Touched(r)])
  /\ ReadOnly
-----------------------------------------------------------------------------
(* The end of a turn *)

(* The first of the two reads that reconcile registry and checkpoint. *)
ReadState(r) ==
  /\ pc[r] = "finalizing"
  /\ mem' = [mem EXCEPT ![r] = ckpt.values]
  /\ Goto(r, "reconciled")
  /\ UNCHANGED <<session, ckpt, ask, node, prior, history>>

(* Variant, to test TypeOK: the decision is taken for the status.           *)
Outcome_Decision(v) ==
  IF v.draft_committed THEN "committed" ELSE v.decision_action

Outcome(v) ==
  IF v.draft_committed THEN "committed"
  ELSE IF v.decision_action = "reject" THEN "rejected" ELSE "idle"

(* Variant, to test ApprovedWasShown: a snapshot once taken is kept.        *)
ReconcilePending_KeepsReview(r) ==
  /\ pc[r] = "reconciled"
  /\ ckpt.interrupted
  /\ session' = [session EXCEPT !.status = "awaiting_review",
                    !.review = IF @ = NoDraft THEN mem[r].draft ELSE @]
  /\ Leave(r, "done")
  /\ UNCHANGED <<ckpt, ask, history>>

(* The second read finds the interrupt: the session awaits a review. *)
ReconcilePending(r) ==
  /\ pc[r] = "reconciled"
  /\ ckpt.interrupted
  /\ session' = [session EXCEPT !.status = "awaiting_review",
                                !.review = mem[r].draft]
  /\ Leave(r, "done")
  /\ UNCHANGED <<ckpt, ask, history>>

(* Variant, to test RegistryMatchesThread: the snapshot is not cleared.     *)
ReconcileResolved_KeepsReview(r) ==
  /\ pc[r] = "reconciled"
  /\ ~ckpt.interrupted
  /\ session' = [session EXCEPT !.status = Outcome(mem[r]),
                                !.committed = mem[r].committed_entity_ids]
  /\ IF mem[r].draft_committed
     THEN Goto(r, "announcing") /\ UNCHANGED <<mem, node, prior>>
     ELSE Leave(r, "done")
  /\ UNCHANGED <<ckpt, ask, history>>

ReconcileResolved(r) ==
  /\ pc[r] = "reconciled"
  /\ ~ckpt.interrupted
  /\ session' = [status |-> Outcome(mem[r]), review |-> NoDraft,
                 committed |-> mem[r].committed_entity_ids]
  /\ IF mem[r].draft_committed
     THEN Goto(r, "announcing") /\ UNCHANGED <<mem, node, prior>>
     ELSE Leave(r, "done")
  /\ UNCHANGED <<ckpt, ask, history>>

(* Publish and push the ids this turn is taken to have committed. *)
Announce(r) ==
  /\ pc[r] = "announcing"
  /\ announced' = [announced EXCEPT
                     ![r] = mem[r].committed_entity_ids \ prior[r]]
  /\ Leave(r, "done")
  /\ UNCHANGED <<session, ckpt, ask, approved, writes, origin, shown>>

(* The event stream ends in an exception: the session is marked failed and  *)
(* the checkpoint stays at the last node that returned, be it the commit.   *)
Fail(r) ==
  /\ session' = [session EXCEPT !.status = "failed"]
  /\ Leave(r, "failed")
  /\ UNCHANGED <<ckpt, ask, history>>

(* A node, or saving its checkpoint, raises. *)
NodeError(r) == pc[r] \in InStream /\ Fail(r)

(* Variant, to test TurnsEnd: the ceiling is noticed, the run goes on.      *)
Timeout_Noted(r) ==
  /\ pc[r] \in InStream
  /\ session' = [session EXCEPT !.status = "failed"]
  /\ UNCHANGED <<ckpt, pc, ask, mem, node, prior, history>>

(* The wall-clock ceiling of a turn. *)
Timeout(r) == pc[r] \in InStream /\ Fail(r)

(* The client disconnects while the turn waits for the event stream. *)
Cancel(r) == Faults /\ pc[r] \in InStream /\ Fail(r)

(* The client disconnects while the turn waits anywhere else: at a yield of *)
(* the stream, or before or after the graph run; no handler runs.  A handler *)
(* whose own update fails, on the database session a failed commit broke,   *)
(* leaves the same state behind.                                            *)
Abandon(r) ==
  /\ Faults
  /\ pc[r] \in Active
  /\ Leave(r, "lost")
  /\ UNCHANGED <<session, ckpt, ask, history>>

(* The process dies and starts again; nothing at startup looks at sessions. *)
Crash ==
  /\ Faults
  /\ \E r \in Requests : pc[r] \in Active
  /\ pc' = [r \in Requests |-> IF pc[r] \in Active THEN "lost" ELSE pc[r]]
  /\ mem' = [r \in Requests |-> EmptyState]
  /\ node' = [r \in Requests |-> "END"]
  /\ prior' = [r \in Requests |-> {}]
  /\ UNCHANGED <<session, ckpt, ask, history>>

(* Every request has been dealt with. *)
Quiet ==
  /\ \A r \in Requests : pc[r] \in Ended
  /\ UNCHANGED vars
-----------------------------------------------------------------------------
GraphStep(r) ==
  \/ Assistant(r) \/ Tools(r) \/ Brainstorm(r)
  \/ BeginChanges(r) \/ RetrieveContext(r)
  \/ GenerateChanges(r) \/ ValidateChanges(r)
  \/ ReviewNothing(r) \/ Interrupt(r) \/ Decide(r)
  \/ CommitNothing(r) \/ CommitApplies(r) \/ CommitRaises(r)
  \/ CommitSaved(r)

(* The pieces of a turn outside the graph run. *)
RunnerStep(r) ==
  \/ RequireSession(r) \/ StartTurn(r)
  \/ LoadForInput(r) \/ LoadForReview(r)
  \/ ReadState(r) \/ ReconcilePending(r) \/ ReconcileResolved(r)
  \/ Announce(r)

Next ==
  \/ \E r \in Requests :
       \/ \E a \in Asks : Arrive(r, a)
       \/ RunnerStep(r)
       \/ GraphStep(r)
       \/ NodeError(r) \/ Timeout(r) \/ Cancel(r) \/ Abandon(r)
  \/ Crash
  \/ Quiet

Spec == Init /\ [][Next]_vars

(* The event loop runs every ready piece of the runner, and the ceiling on  *)
(* a turn's wall-clock time is reached if the event stream does not end     *)
(* before.  Clients owe nothing, and a graph run need not end by itself.    *)
Fairness ==
  \A r \in Requests : WF_vars(RunnerStep(r)) /\ WF_vars(Timeout(r))

FairSpec == Spec /\ Fairness
-----------------------------------------------------------------------------
(* Properties *)

(* The human gate: whatever a turn wrote is the content the game master     *)
(* approved in the request the turn acted for, however turns overlap, fail  *)
(* and restart (commit's decision check, human_review, begin_changes).      *)
OnlyApprovedIsWritten ==
  \A w \in writes : [by |-> w.grant, draft |-> w.draft] \in approved

(* The same promise as a refinement: approvals and writes behave as the     *)
(* abstract gate, one write per turn, nothing taken back.                   *)
Gate == INSTANCE ReviewGate WITH approved <- approved, writes <- writes
GateSpec == Gate!Spec

(* Why the gate holds, as an inductive invariant: a commit about to write,  *)
(* in a running turn or in the checkpoint a review will resume, carries the *)
(* approval in force; approving and writing lie behind a turn's position,   *)
(* so neither happens twice.                                                *)
Granted(v) == [by |-> v.grant, draft |-> v.draft] \in approved

BeforeDecision == {"new", "guarded", "required", "starting", "resuming"}

GateInv ==
  /\ OnlyApprovedIsWritten
  /\ \A r \in Requests : At(r, "commit") /\ Approves(mem[r]) => Granted(mem[r])
  /\ ckpt.next = "commit" /\ Approves(ckpt.values) => Granted(ckpt.values)
  /\ \A a \in approved : pc[a.by] \notin BeforeDecision
  /\ \A w \in writes : pc[w.by] \notin BeforeDecision \cup {"graph"}

(* The clone-retry loop between generate_changes and validate_changes ends: *)
(* a generation never begins with the attempts of its proposal used up.     *)
BoundedRegeneration ==
  \A r \in Requests :
    At(r, "generate_changes") => mem[r].attempts < MAX_GENERATION_ATTEMPTS

(* Feedback about clones is consumed by the retry it asks for: a proposal   *)
(* never reaches the game master with a retry still owed.                   *)
NoRetryOwedAtReview ==
  \A r \in Requests :
    At(r, "human_review") => ~mem[r].retry_feedback

(* A proposal that is a clone is bounced back and no more often than that:   *)
(* the loop over generate_changes and validate_changes never starts a round *)
(* beyond its attempts, and never leaves one owed to the game master, over  *)
(* retries, revisions and checkpoints (route_after_validate).               *)
RegenerationIsSettled == BoundedRegeneration /\ NoRetryOwedAtReview

NobodyActive == \A r \in Requests : pc[r] \notin Active

(* Between turns the registry and the checkpoint tell the same story: a     *)
(* session that awaits a review shows the very draft the thread stopped at, *)
(* and a settled session hides no pending review (_finalize).               *)
RegistryMatchesThread ==
  NobodyActive =>
    /\ session.status = "awaiting_review" =>
         /\ ckpt.interrupted
         /\ session.review = ckpt.values.draft
         /\ session.review # NoDraft
    /\ session.status \in {"idle", "committed", "rejected"} =>
         /\ ~ckpt.interrupted
         /\ session.review = NoDraft

(* A plain approval approves what the review card showed: the registry's    *)
(* snapshot, not some other draft the thread has reached since.             *)
ApprovedWasShown ==
  \A r \in Requests, d \in Drafts :
    [by |-> r, draft |-> d] \in approved /\ ask[r].draft = NoDraft
      => shown[r] = d

(* One proposal is written at most once: no two writes go back to the same  *)
(* review round, which is named by the turn that stopped at the gate.       *)
ProposalWrittenOnce ==
  \A v, w \in writes : origin[v.grant].basis = origin[w.grant].basis => v = w

(* What turns wrote that failed or were lost, after the commit too: what    *)
(* they never told of is not told as theirs.                                *)
Broken(r) == pc[r] \in {"failed", "lost"}
LeftBehind == UNION {Touched(r) : r \in {q \in Requests : Broken(q)}}

(* No id is announced by two turns, and a turn announces only what it wrote *)
(* itself or what a turn left behind that failed or was lost.               *)
AnnouncedOnce ==
  /\ \A q, r \in Requests : announced[q] \cap announced[r] # {} => q = r
  /\ \A r \in Requests : announced[r] \subseteq Touched(r) \cup LeftBehind

(* What is committed is never forgotten by the conversation, nor passed     *)
(* over: the ids a finished turn wrote are in the registry's list for good, *)
(* and have been announced, by it or, when they were in the list before, by *)
(* another; only those also left behind by a broken turn may never be.      *)
CommittedIsTold ==
  \A w \in writes : pc[w.by] = "done" =>
    /\ w.touched \subseteq session.committed
    /\ w.touched \subseteq LeftBehind \cup UNION {announced[r] : r \in Requests}

(* Every write of a client that waits for its answers is put to one account *)
(* of the conversation, however its turns end (_finalize, prior_committed). *)
(* A later write to the same id is not announced again, and a turn that     *)
(* fails once its commit is in the checkpoint leaves its ids to the next.   *)
WritesAreAccounted == AnnouncedOnce /\ CommittedIsTold

(* A turn ends: every request that was let in is answered, fails, or is     *)
(* lost with its client.                                                    *)
TurnsEnd == \A r \in Requests : pc[r] = "guarded" ~> pc[r] \in Ended
-----------------------------------------------------------------------------
(* What comments in the code say and the code does not keep. *)

(* A kickoff is one-shot: a chat message is answered by the assistant, not  *)
(* by the skill of an earlier request.                                      *)
KickoffIsOneShot ==
  \A r \in Requests :
    ask[r].kind = "message" /\ pc[r] \in InStream
      => origin[r].entry = "assistant"

(* A message never starts a turn on a thread that stopped at the gate.      *)
MessageSparesPendingReview ==
  \A r \in Requests : origin[r].interrupted => ask[r].kind = "review"

(* A review turn runs only while the session awaits the review.             *)
ReviewStartsOnlyWhileAwaiting ==
  [][\A r \in Requests :
       pc[r] = "required" /\ pc'[r] = "starting" /\ ask[r].kind = "review"
         => session.status = "awaiting_review"]_vars

(* A turn that committed announces everything it wrote.                     *)
EveryChangeAnnounced ==
  \A r \in Requests :
    pc[r] = "done" /\ (\E w \in writes : w.by = r) =>
      Touched(r) \subseteq announced[r]
=============================================================================
