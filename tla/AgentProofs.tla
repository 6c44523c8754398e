---------------------------- MODULE AgentProofs ----------------------------
(***************************************************************************)
(* Theorems about the agent.                                               *)
(*                                                                         *)
(* AgentTurn, for any number of requests, drafts, entities and generation  *)
(* attempts, with or without faults: types, the loop of regenerations and  *)
(* the human gate, however turns overlap, fail and are lost; and, where    *)
(* the client waits for each answer, what one turn hands over to the next  *)
(* through the registry and the checkpoint.                                *)
(*                                                                         *)
(* StructuredCall, for any strategies, answers and refusals, any costs and *)
(* any limits; ProposalCheck, for any world, drafts, rewrites and titles.  *)
(***************************************************************************)
EXTENDS AgentTurn, StructuredCall, ProposalCheck, FiniteSetTheorems, TLAPS

(* Everything of TypeOK that a superstep of the graph can disturb. *)
LEMMA SuperstepType ==
  ASSUME TypeOK, NEW r \in Requests, NEW next \in Nodes,
         NEW v \in GraphState, Superstep(r, next, v),
         approved' \in SUBSET [by : Requests, draft : MaybeDraft],
         writes' \in SUBSET Writes,
         shown' \in [Requests -> MaybeDraft]
  PROVE  TypeOK'
<1>1. pc' \in [Requests -> {"new"} \cup Active \cup Ended]
  BY DEF TypeOK, Superstep, Goto, Active, InGraph
<1>2. mem' \in [Requests -> GraphState] /\ node' \in [Requests -> Nodes]
  BY DEF TypeOK, Superstep
<1>3. ckpt' \in [values : GraphState, next : Nodes, interrupted : BOOLEAN,
                 writer : MaybeRequest]
  BY DEF Superstep, MaybeRequest
<1>4. QED
  BY <1>1, <1>2, <1>3 DEF TypeOK, Superstep

LEMMA ReadOnlyStepType ==
  ASSUME TypeOK, NEW r \in Requests, NEW next \in Nodes,
         NEW v \in GraphState, Superstep(r, next, v), ReadOnly
  PROVE  TypeOK'
BY SuperstepType DEF TypeOK, ReadOnly

LEMMA EmptyStateType == EmptyState \in GraphState
BY DEF EmptyState, GraphState, MaybeDraft, MaybeRequest, SkillEntries

(* Leaving a request keeps its variables in their types. *)
LEMMA LeaveType ==
  ASSUME TypeOK, NEW r \in Requests, NEW label \in Ended, Leave(r, label)
  PROVE  /\ pc' \in [Requests -> {"new"} \cup Active \cup Ended]
         /\ mem' \in [Requests -> GraphState]
         /\ node' \in [Requests -> Nodes]
         /\ prior' \in [Requests -> SUBSET Entities]
BY EmptyStateType DEF TypeOK, Leave, Goto, Nodes

LEMMA SpendType ==
  ASSUME NEW u \in GraphState, NEW v \in Spend(u)
  PROVE  v \in GraphState
BY DEF Spend, GraphState

(* What the game master's decision makes of a state. *)
LEMMA DecidedType ==
  ASSUME NEW v \in GraphState, NEW r \in Requests, NEW a \in Reviews
  PROVE  Decided(v, r, a) \in GraphState
<1>1. a.action \in {"approve", "reject", "revise"} /\ a.draft \in MaybeDraft
  BY DEF Reviews
<1>2. QED
  BY <1>1 DEF Decided, GraphState, MaybeRequest

LEMMA InitType == Init => TypeOK
<1> SUFFICES ASSUME Init PROVE TypeOK
  OBVIOUS
<1>1. ckpt \in [values : GraphState, next : Nodes, interrupted : BOOLEAN,
                writer : MaybeRequest]
  BY EmptyStateType DEF Init, Nodes, MaybeRequest
<1>2. origin \in [Requests -> [entry : Nodes, interrupted : BOOLEAN,
                               basis : MaybeRequest]]
  BY DEF Init, NoOrigin, Nodes, MaybeRequest
<1>3. QED
  BY <1>1, <1>2, EmptyStateType
     DEF Init, TypeOK, Statuses, MaybeDraft, Nodes, Writes

(* One lemma per group of actions: the type invariant is preserved. *)
LEMMA AdmissionType ==
  ASSUME TypeOK, NEW r \in Requests,
         \/ \E a \in Asks : Arrive(r, a)
         \/ RequireSession(r)
         \/ StartTurn(r)
  PROVE  TypeOK'
<1>1. CASE \E a \in Asks : Arrive(r, a)
  BY <1>1 DEF TypeOK, Arrive, Goto, history, Active, Ended
<1>2. CASE RequireSession(r)
  <2>1. CASE Admissible(ask[r].kind, session.status)
    BY <1>2, <2>1 DEF TypeOK, RequireSession, Goto, history, Active
  <2>2. CASE ~Admissible(ask[r].kind, session.status)
    <3>1. Leave(r, "refused")
      BY <1>2, <2>2 DEF RequireSession
    <3>2. QED
      BY <1>2, <3>1, LeaveType DEF TypeOK, RequireSession, history, Ended
  <2>3. QED
    BY <2>1, <2>2
<1>3. CASE StartTurn(r)
  BY <1>3 DEF TypeOK, StartTurn, Goto, history, Active, Statuses
<1>4. QED
  BY <1>1, <1>2, <1>3

LEMMA TurnInputType ==
  ASSUME NEW v \in GraphState, NEW a \in Asks, a.kind # "review"
  PROVE  /\ TurnInput(a, v) \in GraphState
         /\ RouteEntry(TurnInput(a, v)) \in Nodes
<1>1. a.kind = "skill" => a.skill \in SkillEntries
  BY DEF Asks, Messages, SkillRuns, Reviews
<1>2. TurnInput(a, v) \in GraphState
  BY <1>1 DEF TurnInput, GraphState
<1>3. QED
  BY <1>2 DEF RouteEntry, GraphState, SkillEntries, Nodes

(* A request past the router asks for something, and only a review resumes. *)
AskedOK ==
  \A r \in Requests :
    /\ pc[r] # "new" => ask[r] \in Asks
    /\ pc[r] = "resuming" => ask[r] \in Reviews

LEMMA LoadType ==
  ASSUME TypeOK, AskedOK, NEW r \in Requests,
         LoadForInput(r) \/ LoadForReview(r)
  PROVE  TypeOK'
<1>1. CASE LoadForInput(r)
  <2> DEFINE v == TurnInput(ask[r], ckpt.values)
             entry == RouteEntry(v)
  <2>1. /\ ask[r] \in Asks
        /\ ask[r].kind # "review"
        /\ ckpt.values \in GraphState
    <3>1. pc[r] = "starting" /\ ask[r].kind # "review"
      BY <1>1 DEF LoadForInput
    <3>2. ckpt.values \in GraphState
      BY DEF TypeOK
    <3>3. QED
      BY <3>1, <3>2 DEF AskedOK
  <2>2. v \in GraphState /\ entry \in Nodes
    BY <2>1, TurnInputType
  <2> HIDE DEF v, entry
  <2>3. /\ mem' = [mem EXCEPT ![r] = v]
        /\ node' = [node EXCEPT ![r] = entry]
        /\ ckpt' = [values |-> v, next |-> entry, interrupted |-> FALSE,
                    writer |-> r]
        /\ origin' = [origin EXCEPT ![r] =
                        [entry |-> entry, interrupted |-> ckpt.interrupted,
                         basis |-> ckpt.writer]]
        /\ pc' = [pc EXCEPT ![r] = "graph"]
        /\ UNCHANGED <<session, ask, prior, approved, writes, shown,
                       announced>>
    BY <1>1 DEF LoadForInput, Remember, Goto, v, entry
  <2>4. ckpt' \in [values : GraphState, next : Nodes, interrupted : BOOLEAN,
                   writer : MaybeRequest]
    BY <2>2, <2>3 DEF MaybeRequest
  <2>5. origin' \in [Requests -> [entry : Nodes, interrupted : BOOLEAN,
                                  basis : MaybeRequest]]
    BY <2>2, <2>3 DEF TypeOK
  <2>6. QED
    BY <2>2, <2>3, <2>4, <2>5 DEF TypeOK, Active, InGraph
<1>2. CASE LoadForReview(r)
  BY <1>2 DEF TypeOK, LoadForReview, Remember, Goto, Active, InGraph
<1>3. QED
  BY <1>1, <1>2

LEMMA ConversationStepType ==
  ASSUME TypeOK, NEW r \in Requests,
         \/ Assistant(r) \/ Tools(r) \/ Brainstorm(r)
         \/ BeginChanges(r) \/ RetrieveContext(r)
  PROVE  TypeOK'
<1> mem[r] \in GraphState
  BY DEF TypeOK
<1>1. CASE Assistant(r)
  <2>1. CASE Superstep(r, "END", mem[r])
    BY <1>1, <2>1, ReadOnlyStepType DEF Assistant, Nodes
  <2>2. ASSUME NEW v \in Spend(mem[r]),
               NEW next \in {"END", "tools"} \cup SkillEntries,
               Superstep(r, next, v)
        PROVE  TypeOK'
    BY <1>1, <2>2, SpendType, ReadOnlyStepType
       DEF Assistant, Nodes, SkillEntries
  <2>3. QED
    BY <1>1, <2>1, <2>2 DEF Assistant
<1>2. CASE Tools(r)
  BY <1>2, ReadOnlyStepType DEF Tools, Nodes
<1>3. CASE Brainstorm(r)
  <2>1. PICK v \in Spend(mem[r]) :
          Superstep(r, "END", [v EXCEPT !.skill_kickoff = "none"])
    BY <1>3 DEF Brainstorm
  <2>2. [v EXCEPT !.skill_kickoff = "none"] \in GraphState
    BY SpendType DEF GraphState
  <2>3. QED
    BY <1>3, <2>1, <2>2, ReadOnlyStepType DEF Brainstorm, Nodes
<1>4. CASE BeginChanges(r)
  <2>1. FreshProposal(mem[r]) \in GraphState
    BY DEF FreshProposal, GraphState, MaybeDraft
  <2>2. QED
    BY <1>4, <2>1, ReadOnlyStepType DEF BeginChanges, Nodes
<1>5. CASE RetrieveContext(r)
  BY <1>5, ReadOnlyStepType DEF RetrieveContext, Nodes
<1>6. QED
  BY <1>1, <1>2, <1>3, <1>4, <1>5

(* The states a generation or a validation can leave are states. *)
LEMMA ValidatedType ==
  ASSUME NEW u \in GraphState, NEW d \in Drafts, NEW v \in Spend(u)
  PROVE  /\ [v EXCEPT !.draft = d, !.attempts = @ + 1] \in GraphState
         /\ [v EXCEPT !.draft = d] \in GraphState
<1>1. v \in GraphState
  BY SpendType
<1>2. v.attempts + 1 \in Nat /\ d \in MaybeDraft
  BY <1>1 DEF GraphState, MaybeDraft
<1>3. QED
  BY <1>1, <1>2 DEF GraphState

LEMMA ProposalStepType ==
  ASSUME TypeOK, NEW r \in Requests,
         GenerateChanges(r) \/ ValidateChanges(r)
  PROVE  TypeOK'
<1> mem[r] \in GraphState
  BY DEF TypeOK
<1>0. mem[r] \in Spend(mem[r])
  BY DEF Spend, GraphState
<1>1. CASE GenerateChanges(r)
  <2> DEFINE counted == [mem[r] EXCEPT !.attempts = @ + 1,
                                       !.retry_feedback = FALSE]
  <2>1. counted \in GraphState
    <3>1. mem[r].attempts + 1 \in Nat
      BY DEF GraphState
    <3>2. QED
      BY <3>1 DEF GraphState
  <2> HIDE DEF counted
  <2>2. CASE Superstep(r, "validate_changes", counted)
    BY <1>1, <2>1, <2>2, ReadOnlyStepType DEF GenerateChanges, Nodes
  <2>3. ASSUME NEW d \in Drafts, NEW v \in Spend(counted),
               Superstep(r, "validate_changes", [v EXCEPT !.draft = d])
        PROVE  TypeOK'
    BY <1>1, <2>1, <2>3, ValidatedType, ReadOnlyStepType
       DEF GenerateChanges, Nodes
  <2>4. QED
    BY <1>1, <2>2, <2>3 DEF GenerateChanges, counted
<1>2. CASE ValidateChanges(r)
  <2>1. ASSUME NEW v \in GraphState, Superstep(r, RouteAfterValidate(v), v)
        PROVE  TypeOK'
    BY <1>2, <2>1, ReadOnlyStepType
       DEF ValidateChanges, RouteAfterValidate, Nodes
  <2>2. [mem[r] EXCEPT !.retry_feedback = TRUE] \in GraphState
    BY DEF GraphState
  <2>3. ASSUME NEW d \in Drafts, NEW v \in Spend(mem[r])
        PROVE  [v EXCEPT !.draft = d, !.attempts = @ + 1] \in GraphState
    BY <2>3, ValidatedType
  <2>4. QED
    BY <1>2, <2>1, <2>2, <2>3 DEF ValidateChanges
<1>3. QED
  BY <1>1, <1>2

LEMMA GateStepType ==
  ASSUME TypeOK, AskedOK, NEW r \in Requests,
         ReviewNothing(r) \/ Interrupt(r) \/ Decide(r)
  PROVE  TypeOK'
<1> mem[r] \in GraphState
  BY DEF TypeOK
<1>1. CASE ReviewNothing(r)
  <2> DEFINE v == [mem[r] EXCEPT !.decision_action = "none", !.grant = NoOne]
  <2>1. v \in GraphState /\ RouteAfterReview(v) \in Nodes
    BY DEF GraphState, MaybeRequest, RouteAfterReview, Nodes
  <2> HIDE DEF v
  <2>2. Superstep(r, RouteAfterReview(v), v) /\ ReadOnly
    BY <1>1 DEF ReviewNothing, v
  <2>3. QED
    BY <2>1, <2>2, ReadOnlyStepType
<1>2. CASE Interrupt(r)
  <2>1. ckpt' \in [values : GraphState, next : Nodes, interrupted : BOOLEAN,
                   writer : MaybeRequest]
    BY <1>2 DEF Interrupt, TypeOK
  <2>2. QED
    BY <1>2, <2>1 DEF TypeOK, Interrupt, Goto, history, Active
<1>3. CASE Decide(r)
  <2> DEFINE v == Decided(mem[r], r, ask[r])
  <2>1. ask[r] \in Reviews
    BY <1>3 DEF Decide, AskedOK
  <2>2. v \in GraphState /\ RouteAfterReview(v) \in Nodes
    BY <2>1, DecidedType DEF RouteAfterReview, Nodes
  <2> HIDE DEF v
  <2>3. /\ Superstep(r, RouteAfterReview(v), v)
        /\ \/ /\ approved' = approved \cup {[by |-> r, draft |-> v.draft]}
              /\ shown' = [shown EXCEPT ![r] = session.review]
           \/ UNCHANGED <<approved, shown>>
        /\ UNCHANGED writes
    BY <1>3 DEF Decide, v
  <2>4. /\ approved' \in SUBSET [by : Requests, draft : MaybeDraft]
        /\ shown' \in [Requests -> MaybeDraft]
        /\ writes' \in SUBSET Writes
    <3>1. v.draft \in MaybeDraft
      BY <2>2 DEF GraphState
    <3>2. [by |-> r, draft |-> v.draft] \in [by : Requests, draft : MaybeDraft]
      BY <3>1
    <3>3. session.review \in MaybeDraft
      BY DEF TypeOK
    <3>4. /\ approved \in SUBSET [by : Requests, draft : MaybeDraft]
          /\ shown \in [Requests -> MaybeDraft]
          /\ writes \in SUBSET Writes
      BY DEF TypeOK
    <3>5. QED
      <4>1. CASE UNCHANGED <<approved, shown>>
        BY <2>3, <3>4, <4>1
      <4>2. CASE /\ approved' = approved \cup {[by |-> r, draft |-> v.draft]}
                 /\ shown' = [shown EXCEPT ![r] = session.review]
        <5>1. approved' \in SUBSET [by : Requests, draft : MaybeDraft]
          BY <3>2, <3>4, <4>2
        <5>2. shown' \in [Requests -> MaybeDraft]
          BY <3>3, <3>4, <4>2
        <5>3. QED
          BY <2>3, <3>4, <5>1, <5>2
      <4>3. QED
        BY <2>3, <4>1, <4>2
  <2>5. QED
    BY <2>2, <2>3, <2>4, SuperstepType
<1>4. QED
  BY <1>1, <1>2, <1>3

(* The ids a turn touched are ids. *)
LEMMA TouchedType ==
  ASSUME TypeOK, NEW r \in Requests
  PROVE  Touched(r) \subseteq Entities
BY DEF TypeOK, Touched, Writes

LEMMA AppliedType ==
  ASSUME TypeOK, NEW r \in Requests, NEW touched \in SUBSET Entities,
         Applied(r, touched)
  PROVE  writes' \in SUBSET Writes
<1>1. mem[r].grant \in MaybeRequest /\ mem[r].draft \in MaybeDraft
  BY DEF TypeOK, GraphState
<1>2. QED
  BY <1>1 DEF TypeOK, Applied, Writes

LEMMA CommitStepType ==
  ASSUME TypeOK, NEW r \in Requests,
         \/ CommitNothing(r) \/ CommitApplies(r) \/ CommitRaises(r)
         \/ CommitSaved(r)
  PROVE  TypeOK'
<1> mem[r] \in GraphState
  BY DEF TypeOK
<1>1. CASE CommitNothing(r)
  <2>1. [mem[r] EXCEPT !.draft = NoDraft] \in GraphState
    BY DEF GraphState, MaybeDraft
  <2>2. QED
    BY <1>1, <2>1, ReadOnlyStepType DEF CommitNothing, Nodes
<1>2. CASE CommitApplies(r)
  <2>1. writes' \in SUBSET Writes
    BY <1>2, AppliedType DEF CommitApplies
  <2>2. QED
    BY <1>2, <2>1 DEF TypeOK, CommitApplies, Goto, Active, InGraph
<1>3. CASE CommitRaises(r)
  <2>1. writes' \in SUBSET Writes
    BY <1>3, AppliedType DEF CommitRaises
  <2>2. Leave(r, "failed")
    BY <1>3 DEF CommitRaises
  <2>3. QED
    BY <1>3, <2>1, <2>2, LeaveType DEF TypeOK, CommitRaises, Ended, Statuses
<1>4. CASE CommitSaved(r)
  <2> DEFINE v == [mem[r] EXCEPT !.draft = NoDraft, !.draft_committed = TRUE,
                     !.committed_entity_ids = @ \cup Touched(r)]
  <2>1. v \in GraphState
    BY TouchedType DEF GraphState, MaybeDraft
  <2> HIDE DEF v
  <2>2. Superstep(r, "END", v) /\ ReadOnly
    BY <1>4 DEF CommitSaved, v
  <2>3. QED
    BY <2>1, <2>2, ReadOnlyStepType DEF Nodes
<1>5. QED
  BY <1>1, <1>2, <1>3, <1>4

LEMMA FinalizeStepType ==
  ASSUME TypeOK, NEW r \in Requests,
         \/ ReadState(r) \/ ReconcilePending(r) \/ ReconcileResolved(r)
         \/ Announce(r)
  PROVE  TypeOK'
<1> mem[r] \in GraphState
  BY DEF TypeOK
<1>1. CASE ReadState(r)
  BY <1>1 DEF TypeOK, ReadState, Goto, history, Active
<1>2. CASE ReconcilePending(r)
  <2>1. Leave(r, "done")
    BY <1>2 DEF ReconcilePending
  <2>2. session' \in [status : Statuses, review : MaybeDraft,
                      committed : SUBSET Entities]
    BY <1>2 DEF ReconcilePending, TypeOK, GraphState, Statuses
  <2>3. QED
    BY <1>2, <2>1, <2>2, LeaveType DEF TypeOK, ReconcilePending, history, Ended
<1>3. CASE ReconcileResolved(r)
  <2>1. session' \in [status : Statuses, review : MaybeDraft,
                      committed : SUBSET Entities]
    BY <1>3 DEF ReconcileResolved, Outcome, Statuses, GraphState, MaybeDraft
  <2>2. CASE mem[r].draft_committed
    BY <1>3, <2>1, <2>2 DEF TypeOK, ReconcileResolved, Goto, history, Active
  <2>3. CASE ~mem[r].draft_committed
    <3>1. Leave(r, "done")
      BY <1>3, <2>3 DEF ReconcileResolved
    <3>2. QED
      BY <1>3, <2>1, <3>1, LeaveType
         DEF TypeOK, ReconcileResolved, history, Ended
  <2>4. QED
    BY <2>2, <2>3
<1>4. CASE Announce(r)
  <2>1. Leave(r, "done")
    BY <1>4 DEF Announce
  <2>2. announced' \in [Requests -> SUBSET Entities]
    BY <1>4 DEF TypeOK, Announce, GraphState
  <2>3. QED
    BY <1>4, <2>1, <2>2, LeaveType DEF TypeOK, Announce, Ended
<1>5. QED
  BY <1>1, <1>2, <1>3, <1>4

LEMMA FaultStepType ==
  ASSUME TypeOK,
         \/ \E r \in Requests : NodeError(r) \/ Timeout(r) \/ Cancel(r)
                                \/ Abandon(r)
         \/ Crash
  PROVE  TypeOK'
<1>1. ASSUME NEW r \in Requests, Fail(r)
      PROVE  TypeOK'
  <2>1. Leave(r, "failed")
    BY <1>1 DEF Fail
  <2>2. QED
    BY <1>1, <2>1, LeaveType DEF TypeOK, Fail, history, Ended, Statuses
<1>2. ASSUME NEW r \in Requests, Abandon(r)
      PROVE  TypeOK'
  <2>1. Leave(r, "lost")
    BY <1>2 DEF Abandon
  <2>2. QED
    BY <1>2, <2>1, LeaveType DEF TypeOK, Abandon, history, Ended
<1>3. CASE Crash
  BY <1>3, EmptyStateType DEF TypeOK, Crash, history, Ended, Nodes
<1>4. QED
  BY <1>1, <1>2, <1>3 DEF NodeError, Timeout, Cancel

(* A step of a request that is past the router and does not resume it. *)
Moves(r) ==
  /\ ask' = ask
  /\ pc[r] # "new"
  /\ \E label \in (Active \cup Ended) \ {"resuming"} :
       pc' = [pc EXCEPT ![r] = label]

LEMMA GraphStepMoves ==
  ASSUME TypeOK, NEW r \in Requests, GraphStep(r)
  PROVE  Moves(r)
<1> USE DEF Moves, Active, InGraph, Ended, Goto
<1>1. ASSUME NEW next, NEW v, Superstep(r, next, v), pc[r] # "new"
      PROVE  Moves(r)
  <2>1. \/ pc' = [pc EXCEPT ![r] = "finalizing"]
        \/ pc' = [pc EXCEPT ![r] = "graph"]
    BY <1>1 DEF Superstep
  <2>2. QED
    BY <1>1, <2>1 DEF Superstep
<1>2. CASE Assistant(r) \/ Tools(r) \/ Brainstorm(r)
  BY <1>1, <1>2 DEF Assistant, Tools, Brainstorm, At
<1>3. CASE BeginChanges(r) \/ RetrieveContext(r)
  BY <1>1, <1>3 DEF BeginChanges, RetrieveContext, At
<1>4. CASE GenerateChanges(r) \/ ValidateChanges(r)
  BY <1>1, <1>4 DEF GenerateChanges, ValidateChanges, At
<1>5. CASE ReviewNothing(r) \/ Decide(r)
  BY <1>1, <1>5 DEF ReviewNothing, Decide, At
<1>6. CASE Interrupt(r)
  BY <1>6 DEF Interrupt
<1>7. CASE CommitNothing(r) \/ CommitSaved(r)
  BY <1>1, <1>7 DEF CommitNothing, CommitSaved, At
<1>8. CASE CommitApplies(r) \/ CommitRaises(r)
  BY <1>8 DEF CommitApplies, CommitRaises, Leave, At
<1>9. QED
  BY <1>2, <1>3, <1>4, <1>5, <1>6, <1>7, <1>8 DEF GraphStep

LEMMA RunnerStepMoves ==
  ASSUME TypeOK, NEW r \in Requests,
         \/ RequireSession(r) \/ StartTurn(r) \/ LoadForInput(r)
         \/ ReadState(r) \/ ReconcilePending(r) \/ ReconcileResolved(r)
         \/ Announce(r)
         \/ NodeError(r) \/ Timeout(r) \/ Cancel(r) \/ Abandon(r)
  PROVE  Moves(r)
<1> USE DEF Moves, Active, InStream, InGraph, Ended, Goto, Leave
<1>1. CASE RequireSession(r) \/ StartTurn(r) \/ LoadForInput(r)
  BY <1>1 DEF RequireSession, StartTurn, LoadForInput
<1>2. CASE ReadState(r) \/ ReconcilePending(r) \/ ReconcileResolved(r)
  BY <1>2 DEF ReadState, ReconcilePending, ReconcileResolved
<1>3. CASE Announce(r)
  BY <1>3 DEF Announce
<1>4. CASE NodeError(r) \/ Timeout(r) \/ Cancel(r) \/ Abandon(r)
  BY <1>4 DEF NodeError, Timeout, Cancel, Abandon, Fail
<1>5. QED
  BY <1>1, <1>2, <1>3, <1>4

LEMMA AskedStep ==
  ASSUME TypeOK, AskedOK, [Next]_vars
  PROVE  AskedOK'
<1>1. ASSUME NEW r \in Requests, NEW a \in Asks, Arrive(r, a)
      PROVE  AskedOK'
  BY <1>1 DEF TypeOK, AskedOK, Arrive, Goto
<1>2. ASSUME NEW r \in Requests, Moves(r)
      PROVE  AskedOK'
  BY <1>2 DEF TypeOK, AskedOK, Moves
<1>3. ASSUME NEW r \in Requests, LoadForReview(r)
      PROVE  AskedOK'
  <2>1. ask[r] \in Asks /\ ask[r].kind = "review"
    BY <1>3 DEF LoadForReview, AskedOK
  <2>2. ask[r] \in Reviews
    BY <2>1 DEF Asks, Messages, SkillRuns, Reviews
  <2>3. QED
    BY <1>3, <2>2 DEF TypeOK, AskedOK, LoadForReview, Goto
<1>4. CASE Crash
  BY <1>4 DEF AskedOK, Crash, Active, InGraph, history
<1>5. CASE UNCHANGED vars
  BY <1>5 DEF AskedOK, vars
<1>6. ASSUME NEW r \in Requests, RunnerStep(r) \/ GraphStep(r)
      PROVE  AskedOK'
  BY <1>2, <1>3, <1>6, GraphStepMoves, RunnerStepMoves DEF RunnerStep
<1>7. ASSUME NEW r \in Requests,
             NodeError(r) \/ Timeout(r) \/ Cancel(r) \/ Abandon(r)
      PROVE  AskedOK'
  BY <1>2, <1>7, RunnerStepMoves
<1>8. QED
  BY <1>1, <1>4, <1>5, <1>6, <1>7 DEF Next, Quiet

LEMMA TypeStep ==
  ASSUME TypeOK, AskedOK, [Next]_vars
  PROVE  TypeOK'
<1>1. ASSUME NEW r \in Requests, RunnerStep(r)
      PROVE  TypeOK'
  BY <1>1, AdmissionType, LoadType, FinalizeStepType DEF RunnerStep
<1>2. ASSUME NEW r \in Requests, GraphStep(r)
      PROVE  TypeOK'
  BY <1>2, ConversationStepType, ProposalStepType, GateStepType,
     CommitStepType DEF GraphStep
<1>3. CASE UNCHANGED vars
  BY <1>3 DEF TypeOK, vars
<1>4. QED
  BY <1>1, <1>2, <1>3, AdmissionType, FaultStepType DEF Next, Quiet

(* Every value the conversation holds keeps its type, in every behaviour:   *)
(* the registry row, the checkpoint, every turn's own state.                *)
THEOREM TypeCorrect == Spec => []TypeOK
<1>1. Init => TypeOK /\ AskedOK
  BY InitType DEF Init, AskedOK
<1>2. TypeOK /\ AskedOK /\ [Next]_vars => (TypeOK /\ AskedOK)'
  BY TypeStep, AskedStep
<1>3. QED
  BY <1>1, <1>2, PTL DEF Spec
-----------------------------------------------------------------------------
(***************************************************************************)
(* The loop between generating and validating a proposal is bounded, and   *)
(* leaves no retry owed when the proposal reaches the game master, however *)
(* many turns overlap and whatever checkpoint a review resumes.            *)
(***************************************************************************)

(* What the counters are where a run in state v goes to node n next.        *)
LoopOK(n, v) ==
  /\ n = "retrieve_context" => v.attempts = 0
  /\ n = "generate_changes" => v.attempts < MAX_GENERATION_ATTEMPTS
  /\ n \in {"validate_changes", "human_review"} => ~v.retry_feedback

(* It holds of each running turn and of the checkpoint a review resumes.    *)
LoopInv ==
  /\ \A r \in Requests : pc[r] \in InGraph => LoopOK(node[r], mem[r])
  /\ LoopOK(ckpt.next, ckpt.values)

(* A node that leaves the counters right for the next one. *)
LEMMA SuperstepLoop ==
  ASSUME TypeOK, LoopInv, NEW r \in Requests, NEW next, NEW v,
         Superstep(r, next, v), LoopOK(next, v)
  PROVE  LoopInv'
BY DEF TypeOK, LoopInv, LoopOK, Superstep, Goto, InGraph

(* A step that leaves the checkpoint's place alone: a turn in the graph     *)
(* stays where it was, or has just taken the checkpoint's place.            *)
LEMMA StayLoop ==
  ASSUME LoopInv,
         ckpt'.next = ckpt.next /\ ckpt'.values = ckpt.values,
         \A q \in Requests :
           pc'[q] \in InGraph =>
             \/ pc[q] \in InGraph /\ node'[q] = node[q] /\ mem'[q] = mem[q]
             \/ node'[q] = ckpt.next /\ mem'[q] = ckpt.values
  PROVE  LoopInv'
BY DEF LoopInv, LoopOK

(* Nodes whose successors ask nothing of the counters. *)
LEMMA ConversationLoop ==
  ASSUME TypeOK, LoopInv, NEW r \in Requests,
         \/ Assistant(r) \/ Tools(r) \/ Brainstorm(r) \/ CommitNothing(r)
         \/ CommitSaved(r)
  PROVE  LoopInv'
<1>1. ASSUME NEW v,
             NEW next \in {"END", "tools", "assistant"} \cup SkillEntries,
             Superstep(r, next, v)
      PROVE  LoopInv'
  BY <1>1, SuperstepLoop DEF LoopOK, SkillEntries
<1>2. QED
  BY <1>1 DEF Assistant, Tools, Brainstorm, CommitNothing, CommitSaved

LEMMA ProposalLoop ==
  ASSUME TypeOK, LoopInv, NEW r \in Requests,
         \/ BeginChanges(r) \/ RetrieveContext(r)
         \/ GenerateChanges(r) \/ ValidateChanges(r)
  PROVE  LoopInv'
<1> mem[r] \in GraphState
  BY DEF TypeOK
<1>0. \A n \in Nodes : At(r, n) => LoopOK(n, mem[r])
  BY DEF LoopInv, At, InGraph
<1>1. CASE BeginChanges(r)
  <2>1. LoopOK("retrieve_context", FreshProposal(mem[r]))
    BY DEF LoopOK, FreshProposal, GraphState
  <2>2. QED
    BY <1>1, <2>1, SuperstepLoop DEF BeginChanges
<1>2. CASE RetrieveContext(r)
  <2>1. mem[r].attempts = 0
    BY <1>0, <1>2 DEF RetrieveContext, LoopOK, Nodes
  <2>2. LoopOK("generate_changes", mem[r])
    BY <2>1, AttemptsAssumption DEF LoopOK
  <2>3. QED
    BY <1>2, <2>2, SuperstepLoop DEF RetrieveContext
<1>3. CASE GenerateChanges(r)
  <2> DEFINE counted == [mem[r] EXCEPT !.attempts = @ + 1,
                                       !.retry_feedback = FALSE]
  <2>1. ~counted.retry_feedback
    BY DEF GraphState
  <2>2. counted \in GraphState
    <3>1. mem[r].attempts + 1 \in Nat
      BY DEF GraphState
    <3>2. QED
      BY <3>1 DEF GraphState
  <2>3. \A d \in Drafts, v \in Spend(counted) :
          ~[v EXCEPT !.draft = d].retry_feedback
    <3> HIDE DEF counted
    <3> SUFFICES ASSUME NEW d \in Drafts, NEW v \in Spend(counted)
                 PROVE  ~[v EXCEPT !.draft = d].retry_feedback
      OBVIOUS
    <3>1. v \in GraphState /\ ~v.retry_feedback
      BY <2>1, <2>2 DEF Spend, GraphState
    <3>2. QED
      BY <3>1 DEF GraphState
  <2> HIDE DEF counted
  <2>4. PICK v : Superstep(r, "validate_changes", v) /\ ~v.retry_feedback
    BY <1>3, <2>1, <2>3 DEF GenerateChanges, counted
  <2>5. QED
    BY <2>4, SuperstepLoop DEF LoopOK
<1>4. CASE ValidateChanges(r)
  <2>1. ~mem[r].retry_feedback
    BY <1>0, <1>4 DEF ValidateChanges, LoopOK, Nodes
  <2>2. ASSUME NEW v, Superstep(r, RouteAfterValidate(v), v),
               \/ ~v.retry_feedback
               \/ v.attempts < MAX_GENERATION_ATTEMPTS
        PROVE  LoopInv'
    <3>1. LoopOK(RouteAfterValidate(v), v)
      BY <2>2 DEF LoopOK, RouteAfterValidate
    <3>2. QED
      BY <2>2, <3>1, SuperstepLoop
  <2>3. MayRetry(mem[r]) =>
          [mem[r] EXCEPT !.retry_feedback = TRUE].attempts
            < MAX_GENERATION_ATTEMPTS
    BY DEF MayRetry, GraphState
  <2>4. \A d \in Drafts, v \in Spend(mem[r]) :
          ~[v EXCEPT !.draft = d, !.attempts = @ + 1].retry_feedback
    BY <2>1 DEF Spend, GraphState
  <2>5. QED
    BY <1>4, <2>1, <2>2, <2>3, <2>4 DEF ValidateChanges
<1>5. QED
  BY <1>1, <1>2, <1>3, <1>4

LEMMA ReviewLoop ==
  ASSUME TypeOK, AskedOK, LoopInv, NEW r \in Requests,
         ReviewNothing(r) \/ Decide(r)
  PROVE  LoopInv'
<1> mem[r] \in GraphState
  BY DEF TypeOK
<1>1. CASE ReviewNothing(r)
  <2> DEFINE v == [mem[r] EXCEPT !.decision_action = "none", !.grant = NoOne]
  <2>1. v.decision_action = "none"
    BY DEF GraphState
  <2>2. LoopOK(RouteAfterReview(v), v)
    BY <2>1 DEF LoopOK, RouteAfterReview
  <2>3. QED
    BY <1>1, <2>2, SuperstepLoop DEF ReviewNothing
<1>2. CASE Decide(r)
  <2> DEFINE v == Decided(mem[r], r, ask[r])
  <2>1. v.decision_action = "revise" => v.attempts = 0
    BY DEF Decided, GraphState
  <2>2. LoopOK(RouteAfterReview(v), v)
    BY <2>1, AttemptsAssumption DEF LoopOK, RouteAfterReview
  <2>3. QED
    BY <1>2, <2>2, SuperstepLoop DEF Decide
<1>3. QED
  BY <1>1, <1>2

(* The graph's remaining steps, the runner's and the faults. *)
LEMMA OutsideLoop ==
  ASSUME TypeOK, AskedOK, LoopInv, NEW r \in Requests,
         \/ Interrupt(r) \/ CommitApplies(r) \/ CommitRaises(r)
         \/ RunnerStep(r)
         \/ \E a \in Asks : Arrive(r, a)
         \/ NodeError(r) \/ Timeout(r) \/ Cancel(r) \/ Abandon(r)
  PROVE  LoopInv'
<1> USE DEF TypeOK, InGraph, Goto, history
<1>1. ASSUME NEW label \in Ended, Leave(r, label), ckpt' = ckpt
      PROVE  LoopInv'
  BY <1>1, StayLoop DEF Leave, Ended
<1>2. CASE Interrupt(r) \/ CommitApplies(r)
  BY <1>2, StayLoop DEF Interrupt, CommitApplies, At
<1>3. CASE CommitRaises(r)
  BY <1>1, <1>3 DEF CommitRaises, Ended
<1>4. CASE \E a \in Asks : Arrive(r, a)
  BY <1>4, StayLoop DEF Arrive
<1>5. CASE RequireSession(r)
  <2>1. CASE Leave(r, "refused")
    BY <1>1, <1>5, <2>1 DEF RequireSession, Ended
  <2>2. CASE Goto(r, "required") /\ UNCHANGED <<mem, node>>
    BY <1>5, <2>2, StayLoop DEF RequireSession
  <2>3. QED
    BY <1>5, <2>1, <2>2 DEF RequireSession
<1>6. CASE StartTurn(r) \/ ReadState(r)
  BY <1>6, StayLoop DEF StartTurn, ReadState
<1>7. CASE LoadForInput(r)
  <2> DEFINE v == TurnInput(ask[r], ckpt.values)
             entry == RouteEntry(v)
  <2>1. entry \in {"assistant"} \cup SkillEntries
    <3>1. ask[r] \in Asks /\ ask[r].kind # "review"
      BY <1>7 DEF AskedOK, LoadForInput
    <3>2. v \in GraphState
      BY <3>1, TurnInputType
    <3>3. v.skill_kickoff \in SkillEntries \cup {"none"}
      BY <3>2 DEF GraphState
    <3> HIDE DEF v
    <3>4. QED
      BY <3>3 DEF RouteEntry
  <2>2. LoopOK(entry, v)
    BY <2>1 DEF LoopOK, SkillEntries
  <2> HIDE DEF v, entry
  <2>3. /\ mem' = [mem EXCEPT ![r] = v]
        /\ node' = [node EXCEPT ![r] = entry]
        /\ ckpt'.values = v /\ ckpt'.next = entry
        /\ pc' = [pc EXCEPT ![r] = "graph"]
    BY <1>7 DEF LoadForInput, v, entry
  <2>4. QED
    BY <2>2, <2>3 DEF LoopInv, LoopOK
<1>8. CASE LoadForReview(r)
  BY <1>8, StayLoop DEF LoadForReview
<1>9. CASE ReconcilePending(r) \/ ReconcileResolved(r) \/ Announce(r)
  <2>1. CASE Leave(r, "done")
    BY <1>1, <1>9, <2>1
       DEF ReconcilePending, ReconcileResolved, Announce, Ended
  <2>2. CASE Goto(r, "announcing") /\ UNCHANGED <<mem, node>>
    BY <1>9, <2>2, StayLoop
       DEF ReconcilePending, ReconcileResolved, Announce
  <2>3. QED
    BY <1>9, <2>1, <2>2 DEF ReconcilePending, ReconcileResolved, Announce
<1>10. CASE NodeError(r) \/ Timeout(r) \/ Cancel(r) \/ Abandon(r)
  BY <1>1, <1>10 DEF NodeError, Timeout, Cancel, Abandon, Fail, Ended
<1>11. QED
  BY <1>2, <1>3, <1>4, <1>5, <1>6, <1>7, <1>8, <1>9, <1>10 DEF RunnerStep

LEMMA LoopStep ==
  ASSUME TypeOK, AskedOK, LoopInv, [Next]_vars
  PROVE  LoopInv'
<1>1. CASE Crash
  BY <1>1, StayLoop DEF Crash, InGraph, Active, history
<1>2. CASE UNCHANGED vars
  BY <1>2, StayLoop DEF vars
<1>3. ASSUME NEW r \in Requests, GraphStep(r)
      PROVE  LoopInv'
  BY <1>3, ConversationLoop, ProposalLoop, ReviewLoop, OutsideLoop
     DEF GraphStep
<1>4. QED
  BY <1>1, <1>2, <1>3, OutsideLoop DEF Next, Quiet

LEMMA LoopAlways == Spec => []LoopInv
<1>1. Init => TypeOK /\ AskedOK /\ LoopInv
  BY InitType DEF Init, AskedOK, LoopInv, LoopOK, InGraph
<1>2. TypeOK /\ AskedOK /\ LoopInv /\ [Next]_vars
        => (TypeOK /\ AskedOK /\ LoopInv)'
  BY TypeStep, AskedStep, LoopStep
<1>3. QED
  BY <1>1, <1>2, PTL DEF Spec

(* The loop of generation and validation ends within its attempts and leaves *)
(* nothing owed: no generation begins with the attempts of its proposal     *)
(* used up, and no proposal reaches the game master with a retry owed.      *)
THEOREM LoopSettles == Spec => []RegenerationIsSettled
<1>1. LoopInv => BoundedRegeneration
  BY DEF LoopInv, LoopOK, BoundedRegeneration, At, InGraph
<1>2. LoopInv => NoRetryOwedAtReview
  BY DEF LoopInv, LoopOK, NoRetryOwedAtReview, At, InGraph
<1>3. LoopInv => RegenerationIsSettled
  BY <1>1, <1>2 DEF RegenerationIsSettled
<1>4. QED
  BY <1>3, LoopAlways, PTL
-----------------------------------------------------------------------------
(* The human gate: nothing reaches the world but the content of an          *)
(* approval, and the turns implement the abstract gate of ReviewGate.       *)

LEMMA InitGate == Init => GateInv
BY DEF Init, GateInv, OnlyApprovedIsWritten, At

(* A node that decides nothing, writes nothing and does not lead to a       *)
(* commit that would.                                                       *)
LEMMA QuietNode ==
  ASSUME TypeOK, GateInv, NEW r \in Requests, NEW next, NEW v,
         Superstep(r, next, v), ReadOnly,
         next = "commit" => ~Approves(v),
         pc[r] \in {"resuming", "graph"} \/ (pc[r] = "applied" /\ next = "END")
  PROVE  GateInv' /\ UNCHANGED <<approved, writes>>
<1>1. UNCHANGED <<approved, writes>>
  BY DEF ReadOnly
<1>2. /\ pc' = [pc EXCEPT ![r] = IF next = "END" THEN "finalizing" ELSE "graph"]
      /\ mem' = [mem EXCEPT ![r] = v]
      /\ node' = [node EXCEPT ![r] = next]
      /\ ckpt'.next = next /\ ckpt'.values = v
  BY DEF Superstep, Goto
<1>3. OnlyApprovedIsWritten'
  BY <1>1 DEF GateInv, OnlyApprovedIsWritten
<1>4. \A q \in Requests :
        (At(q, "commit") /\ Approves(mem[q]) => Granted(mem[q]))'
  BY <1>1, <1>2 DEF GateInv, TypeOK, At, Approves, Granted
<1>5. (ckpt.next = "commit" /\ Approves(ckpt.values) => Granted(ckpt.values))'
  BY <1>2 DEF Approves
<1>6. \A a \in approved' : pc'[a.by] \notin BeforeDecision
  BY <1>1, <1>2 DEF GateInv, TypeOK, BeforeDecision
<1>7. \A w \in writes' : pc'[w.by] \notin BeforeDecision \cup {"graph"}
  BY <1>1, <1>2 DEF GateInv, TypeOK, BeforeDecision, Writes
<1>8. QED
  BY <1>1, <1>3, <1>4, <1>5, <1>6, <1>7 DEF GateInv

(* A step outside the graph run: the request is on its way to the decision  *)
(* or past the graph, and the checkpoint leads no commit.                   *)
LEMMA QuietRunner ==
  ASSUME TypeOK, GateInv, NEW r \in Requests, UNCHANGED <<approved, writes>>,
         NEW label, pc' = [pc EXCEPT ![r] = label],
         \/ label \notin BeforeDecision \cup {"graph"}
         \/ pc[r] \in BeforeDecision,
         \A q \in Requests \ {r} : mem'[q] = mem[q] /\ node'[q] = node[q],
         At(r, "commit")' => /\ node'[r] = ckpt.next
                             /\ mem'[r] = ckpt.values,
         \/ ckpt'.next = ckpt.next /\ ckpt'.values = ckpt.values
         \/ ckpt'.next # "commit"
  PROVE  GateInv'
<1>1. OnlyApprovedIsWritten'
  BY DEF GateInv, OnlyApprovedIsWritten
<1>2. ASSUME NEW q \in Requests, At(q, "commit")', Approves(mem'[q])
      PROVE  Granted(mem[q])'
  <2>1. CASE q = r
    BY <1>2, <2>1 DEF GateInv, At, Granted
  <2>2. CASE q # r
    BY <1>2, <2>2 DEF GateInv, TypeOK, At, Granted
  <2>3. QED
    BY <2>1, <2>2
<1>3. (ckpt.next = "commit" /\ Approves(ckpt.values) => Granted(ckpt.values))'
  BY DEF GateInv, Granted
<1>4. \A a \in approved' : pc'[a.by] \notin BeforeDecision
  BY DEF GateInv, TypeOK
<1>5. \A w \in writes' : pc'[w.by] \notin BeforeDecision \cup {"graph"}
  BY DEF GateInv, TypeOK, Writes
<1>6. QED
  BY <1>1, <1>2, <1>3, <1>4, <1>5 DEF GateInv

LEMMA LeaveGate ==
  ASSUME TypeOK, GateInv, NEW r \in Requests, NEW label \in Ended,
         Leave(r, label), UNCHANGED <<approved, writes, ckpt>>
  PROVE  GateInv'
<1>1. label \notin BeforeDecision \cup {"graph"}
  BY DEF Ended, BeforeDecision
<1>2. /\ pc' = [pc EXCEPT ![r] = label]
      /\ \A q \in Requests \ {r} : mem'[q] = mem[q] /\ node'[q] = node[q]
      /\ ~At(r, "commit")'
  BY DEF Leave, Goto, TypeOK, At, Ended
<1>3. QED
  BY <1>1, <1>2, QuietRunner

LEMMA AdmissionGate ==
  ASSUME TypeOK, AskedOK, GateInv, NEW r \in Requests,
         \/ \E a \in Asks : Arrive(r, a)
         \/ RequireSession(r) \/ StartTurn(r)
         \/ LoadForInput(r) \/ LoadForReview(r)
  PROVE  GateInv' /\ UNCHANGED <<approved, writes>>
<1> USE DEF BeforeDecision
<1>1. CASE \E a \in Asks : Arrive(r, a)
  <2>1. \E label : pc' = [pc EXCEPT ![r] = label]
    BY <1>1 DEF Arrive, Goto
  <2>2. QED
    BY <1>1, <2>1, QuietRunner DEF Arrive, Goto, history, At, TypeOK
<1>2. CASE RequireSession(r)
  <2>1. CASE Leave(r, "refused")
    BY <1>2, <2>1, LeaveGate DEF RequireSession, history, Ended
  <2>2. CASE Goto(r, "required") /\ UNCHANGED <<mem, node>>
    BY <1>2, <2>2, QuietRunner DEF RequireSession, Goto, history, At, TypeOK
  <2>3. QED
    BY <1>2, <2>1, <2>2 DEF RequireSession, history
<1>3. CASE StartTurn(r)
  BY <1>3, QuietRunner DEF StartTurn, Goto, history, At, TypeOK
<1>4. CASE LoadForInput(r)
  <2> DEFINE v == TurnInput(ask[r], ckpt.values)
             entry == RouteEntry(v)
  <2>1. pc[r] = "starting" /\ ask[r] \in Asks /\ ask[r].kind # "review"
    BY <1>4 DEF LoadForInput, AskedOK
  <2>2. entry # "commit"
    <3>1. v \in GraphState
      BY <2>1, TurnInputType DEF TypeOK
    <3>2. v.skill_kickoff \in SkillEntries \cup {"none"}
      BY <3>1 DEF GraphState
    <3>3. QED
      BY <3>2 DEF RouteEntry, SkillEntries
  <2> HIDE DEF v, entry
  <2>3. /\ mem' = [mem EXCEPT ![r] = v]
        /\ node' = [node EXCEPT ![r] = entry]
        /\ ckpt'.next = entry
        /\ pc' = [pc EXCEPT ![r] = "graph"]
        /\ UNCHANGED <<approved, writes>>
    BY <1>4 DEF LoadForInput, Goto, v, entry
  <2>4. ~At(r, "commit")'
    BY <2>2, <2>3 DEF At, TypeOK
  <2>5. QED
    BY <2>1, <2>2, <2>3, <2>4, QuietRunner DEF TypeOK
<1>5. CASE LoadForReview(r)
  BY <1>5, QuietRunner DEF LoadForReview, Goto, At, TypeOK
<1>6. QED
  BY <1>1, <1>2, <1>3, <1>4, <1>5

LEMMA FinalizeGate ==
  ASSUME TypeOK, GateInv, NEW r \in Requests,
         \/ Interrupt(r)
         \/ ReadState(r) \/ ReconcilePending(r) \/ ReconcileResolved(r)
         \/ Announce(r)
  PROVE  GateInv' /\ UNCHANGED <<approved, writes>>
<1> USE DEF BeforeDecision, history
<1>1. CASE Interrupt(r)
  BY <1>1, QuietRunner DEF Interrupt, Goto, At, TypeOK
<1>2. CASE ReadState(r)
  BY <1>2, QuietRunner DEF ReadState, Goto, At, TypeOK
<1>3. CASE ReconcilePending(r)
  BY <1>3, LeaveGate DEF ReconcilePending, Ended
<1>4. CASE ReconcileResolved(r)
  <2>1. CASE mem[r].draft_committed
    BY <1>4, <2>1, QuietRunner DEF ReconcileResolved, Goto, At, TypeOK
  <2>2. CASE ~mem[r].draft_committed
    BY <1>4, <2>2, LeaveGate DEF ReconcileResolved, Ended
  <2>3. QED
    BY <2>1, <2>2
<1>5. CASE Announce(r)
  BY <1>5, LeaveGate DEF Announce, Ended
<1>6. QED
  BY <1>1, <1>2, <1>3, <1>4, <1>5

LEMMA FaultGate ==
  ASSUME TypeOK, GateInv,
         \/ \E r \in Requests : NodeError(r) \/ Timeout(r) \/ Cancel(r)
                                \/ Abandon(r)
         \/ Crash
  PROVE  GateInv' /\ UNCHANGED <<approved, writes>>
<1>1. ASSUME NEW r \in Requests, Fail(r) \/ Abandon(r)
      PROVE  GateInv' /\ UNCHANGED <<approved, writes>>
  BY <1>1, LeaveGate DEF Fail, Abandon, history, Ended
<1>2. CASE Crash
  <2>1. /\ UNCHANGED <<approved, writes, ckpt>>
        /\ \A q \in Requests : pc'[q] = pc[q] \/ pc'[q] = "lost"
        /\ \A q \in Requests : ~At(q, "commit")'
    BY <1>2 DEF Crash, history, At
  <2>2. QED
    BY <2>1 DEF GateInv, OnlyApprovedIsWritten, Granted, BeforeDecision,
                TypeOK, Writes
<1>3. QED
  BY <1>1, <1>2 DEF NodeError, Timeout, Cancel

(* The nodes before the gate, and the gate with nothing to review. *)
LEMMA NodeGate ==
  ASSUME TypeOK, GateInv, NEW r \in Requests,
         \/ Assistant(r) \/ Tools(r) \/ Brainstorm(r)
         \/ BeginChanges(r) \/ RetrieveContext(r)
         \/ GenerateChanges(r) \/ ValidateChanges(r)
         \/ ReviewNothing(r)
  PROVE  GateInv' /\ UNCHANGED <<approved, writes>>
<1>1. ASSUME NEW next, NEW v, Superstep(r, next, v), ReadOnly,
             next # "commit", pc[r] \in {"resuming", "graph"}
      PROVE  GateInv' /\ UNCHANGED <<approved, writes>>
  BY <1>1, QuietNode
<1>2. CASE Assistant(r)
  BY <1>1, <1>2 DEF Assistant, At, SkillEntries
<1>3. CASE Tools(r) \/ Brainstorm(r)
  BY <1>1, <1>3 DEF Tools, Brainstorm, At
<1>4. CASE BeginChanges(r) \/ RetrieveContext(r)
  BY <1>1, <1>4 DEF BeginChanges, RetrieveContext, At
<1>5. CASE GenerateChanges(r)
  BY <1>1, <1>5 DEF GenerateChanges, At
<1>6. CASE ValidateChanges(r)
  <2>1. \A v : RouteAfterValidate(v) # "commit"
    BY DEF RouteAfterValidate
  <2>2. QED
    BY <1>1, <1>6, <2>1 DEF ValidateChanges, At
<1>7. CASE ReviewNothing(r)
  <2> DEFINE v == [mem[r] EXCEPT !.decision_action = "none", !.grant = NoOne]
  <2>1. v.decision_action = "none"
    BY DEF TypeOK, GraphState
  <2>2. Superstep(r, RouteAfterReview(v), v) /\ ReadOnly
    BY <1>7 DEF ReviewNothing
  <2>3. ~Approves(v) /\ pc[r] \in {"resuming", "graph"}
    BY <1>7, <2>1 DEF Approves, ReviewNothing, At
  <2> HIDE DEF v
  <2>4. QED
    BY <2>2, <2>3, QuietNode
<1>8. QED
  BY <1>2, <1>3, <1>4, <1>5, <1>6, <1>7

LEMMA CommitQuietGate ==
  ASSUME TypeOK, GateInv, NEW r \in Requests, CommitNothing(r) \/ CommitSaved(r)
  PROVE  GateInv' /\ UNCHANGED <<approved, writes>>
BY QuietNode DEF CommitNothing, CommitSaved, At

(* The decision: an approval is the first of its request, and grants what   *)
(* the commit after it would write.                                         *)
LEMMA DecideGate ==
  ASSUME TypeOK, AskedOK, GateInv, NEW r \in Requests, Decide(r)
  PROVE  /\ GateInv'
         /\ \/ UNCHANGED <<approved, writes>>
            \/ \E d \in Drafts : Gate!Approve(r, d)
<1> DEFINE v == Decided(mem[r], r, ask[r])
<1>1. /\ pc[r] = "resuming"
      /\ ask[r] \in Reviews
      /\ mem[r] \in GraphState
      /\ mem[r].draft # NoDraft
  BY DEF Decide, AskedOK, TypeOK
<1>2. /\ v.draft \in Drafts
      /\ v.decision_action = ask[r].action
      /\ ask[r].action = "approve" => v.grant = r
  BY <1>1 DEF Decided, GraphState, Reviews, MaybeDraft
<1>3. RouteAfterReview(v) \in {"generate_changes", "commit"}
  BY DEF RouteAfterReview
<1>4. /\ Superstep(r, RouteAfterReview(v), v)
      /\ IF ask[r].action = "approve"
         THEN approved' = approved \cup {[by |-> r, draft |-> v.draft]}
         ELSE UNCHANGED <<approved, shown>>
      /\ UNCHANGED writes
  BY DEF Decide
<1> HIDE DEF v
<1>5. CASE ask[r].action # "approve"
  <2>1. ~Approves(v) /\ ReadOnly
    BY <1>2, <1>4, <1>5 DEF Approves, ReadOnly
  <2>2. QED
    BY <1>1, <1>4, <2>1, QuietNode
<1>6. CASE ask[r].action = "approve"
  <2>1. /\ approved' = approved \cup {[by |-> r, draft |-> v.draft]}
        /\ writes' = writes
        /\ pc' = [pc EXCEPT ![r] = IF RouteAfterReview(v) = "END"
                                   THEN "finalizing" ELSE "graph"]
        /\ mem' = [mem EXCEPT ![r] = v]
        /\ node' = [node EXCEPT ![r] = RouteAfterReview(v)]
        /\ ckpt'.values = v
    BY <1>4, <1>6 DEF Superstep, Goto
  <2>2. [by |-> v.grant, draft |-> v.draft] \in approved'
    BY <1>2, <1>6, <2>1
  <2>3. OnlyApprovedIsWritten'
    BY <2>1 DEF GateInv, OnlyApprovedIsWritten
  <2>4. ASSUME NEW q \in Requests, At(q, "commit")', Approves(mem'[q])
        PROVE  Granted(mem[q])'
    <3>1. CASE q = r
      BY <2>1, <2>2, <3>1 DEF TypeOK, Granted
    <3>2. CASE q # r
      BY <2>1, <2>4, <3>2 DEF GateInv, TypeOK, At, Granted
    <3>3. QED
      BY <3>1, <3>2
  <2>5. Granted(ckpt.values)'
    BY <2>1, <2>2 DEF Granted
  <2>6. pc'[r] = "graph"
    BY <1>3, <2>1 DEF TypeOK
  <2>7. \A a \in approved' : pc'[a.by] \notin BeforeDecision
    BY <2>1, <2>6 DEF GateInv, TypeOK, BeforeDecision
  <2>8. \A w \in writes' : pc'[w.by] \notin BeforeDecision \cup {"graph"}
    BY <1>1, <2>1 DEF GateInv, TypeOK, BeforeDecision, Writes
  <2>9. Gate!Approve(r, v.draft)
    <3>1. \A a \in approved : a.by # r
      BY <1>1 DEF GateInv, BeforeDecision
    <3>2. QED
      BY <2>1, <3>1 DEF Gate!Approve
  <2>10. QED
    BY <1>2, <2>3, <2>4, <2>5, <2>7, <2>8, <2>9 DEF GateInv
<1>7. QED
  BY <1>5, <1>6

(* A commit that writes: it is the turn's first write, of granted content,  *)
(* and the turn leaves the commit for good.                                 *)
LEMMA CommitWritesGate ==
  ASSUME TypeOK, GateInv, NEW r \in Requests,
         CommitApplies(r) \/ CommitRaises(r)
  PROVE  /\ GateInv'
         /\ \E touched \in SUBSET Entities : Gate!Write(r, touched)
<1>1. At(r, "commit") /\ Approves(mem[r])
  BY DEF CommitApplies, CommitRaises
<1>2. PICK touched \in SUBSET Entities : Applied(r, touched)
  BY DEF CommitApplies, CommitRaises
<1>3. /\ UNCHANGED <<approved, ckpt>>
      /\ \/ pc' = [pc EXCEPT ![r] = "applied"]
         \/ pc' = [pc EXCEPT ![r] = "failed"]
      /\ \A q \in Requests \ {r} : mem'[q] = mem[q] /\ node'[q] = node[q]
  BY DEF CommitApplies, CommitRaises, Goto, Leave, TypeOK
<1>4. [by |-> mem[r].grant, draft |-> mem[r].draft] \in approved
  BY <1>1 DEF GateInv, Granted
<1>5. writes' = writes \cup {[by |-> r, grant |-> mem[r].grant,
                              draft |-> mem[r].draft, touched |-> touched]}
  BY <1>2 DEF Applied
<1>6. OnlyApprovedIsWritten'
  <2>1. ASSUME NEW w \in writes'
        PROVE  [by |-> w.grant, draft |-> w.draft] \in approved
    <3>1. CASE w \in writes
      BY <3>1 DEF GateInv, OnlyApprovedIsWritten
    <3>2. CASE w = [by |-> r, grant |-> mem[r].grant,
                    draft |-> mem[r].draft, touched |-> touched]
      BY <1>4, <3>2
    <3>3. QED
      BY <1>5, <3>1, <3>2
  <2>2. QED
    BY <1>3, <2>1 DEF OnlyApprovedIsWritten
<1>7. ASSUME NEW q \in Requests, At(q, "commit")', Approves(mem'[q])
      PROVE  Granted(mem[q])'
  <2>1. q # r
    BY <1>3, <1>7 DEF At, TypeOK
  <2>2. QED
    BY <1>3, <1>7, <2>1 DEF GateInv, TypeOK, At, Granted
<1>8. (ckpt.next = "commit" /\ Approves(ckpt.values) => Granted(ckpt.values))'
  BY <1>3 DEF GateInv, Granted
<1>9. \A a \in approved' : pc'[a.by] \notin BeforeDecision
  BY <1>3 DEF GateInv, TypeOK, BeforeDecision
<1>10. \A w \in writes' : pc'[w.by] \notin BeforeDecision \cup {"graph"}
  BY <1>3, <1>5 DEF GateInv, TypeOK, BeforeDecision, Writes
<1>11. Gate!Write(r, touched)
  <2>1. \A w \in writes : w.by # r
    BY <1>1 DEF GateInv, At, BeforeDecision
  <2>2. QED
    BY <1>3, <1>4, <1>5, <2>1 DEF Gate!Write
<1>12. QED
  BY <1>6, <1>7, <1>8, <1>9, <1>10, <1>11 DEF GateInv

LEMMA GateStep ==
  ASSUME TypeOK, AskedOK, GateInv, [Next]_vars
  PROVE  GateInv' /\ [Gate!Next]_<<approved, writes>>
<1>1. ASSUME NEW r \in Requests, RunnerStep(r)
      PROVE  GateInv' /\ UNCHANGED <<approved, writes>>
  BY <1>1, AdmissionGate, FinalizeGate DEF RunnerStep
<1>2. ASSUME NEW r \in Requests, GraphStep(r)
      PROVE  GateInv' /\ [Gate!Next]_<<approved, writes>>
  <2>1. CASE Decide(r)
    BY <2>1, DecideGate DEF Gate!Next
  <2>2. CASE CommitApplies(r) \/ CommitRaises(r)
    BY <2>2, CommitWritesGate DEF Gate!Next
  <2>3. CASE Interrupt(r) \/ CommitNothing(r) \/ CommitSaved(r)
    BY <2>3, FinalizeGate, CommitQuietGate
  <2>4. QED
    BY <1>2, <2>1, <2>2, <2>3, NodeGate DEF GraphStep
<1>3. CASE UNCHANGED vars
  BY <1>3 DEF vars, GateInv, OnlyApprovedIsWritten, Granted, At
<1>4. QED
  BY <1>1, <1>2, <1>3, AdmissionGate, FaultGate DEF Next, Quiet

(* The human gate, in every behaviour: what is written was approved. *)
THEOREM GateHolds == Spec => []OnlyApprovedIsWritten
<1>1. Init => TypeOK /\ AskedOK /\ GateInv
  BY InitType, InitGate DEF Init, AskedOK
<1>2. TypeOK /\ AskedOK /\ GateInv /\ [Next]_vars
        => (TypeOK /\ AskedOK /\ GateInv)'
  BY TypeStep, AskedStep, GateStep
<1>3. GateInv => OnlyApprovedIsWritten
  BY DEF GateInv
<1>4. QED
  BY <1>1, <1>2, <1>3, PTL DEF Spec

(* The turns of a conversation implement the abstract gate: every step      *)
(* approves once, writes once what is approved, or leaves both alone.       *)
THEOREM GateRefined == Spec => GateSpec
<1>1. Init => TypeOK /\ AskedOK /\ GateInv /\ Gate!Init
  BY InitType, InitGate DEF Init, AskedOK, Gate!Init
<1>2. TypeOK /\ AskedOK /\ GateInv /\ [Next]_vars
        => /\ (TypeOK /\ AskedOK /\ GateInv)'
           /\ [Gate!Next]_<<approved, writes>>
  BY TypeStep, AskedStep, GateStep
<1>3. QED
  BY <1>1, <1>2, PTL DEF Spec, GateSpec, Gate!Spec, Gate!vars
-----------------------------------------------------------------------------
(* One turn at a time *)

OneTurn == \A p, q \in Requests : pc[p] \in Active /\ pc[q] \in Active => p = q

(* Where the thread stopped at the gate it holds a draft; whoever wrote it  *)
(* last has decided all it had to.                                         *)
StoppedAtGate ==
  ckpt.interrupted /\ ckpt.next = "human_review" /\ ckpt.values.draft # NoDraft
ThreadInv ==
  /\ ckpt.interrupted => StoppedAtGate
  /\ ckpt.writer \in Requests => pc[ckpt.writer] \notin BeforeDecision

(* A turn in the graph works on the checkpoint itself, its own once it has  *)
(* passed a node; a review resumes at the gate, with the draft it showed.   *)
Waiting == {"guarded", "required"}
Shows == StoppedAtGate /\ session.review = ckpt.values.draft
TurnInv ==
  \A r \in Requests :
    /\ pc[r] \in InGraph => mem[r] = ckpt.values /\ node[r] = ckpt.next
    /\ pc[r] \in {"graph", "applied"} => ckpt.writer = r /\ ~ ckpt.interrupted
    /\ pc[r] \in {"starting", "resuming"} /\ ask[r].kind = "review" => Shows
    /\ pc[r] = "required" /\ ask[r].kind = "review" => session.status = "awaiting_review"
    /\ pc[r] = "required" /\ ask[r].kind # "review" => session.status # "awaiting_review"
    /\ pc[r] = "resuming" => ask[r].kind = "review"
    /\ pc[r] = "reconciled" => mem[r] = ckpt.values

(* The registry tells of a review, or of none, only while no turn is past   *)
(* its start.                                                              *)
SettledStatuses == {"idle", "committed", "rejected"}
RegistryInv ==
  /\ session.status = "awaiting_review" => Shows
  /\ session.status \in SettledStatuses => ~ ckpt.interrupted /\ session.review = NoDraft
  /\ \A r \in Requests :
       pc[r] \in Active \ (Waiting \cup {"announcing"}) => session.status = "running"

(* A write is for the round its own turn decided, which no other write is   *)
(* for, and whose proposal no turn can come back to.                       *)
Basis(r) == origin[r].basis
Past(q) == q \in Requests => pc[q] \in Ended
RoundsInv ==
  /\ \A r \in Requests :
       /\ pc[r] \in {"graph", "applied"} /\ node[r] = "commit" /\ Approves(mem[r]) => mem[r].grant = r
       /\ pc[r] \in InGraph => Past(Basis(r))
       /\ pc[r] \in InGraph => \A w \in writes : w.by # r => Basis(w.by) # Basis(r)
  /\ \A w \in writes : w.grant = w.by /\ Past(Basis(w.by)) /\ Basis(w.by) # ckpt.writer
  /\ \A v, w \in writes : Basis(v.by) = Basis(w.by) => v = w

(* What the thread has committed is in the registry, except what the turn   *)
(* that is about to tell it wrote, and what a broken turn left behind.      *)
Remembered == ckpt.values.committed_entity_ids
Telling == {"finalizing", "reconciled"}
Told == {"required", "starting"} \cup InGraph \cup Telling
IdsListed ==
  /\ session.committed \subseteq Remembered
  /\ \A e \in Remembered \ session.committed :
       e \in LeftBehind \/ \E r \in Requests : pc[r] \in Telling /\ e \in Touched(r)
  /\ \A r \in Requests : pc[r] \in Told => prior[r] = session.committed
  /\ \A w \in writes :
       /\ pc[w.by] \in Telling =>
            w.touched \subseteq Remembered /\ ckpt.next = "END" /\ ckpt.values.draft_committed
       /\ pc[w.by] \in {"announcing", "done"} => w.touched \subseteq session.committed

(* What the registry lists was announced, is about to be, or was left       *)
(* behind; the turn about to announce names what no other has.              *)
Handed(r) == mem[r].committed_entity_ids \ prior[r]
IdsTold ==
  /\ \A e \in session.committed :
       \/ e \in LeftBehind
       \/ \E r \in Requests : e \in announced[r]
       \/ \E r \in Requests : pc[r] = "announcing" /\ e \in Handed(r)
  /\ \A r \in Requests : announced[r] \subseteq session.committed
  /\ \A r \in Requests : pc[r] # "done" => announced[r] = {}
  /\ \A r \in Requests : pc[r] = "announcing" =>
       /\ Handed(r) \subseteq session.committed
       /\ Handed(r) \subseteq Touched(r) \cup LeftBehind
       /\ \A q \in Requests : announced[q] \cap Handed(r) = {}
  /\ AnnouncedOnce
  /\ CommittedIsTold

IdsInv == IdsListed /\ IdsTold

SequenceInv == OneTurn /\ ThreadInv /\ TurnInv /\ RegistryInv /\ RoundsInv /\ IdsInv

-----------------------------------------------------------------------------
(* One turn at a time *)

(* The steps of a turn that is under way.                                   *)
TurnStep(r) ==
  \/ RunnerStep(r) \/ GraphStep(r)
  \/ NodeError(r) \/ Timeout(r) \/ Cancel(r) \/ Abandon(r)

LEMMA TurnStepActive ==
  ASSUME TypeOK, NEW r \in Requests, TurnStep(r)
  PROVE  /\ pc[r] \in Active /\ ask' = ask
         /\ \A q \in Requests \ {r} : pc'[q] = pc[q]
<1>1. pc[r] \in Active
  <2>1. CASE RunnerStep(r)
    BY <2>1 DEF RunnerStep, RequireSession, StartTurn, LoadForInput, LoadForReview, ReadState,
                ReconcilePending, ReconcileResolved, Announce, Active
  <2>2. CASE GraphStep(r)
    BY <2>2 DEF GraphStep, Assistant, Tools, Brainstorm, BeginChanges, RetrieveContext,
                GenerateChanges, ValidateChanges, ReviewNothing, Interrupt, Decide, CommitNothing,
                CommitApplies, CommitRaises, CommitSaved, At, Active, InGraph
  <2>3. CASE NodeError(r) \/ Timeout(r) \/ Cancel(r) \/ Abandon(r)
    BY <2>3 DEF NodeError, Timeout, Cancel, Abandon, Active, InStream, InGraph
  <2>4. QED
    BY <2>1, <2>2, <2>3 DEF TurnStep
<1>2. ask' = ask /\ \E label : pc' = [pc EXCEPT ![r] = label]
  <2>1. CASE LoadForReview(r)
    BY <2>1 DEF LoadForReview, Goto
  <2>2. CASE ~ LoadForReview(r)
    <3>1. Moves(r)
      BY <2>2, GraphStepMoves, RunnerStepMoves DEF TurnStep, RunnerStep
    <3>2. QED
      BY <3>1 DEF Moves
  <2>3. QED
    BY <2>1, <2>2
<1>3. QED
  BY <1>1, <1>2 DEF TypeOK

(* A request is let in only when no other is under way.                     *)
LEMMA ArrivesAlone ==
  ASSUME MaxActive = 1, TypeOK, OneTurn, NEW r \in Requests, NEW a \in Asks, Arrive(r, a)
  PROVE  \A q \in Requests : pc[q] \notin Active
<1> DEFINE busy == {q \in Requests : pc[q] \in Active}
<1>1. Cardinality(busy) < 1
  BY DEF Arrive
<1>2. ASSUME NEW q \in Requests, pc[q] \in Active PROVE FALSE
  <2>1. busy = {q}
    BY <1>2 DEF OneTurn
  <2>2. Cardinality(busy) = 1
    BY <2>1, FS_Singleton
  <2>3. QED
    BY <1>1, <2>2
<1>3. QED
  BY <1>2

LEMMA NextTurnSteps ==
  ASSUME Next
  PROVE  \/ \E r \in Requests : TurnStep(r) \/ \E a \in Asks : Arrive(r, a)
         \/ Crash \/ UNCHANGED vars
BY DEF Next, TurnStep, Quiet

LEMMA OneTurnStep ==
  ASSUME MaxActive = 1, TypeOK, OneTurn, [Next]_vars
  PROVE  OneTurn'
<1>1. ASSUME NEW r \in Requests, TurnStep(r) PROVE OneTurn'
  BY <1>1, TurnStepActive DEF OneTurn
<1>2. ASSUME NEW r \in Requests, NEW a \in Asks, Arrive(r, a) PROVE OneTurn'
  <2>1. \A q \in Requests \ {r} : pc'[q] = pc[q]
    BY <1>2 DEF Arrive, Goto, TypeOK
  <2>2. QED
    BY <1>2, <2>1, ArrivesAlone DEF OneTurn
<1>3. CASE Crash
  BY <1>3 DEF Crash, OneTurn, Active, InGraph
<1>4. CASE UNCHANGED vars
  BY <1>4 DEF vars, OneTurn
<1>5. QED
  BY <1>1, <1>2, <1>3, <1>4, NextTurnSteps

(* The others of a turn: none of them is under way.                         *)
LEMMA Alone ==
  ASSUME TypeOK, OneTurn, NEW r \in Requests, pc[r] \in Active
  PROVE  \A q \in Requests \ {r} : pc[q] \notin Active /\ pc[q] \in {"new"} \cup Ended
BY DEF OneTurn, TypeOK


-----------------------------------------------------------------------------
(* The ids a turn leaves alone *)

LEMMA TouchedGrows ==
  ASSUME writes \subseteq writes', \A q \in Requests : Broken(q) => Broken(q)'
  PROVE  /\ \A q \in Requests : Touched(q) \subseteq Touched(q)'
         /\ LeftBehind \subseteq LeftBehind'
<1>1. \A q \in Requests : Touched(q) \subseteq Touched(q)'
  BY DEF Touched
<1>2. ASSUME NEW e \in LeftBehind PROVE e \in LeftBehind'
  <2>1. PICK q \in Requests : Broken(q) /\ e \in Touched(q)
    BY <1>2 DEF LeftBehind
  <2>2. Broken(q)' /\ e \in Touched(q)'
    BY <1>1, <2>1
  <2>3. QED
    BY <2>2 DEF LeftBehind
<1>3. QED
  BY <1>1, <1>2

(* A step that neither lists nor announces an id: no turn is done with what *)
(* it wrote, and what is under way goes on or is left behind.               *)
LEMMA QuietIds ==
  ASSUME TypeOK, IdsInv,
         announced' = announced, session'.committed = session.committed, Remembered' = Remembered,
         writes \subseteq writes',
         \A q \in Requests : Broken(q) => Broken(q)',
         \A q \in Requests : pc[q] = "done" => pc'[q] = "done",
         \A q \in Requests : pc[q] \in Telling =>
           pc'[q] \in Telling \/ Broken(q)' \/ \A w \in writes : w.by # q,
         \A q \in Requests : pc[q] = "announcing" => Broken(q)',
         \A q \in Requests : pc'[q] # "announcing",
         \A q \in Requests : pc'[q] \in Told => prior'[q] = session.committed,
         \A w \in writes' : w.by \in Requests,
         \A w \in writes' :
           pc'[w.by] \in Telling => w \in writes /\ pc[w.by] \in Telling /\ ckpt' = ckpt,
         \A w \in writes' : pc'[w.by] = "done" => w \in writes /\ pc[w.by] = "done"
  PROVE  IdsInv'
<1>1. (\A q \in Requests : Touched(q) \subseteq Touched(q)') /\ LeftBehind \subseteq LeftBehind'
  BY TouchedGrows
<1>2. \A q \in Requests : \A e : Broken(q)' /\ e \in Touched(q)' => e \in LeftBehind'
  BY DEF LeftBehind
<1>3. IdsListed'
  <2>1. ASSUME NEW e \in Remembered' \ session'.committed
        PROVE  e \in LeftBehind' \/ \E r \in Requests : pc'[r] \in Telling /\ e \in Touched(r)'
    <3>1. CASE e \in LeftBehind
      BY <1>1, <3>1
    <3>2. CASE e \notin LeftBehind
      <4>1. PICK r \in Requests : pc[r] \in Telling /\ e \in Touched(r)
        BY <3>2 DEF IdsInv, IdsListed
      <4>2. \E w \in writes : w.by = r
        BY <4>1 DEF Touched
      <4>3. e \in Touched(r)' /\ (pc'[r] \in Telling \/ Broken(r)')
        BY <1>1, <4>1, <4>2
      <4>4. QED
        BY <1>2, <4>3
    <3>3. QED
      BY <3>1, <3>2
  <2>2. session'.committed \subseteq Remembered'
    BY DEF IdsInv, IdsListed
  <2>3. \A w \in writes' : pc'[w.by] \in Telling =>
          w.touched \subseteq Remembered' /\ ckpt'.next = "END" /\ ckpt'.values.draft_committed
    BY DEF IdsInv, IdsListed
  <2>4. \A w \in writes' : pc'[w.by] \in {"announcing", "done"} => w.touched \subseteq session'.committed
    BY DEF IdsInv, IdsListed
  <2>5. QED
    BY <2>1, <2>2, <2>3, <2>4 DEF IdsListed
<1>4. IdsTold'
  <2>1. ASSUME NEW e \in session'.committed
        PROVE  e \in LeftBehind' \/ \E r \in Requests : e \in announced'[r]
    <3>1. CASE \E r \in Requests : pc[r] = "announcing" /\ e \in Handed(r)
      <4>1. PICK r \in Requests : pc[r] = "announcing" /\ e \in Handed(r)
        BY <3>1
      <4>2. Broken(r)' /\ e \in Touched(r) \cup LeftBehind
        BY <4>1 DEF IdsInv, IdsTold
      <4>3. QED
        BY <1>1, <1>2, <4>2
    <3>2. CASE ~ \E r \in Requests : pc[r] = "announcing" /\ e \in Handed(r)
      BY <1>1, <3>2 DEF IdsInv, IdsTold
    <3>3. QED
      BY <3>1, <3>2
  <2>2. \A r \in Requests : announced'[r] \subseteq session'.committed
    BY DEF IdsInv, IdsTold
  <2>3. AnnouncedOnce'
    BY <1>1 DEF IdsInv, IdsTold, AnnouncedOnce
  <2>4. CommittedIsTold'
    <3>1. UNION {announced'[r] : r \in Requests} = UNION {announced[r] : r \in Requests}
      OBVIOUS
    <3>2. QED
      BY <1>1, <3>1 DEF IdsInv, IdsTold, CommittedIsTold
  <2>5. \A r \in Requests : pc'[r] # "done" => announced'[r] = {}
    BY DEF IdsInv, IdsTold
  <2>6. QED
    BY <2>1, <2>2, <2>3, <2>4, <2>5 DEF IdsTold
<1>5. QED
  BY <1>3, <1>4 DEF IdsInv

-----------------------------------------------------------------------------
(* The ways a turn ends before it is through *)

(* The write of a turn is the first for its round.                          *)
LEMMA WriteOpensRound ==
  ASSUME TypeOK, GateInv, SequenceInv, NEW r \in Requests, NEW touched \in SUBSET Entities,
         At(r, "commit"), Approves(mem[r]), Applied(r, touched)
  PROVE  /\ pc[r] = "graph" /\ \A w \in writes : w.by # r
         /\ \E w \in writes' : w.by = r /\ w.touched = touched /\ writes' = writes \cup {w}
         /\ \A w \in writes' : w.grant = w.by /\ Past(Basis(w.by)) /\ Basis(w.by) # ckpt.writer
         /\ \A v, w \in writes' : Basis(v.by) = Basis(w.by) => v = w
<1> DEFINE new == [by |-> r, grant |-> mem[r].grant, draft |-> mem[r].draft, touched |-> touched]
<1>1. pc[r] = "graph" /\ node[r] = "commit"
  BY DEF At, SequenceInv, TurnInv, Shows, StoppedAtGate, InGraph, AskedOK
<1>2. writes' = writes \cup {new} /\ new.by = r /\ new.grant = r /\ new.touched = touched
  BY <1>1 DEF Applied, SequenceInv, RoundsInv
<1>3. \A w \in writes : w.by # r
  BY <1>1 DEF GateInv
<1>4. Past(Basis(r)) /\ ckpt.writer = r /\ \A w \in writes : Basis(w.by) # Basis(r)
  BY <1>1, <1>3 DEF SequenceInv, RoundsInv, TurnInv, InGraph
<1>5. Basis(r) # r
  BY <1>1, <1>4 DEF Past, Ended
<1> HIDE DEF new
<1>6. \A w \in writes' : w.grant = w.by /\ Past(Basis(w.by)) /\ Basis(w.by) # ckpt.writer
  BY <1>2, <1>4, <1>5 DEF SequenceInv, RoundsInv
<1>7. \A v, w \in writes' : Basis(v.by) = Basis(w.by) => v = w
  BY <1>2, <1>4 DEF SequenceInv, RoundsInv
<1>8. QED
  BY <1>1, <1>2, <1>3, <1>6, <1>7

(* A turn that is refused, fails or is lost leaves checkpoint and ids alone.*)
LEMMA LeaveSequence ==
  ASSUME TypeOK, GateInv, SequenceInv, NEW r \in Requests, pc[r] \in Active,
         NEW label \in {"refused", "failed", "lost"}, Leave(r, label),
         UNCHANGED <<ckpt, ask, origin, announced>>,
         \/ session' = session /\ (label = "lost" \/ pc[r] = "guarded")
         \/ /\ session' = [session EXCEPT !.status = "failed"]
            /\ label = "failed" /\ pc[r] \in InStream,
         \/ UNCHANGED writes
         \/ /\ label = "failed" /\ At(r, "commit") /\ Approves(mem[r])
            /\ \E touched \in SUBSET Entities : Applied(r, touched)
  PROVE  ThreadInv' /\ TurnInv' /\ RegistryInv' /\ RoundsInv' /\ IdsInv'
<1> USE DEF TypeOK, SequenceInv
<1>1. \A q \in Requests \ {r} : pc[q] \notin Active /\ pc[q] \in {"new"} \cup Ended
  BY Alone
<1>2. /\ pc'[r] = label /\ label \in Ended
      /\ \A q \in Requests \ {r} : pc'[q] = pc[q] /\ mem'[q] = mem[q] /\ prior'[q] = prior[q]
  BY DEF Leave, Goto, Ended
<1>3. \A q \in Requests : pc'[q] \notin Active
  BY <1>1, <1>2 DEF Ended, Active, InGraph
<1>4. ThreadInv'
  BY <1>2 DEF ThreadInv, StoppedAtGate, BeforeDecision, Ended
<1>5. TurnInv'
  BY <1>3 DEF TurnInv, Active, InGraph
<1>6. RegistryInv'
  <2>1. session'.status \in {session.status, "failed"} /\ session'.review = session.review
    OBVIOUS
  <2>2. QED
    BY <1>3, <2>1 DEF RegistryInv, Shows, StoppedAtGate, SettledStatuses
<1>7. RoundsInv'
  <2>1. /\ \A w \in writes' : w.grant = w.by /\ Past(Basis(w.by)) /\ Basis(w.by) # ckpt.writer
        /\ \A v, w \in writes' : Basis(v.by) = Basis(w.by) => v = w
    BY WriteOpensRound DEF RoundsInv
  <2>2. \A q : Past(q) => Past(q)'
    BY <1>2 DEF Past
  <2>3. \A q : Basis(q)' = Basis(q)
    BY DEF Basis
  <2>4. \A w \in writes' : w.grant = w.by /\ Past(Basis(w.by))' /\ (Basis(w.by) # ckpt.writer)'
    BY <2>1, <2>2, <2>3
  <2>5. QED
    BY <1>3, <2>1, <2>3, <2>4 DEF RoundsInv, Active, InGraph
<1>8. IdsInv'
  <2>1. Remembered' = Remembered /\ session'.committed = session.committed
    BY DEF Remembered
  <2>2. \A w \in writes' : w \in writes \/ w.by = r
    BY WriteOpensRound
  <2>3. \A w \in writes' : w.by \in Requests
    BY <2>2 DEF Writes
  <2>4. writes \subseteq writes'
    BY WriteOpensRound
  <2>5. \A q \in Requests : (Broken(q) => Broken(q)') /\ (pc[q] = "done" => pc'[q] = "done")
    BY <1>1, <1>2 DEF Broken, Active, InGraph
  <2>6. \A q \in Requests : pc[q] \in Telling \cup {"announcing"} => Broken(q)'
    BY <1>1, <1>2 DEF Broken, Active, Telling, InStream, InGraph
  <2>7. \A q \in Requests : pc'[q] \notin Told \cup Telling \cup {"announcing"}
    BY <1>3 DEF Told, Telling, Active, InGraph
  <2>8. \A w \in writes' : pc'[w.by] = "done" => w \in writes /\ pc[w.by] = "done"
    BY <1>2, <2>2, <2>3
  <2>9. QED
    BY <2>1, <2>3, <2>4, <2>5, <2>6, <2>7, <2>8, QuietIds
<1>9. QED
  BY <1>4, <1>5, <1>6, <1>7, <1>8

LEMMA FaultSequence ==
  ASSUME TypeOK, GateInv, SequenceInv,
         \/ \E r \in Requests : NodeError(r) \/ Timeout(r) \/ Cancel(r) \/ Abandon(r)
                                \/ CommitRaises(r)
         \/ Crash
  PROVE  ThreadInv' /\ TurnInv' /\ RegistryInv' /\ RoundsInv' /\ IdsInv'
<1>1. ASSUME NEW r \in Requests, Fail(r), pc[r] \in InStream
      PROVE  ThreadInv' /\ TurnInv' /\ RegistryInv' /\ RoundsInv' /\ IdsInv'
  BY <1>1, LeaveSequence DEF Fail, history, Active, InStream
<1>2. ASSUME NEW r \in Requests, Abandon(r)
      PROVE  ThreadInv' /\ TurnInv' /\ RegistryInv' /\ RoundsInv' /\ IdsInv'
  BY <1>2, LeaveSequence DEF Abandon, history
<1>3. ASSUME NEW r \in Requests, CommitRaises(r)
      PROVE  ThreadInv' /\ TurnInv' /\ RegistryInv' /\ RoundsInv' /\ IdsInv'
  <2>1. /\ At(r, "commit") /\ Approves(mem[r]) /\ Leave(r, "failed")
        /\ \E touched \in SUBSET Entities : Applied(r, touched)
        /\ session' = [session EXCEPT !.status = "failed"]
        /\ UNCHANGED <<ckpt, ask, origin, announced>>
    BY <1>3 DEF CommitRaises
  <2>2. pc[r] \in InStream /\ pc[r] \in Active
    BY <2>1 DEF At, InStream, InGraph, Active
  <2>3. QED
    BY <2>1, <2>2, LeaveSequence
<1>4. CASE Crash
  <2>1. /\ \A q \in Requests : pc'[q] = IF pc[q] \in Active THEN "lost" ELSE pc[q]
        /\ UNCHANGED <<session, ckpt, ask, approved, writes, origin, announced>>
    BY <1>4 DEF Crash, history
  <2>2. IdsInv'
    <3>1. Remembered' = Remembered /\ \A w \in writes : w.by \in Requests
      BY <2>1 DEF TypeOK, Writes, Remembered
    <3>2. \A q \in Requests :
            /\ (Broken(q) => Broken(q)') /\ (pc[q] = "done" => pc'[q] = "done")
            /\ pc[q] \in Telling \cup {"announcing"} => Broken(q)'
            /\ pc'[q] \notin Told \cup Telling \cup {"announcing"}
            /\ pc'[q] = "done" => pc[q] = "done"
      BY <2>1 DEF Broken, Told, Telling, Active, InGraph
    <3>3. QED
      BY <2>1, <3>1, <3>2, QuietIds DEF SequenceInv
  <2>3. \A q \in Requests : pc'[q] \notin Active
    BY <2>1 DEF Active, InGraph
  <2>4. \A q : Past(q) => Past(q)'
    BY <2>1 DEF Past, Ended
  <2>5. RoundsInv'
    BY <2>1, <2>3, <2>4 DEF SequenceInv, RoundsInv, Basis, Active, InGraph
  <2>6. ThreadInv' /\ TurnInv' /\ RegistryInv'
    BY <2>1, <2>3 DEF SequenceInv, ThreadInv, TurnInv, RegistryInv, StoppedAtGate, Shows,
                      BeforeDecision, Active, InGraph, SettledStatuses
  <2>7. QED
    BY <2>2, <2>5, <2>6
<1>5. QED
  BY <1>1, <1>2, <1>3, <1>4 DEF NodeError, Timeout, Cancel

-----------------------------------------------------------------------------
(* How a turn begins *)

LEMMA ArriveSequence ==
  ASSUME MaxActive = 1, TypeOK, SequenceInv, NEW r \in Requests, NEW a \in Asks, Arrive(r, a)
  PROVE  ThreadInv' /\ TurnInv' /\ RegistryInv' /\ RoundsInv' /\ IdsInv'
<1> USE DEF TypeOK, SequenceInv, history
<1>1. \A q \in Requests : pc[q] \notin Active
  BY ArrivesAlone
<1>2. /\ pc[r] = "new" /\ pc'[r] \in {"guarded", "refused"}
      /\ \A q \in Requests \ {r} : pc'[q] = pc[q] /\ ask'[q] = ask[q]
      /\ UNCHANGED <<session, ckpt, mem, node, prior, writes, origin, announced>>
  BY DEF Arrive, Goto
<1>3. \A q \in Requests : pc'[q] \in Active => q = r /\ pc'[q] = "guarded"
  BY <1>1, <1>2 DEF Active, InGraph
<1>4. \A q : Past(q) => Past(q)'
  BY <1>2 DEF Past, Ended
<1>5. ThreadInv' /\ TurnInv' /\ RegistryInv'
  BY <1>2, <1>3 DEF ThreadInv, TurnInv, RegistryInv, StoppedAtGate, Shows, BeforeDecision,
                    Active, InGraph, SettledStatuses, Waiting
<1>6. RoundsInv'
  BY <1>2, <1>3, <1>4 DEF RoundsInv, Basis, Active, InGraph
<1>7. IdsInv'
  <2>1. Remembered' = Remembered /\ \A w \in writes : w.by \in Requests
    BY <1>2 DEF Remembered, Writes
  <2>2. \A q \in Requests :
          /\ (Broken(q) => Broken(q)') /\ (pc[q] = "done" => pc'[q] = "done")
          /\ pc[q] \notin Telling \cup {"announcing"}
          /\ pc'[q] \notin Told \cup Telling \cup {"announcing"}
          /\ pc'[q] = "done" => pc[q] = "done"
    BY <1>1, <1>2, <1>3 DEF Broken, Told, Telling, Active, InGraph
  <2>3. QED
    BY <1>2, <2>1, <2>2, QuietIds
<1>8. QED
  BY <1>5, <1>6, <1>7

(* The registry is read, and marked as running.                             *)
LEMMA WaitingSequence ==
  ASSUME TypeOK, GateInv, SequenceInv, NEW r \in Requests, RequireSession(r) \/ StartTurn(r)
  PROVE  ThreadInv' /\ TurnInv' /\ RegistryInv' /\ RoundsInv' /\ IdsInv'
<1> USE DEF TypeOK, SequenceInv, history, Goto
<1>1. pc[r] \in Waiting /\ pc[r] \in Active
  BY DEF RequireSession, StartTurn, Waiting, Active
<1>2. \A q \in Requests \ {r} : pc[q] \notin Active
  BY <1>1, Alone
<1>3. CASE Leave(r, "refused") /\ RequireSession(r)
  BY <1>1, <1>3, LeaveSequence DEF RequireSession, Waiting
<1>4. CASE \/ RequireSession(r) /\ pc'[r] = "required"
           \/ StartTurn(r)
  <2>1. /\ pc'[r] \in {"required", "starting"}
        /\ \A q \in Requests \ {r} : pc'[q] = pc[q] /\ prior'[q] = prior[q]
        /\ UNCHANGED <<ckpt, ask, mem, node, writes, origin, announced>>
        /\ session'.review = session.review /\ session'.committed = session.committed
    BY <1>4 DEF RequireSession, StartTurn, Leave
  <2>2. \A q \in Requests : pc'[q] \in Active => q = r
    BY <1>2, <2>1
  <2>3. /\ pc'[r] = "required" =>
             /\ session' = session /\ prior'[r] = session.committed
             /\ Admissible(ask[r].kind, session.status)
        /\ pc'[r] = "starting" =>
             /\ session'.status = "running" /\ prior' = prior /\ pc[r] = "required"
    BY <1>4 DEF RequireSession, StartTurn, Leave
  <2>4. \A q : Past(q) => Past(q)'
    BY <1>1, <2>1 DEF Past, Ended, Waiting
  <2>5. ThreadInv'
    BY <1>1, <2>1 DEF ThreadInv, StoppedAtGate, BeforeDecision, Waiting
  <2>6. TurnInv'
    BY <2>1, <2>2, <2>3 DEF TurnInv, RegistryInv, Shows, StoppedAtGate, Admissible, Active, InGraph
  <2>7. RegistryInv'
    BY <2>1, <2>2, <2>3 DEF RegistryInv, Shows, StoppedAtGate, SettledStatuses, Waiting, Active, InGraph
  <2>8. RoundsInv'
    BY <2>1, <2>2, <2>4 DEF RoundsInv, Basis, Active, InGraph
  <2>9. IdsInv'
    <3>1. Remembered' = Remembered /\ \A w \in writes : w.by \in Requests
      BY <2>1 DEF Remembered, Writes
    <3>2. prior'[r] = session.committed
      BY <2>1, <2>3 DEF IdsInv, IdsListed, Told
    <3>3. \A q \in Requests :
            /\ (Broken(q) => Broken(q)') /\ (pc[q] = "done" => pc'[q] = "done")
            /\ pc[q] \notin Telling \cup {"announcing"}
            /\ pc'[q] \notin Telling \cup {"announcing"}
            /\ pc'[q] = "done" => pc[q] = "done"
      BY <1>1, <1>2, <2>1 DEF Broken, Waiting, Telling, Active, InGraph
    <3>4. \A q \in Requests : pc'[q] \in Told => prior'[q] = session.committed
      BY <2>2, <3>2 DEF Told, Telling, Active, InGraph
    <3>5. QED
      BY <2>1, <3>1, <3>3, <3>4, QuietIds
  <2>10. QED
    BY <2>5, <2>6, <2>7, <2>8, <2>9
<1>5. QED
  BY <1>3, <1>4 DEF RequireSession

(* The thread is loaded: a new input abandons what it stopped at, a review  *)
(* resumes the draft that it showed.                                        *)
LEMMA LoadSequence ==
  ASSUME TypeOK, AskedOK, GateInv, SequenceInv, NEW r \in Requests, LoadForInput(r) \/ LoadForReview(r)
  PROVE  ThreadInv' /\ TurnInv' /\ RegistryInv' /\ RoundsInv' /\ IdsInv'
<1> USE DEF TypeOK, SequenceInv, Goto
<1>1. pc[r] = "starting" /\ pc[r] \in Active
  BY DEF LoadForInput, LoadForReview, Active
<1>2. \A q \in Requests \ {r} : pc[q] \notin Active
  BY <1>1, Alone
<1>3. \A w \in writes : w.by # r /\ w.by \in Requests
  BY <1>1 DEF GateInv, BeforeDecision, Writes
<1>4. Past(ckpt.writer) /\ ckpt.writer # r
  BY <1>1, <1>2 DEF ThreadInv, BeforeDecision, Past, Active
<1>5. /\ pc'[r] \in {"graph", "resuming"} /\ (pc'[r] = "graph" <=> LoadForInput(r))
      /\ mem'[r] = ckpt'.values /\ node'[r] = ckpt'.next
      /\ \A q \in Requests \ {r} : pc'[q] = pc[q] /\ mem'[q] = mem[q] /\ node'[q] = node[q]
      /\ \A q \in Requests \ {r} : Basis(q)' = Basis(q)
      /\ Basis(r)' = ckpt.writer
      /\ UNCHANGED <<session, ask, prior, writes, announced>>
      /\ \/ /\ pc'[r] = "resuming" /\ ckpt' = ckpt /\ Shows
            /\ node'[r] = "human_review" /\ ask[r].kind = "review"
         \/ /\ pc'[r] = "graph" /\ ckpt'.interrupted = FALSE /\ ckpt'.writer = r
            /\ ckpt'.next # "commit"
            /\ ckpt'.values.committed_entity_ids = ckpt.values.committed_entity_ids
  <2>1. CASE LoadForInput(r)
    <3> DEFINE v == TurnInput(ask[r], ckpt.values)
               entry == RouteEntry(v)
    <3>1. /\ mem' = [mem EXCEPT ![r] = v] /\ node' = [node EXCEPT ![r] = entry]
          /\ ckpt' = [values |-> v, next |-> entry, interrupted |-> FALSE, writer |-> r]
          /\ origin' = [origin EXCEPT ![r] = [entry |-> entry, interrupted |-> ckpt.interrupted,
                                              basis |-> ckpt.writer]]
          /\ pc' = [pc EXCEPT ![r] = "graph"]
          /\ UNCHANGED <<session, ask, prior, writes, announced>> /\ ask[r].kind # "review"
      BY <2>1 DEF LoadForInput, Remember
    <3>2. ask[r] \in Asks /\ ckpt.values \in GraphState
      BY <1>1 DEF AskedOK
    <3>3. v \in GraphState /\ v.committed_entity_ids = ckpt.values.committed_entity_ids
      <4>1. v \in GraphState
        BY <3>1, <3>2, TurnInputType
      <4>2. v.committed_entity_ids = ckpt.values.committed_entity_ids
        BY <3>2 DEF TurnInput, GraphState
      <4>3. QED
        BY <4>1, <4>2
    <3>4. entry # "commit"
      <4>1. v.skill_kickoff \in SkillEntries \cup {"none"}
        BY <3>3 DEF GraphState
      <4>2. QED
        BY <4>1 DEF RouteEntry, SkillEntries
    <3> HIDE DEF v, entry
    <3>5. /\ \A q \in Requests \ {r} : origin'[q] = origin[q]
          /\ origin'[r].basis = ckpt.writer
      BY <3>1
    <3>6. /\ pc'[r] = "graph" /\ mem'[r] = v /\ node'[r] = entry
          /\ \A q \in Requests \ {r} : pc'[q] = pc[q] /\ mem'[q] = mem[q] /\ node'[q] = node[q]
          /\ ckpt'.values = v /\ ckpt'.next = entry /\ ckpt'.writer = r /\ ckpt'.interrupted = FALSE
      BY <3>1
    <3>7. QED
      BY <2>1, <3>1, <3>3, <3>4, <3>5, <3>6 DEF Basis
  <2>2. CASE LoadForReview(r)
    <3>1. Shows /\ ckpt.next = "human_review"
      BY <1>1, <2>2 DEF LoadForReview, TurnInv, Shows, StoppedAtGate
    <3>2. ~ LoadForInput(r)
      BY <2>2 DEF LoadForReview, LoadForInput
    <3>3. QED
      BY <2>2, <3>1, <3>2 DEF LoadForReview, Remember, Basis
  <2>3. QED
    BY <2>1, <2>2
<1>6. \A q \in Requests : pc'[q] \in Active => q = r
  BY <1>2, <1>5
<1>7. \A q : Past(q) => q # r /\ Past(q)'
  BY <1>1, <1>5 DEF Past, Ended
<1>8. ThreadInv'
  BY <1>4, <1>5 DEF ThreadInv, StoppedAtGate, BeforeDecision
<1>9. TurnInv'
  BY <1>5, <1>6 DEF TurnInv, Shows, StoppedAtGate, Active, InGraph
<1>10. RegistryInv'
  <2>1. session'.status = "running"
    BY <1>1, <1>5 DEF RegistryInv, Active, Waiting
  <2>2. QED
    BY <1>5, <2>1 DEF RegistryInv, SettledStatuses
<1>11. RoundsInv'
  <2>1. /\ pc'[r] \in {"graph", "applied"} /\ node'[r] = "commit" => FALSE
        /\ Past(Basis(r))' /\ \A w \in writes' : w.by # r => Basis(w.by)' # Basis(r)'
    BY <1>3, <1>4, <1>5, <1>7 DEF RoundsInv
  <2>2. \A w \in writes' : w.grant = w.by /\ Past(Basis(w.by))' /\ Basis(w.by)' # ckpt'.writer
    BY <1>3, <1>4, <1>5, <1>7 DEF RoundsInv
  <2>3. \A v, w \in writes' : Basis(v.by)' = Basis(w.by)' => v = w
    BY <1>3, <1>5 DEF RoundsInv
  <2>4. QED
    BY <1>6, <2>1, <2>2, <2>3 DEF RoundsInv, Active, InGraph
<1>12. IdsInv'
  <2>1. Remembered' = Remembered
    BY <1>5 DEF Remembered
  <2>2. prior'[r] = session.committed
    BY <1>1, <1>5 DEF IdsInv, IdsListed, Told
  <2>3. \A q \in Requests :
          /\ (Broken(q) => Broken(q)') /\ (pc[q] = "done" => pc'[q] = "done")
          /\ pc[q] \notin Telling \cup {"announcing"}
          /\ pc'[q] \notin Telling \cup {"announcing"}
          /\ pc'[q] = "done" => pc[q] = "done"
    BY <1>1, <1>2, <1>5 DEF Broken, Telling, Active, InGraph
  <2>4. \A q \in Requests : pc'[q] \in Told => prior'[q] = session.committed
    BY <1>6, <2>2 DEF Told, Telling, Active, InGraph
  <2>5. QED
    BY <1>3, <1>5, <2>1, <2>3, <2>4, QuietIds
<1>13. QED
  BY <1>8, <1>9, <1>10, <1>11, <1>12

-----------------------------------------------------------------------------
(* The nodes of the graph *)

(* A node returns: it commits only what it decided itself, and forgets no   *)
(* id that the thread has committed.                                        *)
LEMMA SuperstepSequence ==
  ASSUME TypeOK, GateInv, SequenceInv, NEW r \in Requests, NEW next, NEW v, Superstep(r, next, v),
         pc[r] \in InGraph, UNCHANGED writes,
         next = "commit" /\ Approves(v) => v.grant = r,
         \/ /\ pc[r] # "applied"
            /\ v.committed_entity_ids = mem[r].committed_entity_ids
         \/ /\ pc[r] = "applied" /\ next = "END" /\ v.draft_committed
            /\ v.committed_entity_ids = mem[r].committed_entity_ids \cup Touched(r)
  PROVE  ThreadInv' /\ TurnInv' /\ RegistryInv' /\ RoundsInv' /\ IdsInv'
<1> USE DEF TypeOK, SequenceInv, Goto
<1>1. pc[r] \in Active /\ \A q \in Requests \ {r} : pc[q] \notin Active
  <2>1. pc[r] \in Active
    BY DEF Active
  <2>2. QED
    BY <2>1, Alone
<1>2. /\ pc'[r] = IF next = "END" THEN "finalizing" ELSE "graph"
      /\ mem'[r] = v /\ node'[r] = next
      /\ \A q \in Requests \ {r} : pc'[q] = pc[q] /\ mem'[q] = mem[q] /\ node'[q] = node[q]
      /\ ckpt'.values = v /\ ckpt'.next = next /\ ckpt'.writer = r /\ ckpt'.interrupted = FALSE
      /\ UNCHANGED <<session, ask, prior, origin, announced, writes>>
  BY DEF Superstep
<1>3. \A q \in Requests : pc'[q] \in Active => q = r /\ pc'[q] \in {"graph", "finalizing"}
  BY <1>1, <1>2
<1>4. Past(Basis(r)) /\ \A w \in writes : w.by # r => Basis(w.by) # Basis(r)
  BY DEF RoundsInv
<1>5. \A q : Past(q) => q # r /\ Past(q)'
  BY <1>2 DEF Past, Ended, InGraph
<1>6. ThreadInv'
  BY <1>2 DEF ThreadInv, StoppedAtGate, BeforeDecision
<1>7. TurnInv'
  BY <1>2, <1>3 DEF TurnInv, Active, InGraph
<1>8. RegistryInv'
  <2>1. session'.status = "running"
    BY <1>2 DEF RegistryInv, Active, InGraph, Waiting
  <2>2. QED
    BY <1>2, <2>1 DEF RegistryInv, SettledStatuses
<1>9. RoundsInv'
  <2>1. \A q : Basis(q)' = Basis(q)
    BY <1>2 DEF Basis
  <2>2. \A w \in writes' : w.grant = w.by /\ Past(Basis(w.by))' /\ Basis(w.by)' # ckpt'.writer
    BY <1>2, <1>5, <2>1 DEF RoundsInv
  <2>3. \A u, w \in writes' : Basis(u.by)' = Basis(w.by)' => u = w
    BY <1>2, <2>1 DEF RoundsInv
  <2>4. node'[r] = "commit" /\ Approves(mem'[r]) => mem'[r].grant = r
    BY <1>2
  <2>5. Past(Basis(r))' /\ \A w \in writes' : w.by # r => Basis(w.by)' # Basis(r)'
    BY <1>2, <1>4, <1>5, <2>1
  <2>6. QED
    BY <1>3, <2>2, <2>3, <2>4, <2>5 DEF RoundsInv, Active, InGraph, Approves
<1>10. IdsInv'
  <2>1. \A q \in Requests :
          /\ (Broken(q) => Broken(q)') /\ (pc[q] = "done" => pc'[q] = "done")
          /\ pc[q] \notin Telling \cup {"announcing"}
          /\ pc'[q] # "announcing"
          /\ pc'[q] = "done" => pc[q] = "done"
          /\ pc'[q] \in Telling => q = r
    BY <1>1, <1>2, <1>3 DEF Broken, Telling, Active, InGraph
  <2>2. prior'[r] = session.committed
    BY <1>2 DEF IdsInv, IdsListed, Told
  <2>3. \A q \in Requests : pc'[q] \in Told => prior'[q] = session.committed
    BY <1>3, <2>2 DEF Told, Telling, Active, InGraph
  <2>4. \A w \in writes : w.by \in Requests /\ (w.by = r => pc[r] = "applied")
    BY DEF GateInv, Writes, BeforeDecision, InGraph
  <2>5. mem[r] = ckpt.values
    BY DEF TurnInv
  <2>6. CASE pc[r] # "applied"
    <3>1. Remembered' = Remembered
      BY <1>2, <2>5, <2>6 DEF Remembered, InGraph
    <3>2. \A w \in writes : pc'[w.by] \notin Telling
      BY <2>1, <2>4, <2>6
    <3>3. QED
      BY <1>2, <2>1, <2>3, <2>4, <3>1, <3>2, QuietIds
  <2>7. CASE pc[r] = "applied"
    <3>1. next = "END" /\ Remembered' = Remembered \cup Touched(r)
      BY <1>2, <2>5, <2>7 DEF Remembered
    <3>2. \A q \in Requests : Touched(q)' = Touched(q)
      BY <1>2 DEF Touched
    <3>3. LeftBehind \subseteq LeftBehind'
      BY <1>2, <2>1, TouchedGrows
    <3>4. IdsListed'
      <4>1. \A e \in Remembered' \ session'.committed :
              e \in LeftBehind' \/ (pc'[r] \in Telling /\ e \in Touched(r)')
        BY <1>2, <2>1, <3>1, <3>2, <3>3 DEF IdsInv, IdsListed, Telling
      <4>2. \A w \in writes' :
              pc'[w.by] \in Telling =>
                w.touched \subseteq Remembered' /\ ckpt'.next = "END" /\ ckpt'.values.draft_committed
        BY <1>2, <2>1, <2>4, <2>7, <3>1 DEF Touched
      <4>3. \A w \in writes' :
              pc'[w.by] \in {"announcing", "done"} => w.touched \subseteq session'.committed
        BY <1>2, <2>1, <2>4 DEF IdsInv, IdsListed
      <4>4. session'.committed \subseteq Remembered'
        BY <1>2, <3>1 DEF IdsInv, IdsListed
      <4>5. QED
        BY <1>2, <2>3, <4>1, <4>2, <4>3, <4>4 DEF IdsListed
    <3>5. IdsTold'
      <4>1. AnnouncedOnce' /\ CommittedIsTold'
        BY <1>2, <2>1, <2>4, <3>2, <3>3 DEF IdsInv, IdsTold, AnnouncedOnce, CommittedIsTold
      <4>2. QED
        BY <1>2, <2>1, <2>7, <3>3, <4>1 DEF IdsInv, IdsTold
    <3>6. QED
      BY <3>4, <3>5 DEF IdsInv
  <2>8. QED
    BY <2>6, <2>7
<1>11. QED
  BY <1>6, <1>7, <1>8, <1>9, <1>10

(* The nodes up to the gate, and a commit with nothing to write.            *)
LEMMA NodeSequence ==
  ASSUME TypeOK, GateInv, SequenceInv, NEW r \in Requests,
         \/ Assistant(r) \/ Tools(r) \/ Brainstorm(r)
         \/ BeginChanges(r) \/ RetrieveContext(r)
         \/ GenerateChanges(r) \/ ValidateChanges(r)
         \/ ReviewNothing(r) \/ CommitNothing(r)
  PROVE  ThreadInv' /\ TurnInv' /\ RegistryInv' /\ RoundsInv' /\ IdsInv'
<1> DEFINE Same(v) == v.committed_entity_ids = mem[r].committed_entity_ids
<1>0. mem[r] \in GraphState
  BY DEF TypeOK
<1>1. ASSUME NEW next, NEW v, Superstep(r, next, v), ReadOnly, next # "commit" \/ ~ Approves(v),
             Same(v), pc[r] \in {"resuming", "graph"}
      PROVE  ThreadInv' /\ TurnInv' /\ RegistryInv' /\ RoundsInv' /\ IdsInv'
  BY <1>1, SuperstepSequence DEF ReadOnly, InGraph
<1>2. ASSUME NEW u \in GraphState, NEW v \in Spend(u)
      PROVE  v \in GraphState /\ v.committed_entity_ids = u.committed_entity_ids
  BY <1>2 DEF Spend, GraphState
<1>3. CASE Assistant(r)
  BY <1>0, <1>1, <1>2, <1>3 DEF Assistant, At, SkillEntries
<1>4. CASE Tools(r) \/ RetrieveContext(r)
  BY <1>1, <1>4 DEF Tools, RetrieveContext, At
<1>5. CASE Brainstorm(r)
  <2>1. PICK v \in Spend(mem[r]) : Superstep(r, "END", [v EXCEPT !.skill_kickoff = "none"])
    BY <1>5 DEF Brainstorm
  <2>2. Same([v EXCEPT !.skill_kickoff = "none"])
    BY <1>0, <1>2 DEF GraphState
  <2>3. QED
    BY <1>1, <1>5, <2>1, <2>2 DEF Brainstorm, At
<1>6. CASE BeginChanges(r)
  <2>1. Same(FreshProposal(mem[r]))
    BY <1>0 DEF FreshProposal, GraphState
  <2>2. QED
    BY <1>1, <1>6, <2>1 DEF BeginChanges, At
<1>7. CASE GenerateChanges(r)
  <2> DEFINE counted == [mem[r] EXCEPT !.attempts = @ + 1, !.retry_feedback = FALSE]
  <2>1. counted \in GraphState /\ Same(counted)
    <3>1. mem[r].attempts + 1 \in Nat
      BY <1>0 DEF GraphState
    <3>2. QED
      BY <1>0, <3>1 DEF GraphState
  <2> HIDE DEF counted
  <2>2. \A d \in Drafts, v \in Spend(counted) : Same([v EXCEPT !.draft = d])
    BY <1>2, <2>1 DEF GraphState
  <2>3. PICK v : Superstep(r, "validate_changes", v) /\ Same(v)
    BY <1>7, <2>1, <2>2 DEF GenerateChanges, counted
  <2>4. QED
    BY <1>1, <1>7, <2>3 DEF GenerateChanges, At
<1>8. CASE ValidateChanges(r)
  <2>1. \A v : RouteAfterValidate(v) # "commit"
    BY DEF RouteAfterValidate
  <2>2. Same([mem[r] EXCEPT !.retry_feedback = TRUE])
    BY <1>0 DEF GraphState
  <2>3. \A d \in Drafts, v \in Spend(mem[r]) : Same([v EXCEPT !.draft = d, !.attempts = @ + 1])
    BY <1>0, <1>2 DEF GraphState
  <2>4. \E v : Superstep(r, RouteAfterValidate(v), v) /\ Same(v)
    BY <1>8, <2>2, <2>3 DEF ValidateChanges
  <2>5. QED
    BY <1>1, <1>8, <2>1, <2>4 DEF ValidateChanges, At
<1>9. CASE ReviewNothing(r)
  <2> DEFINE v == [mem[r] EXCEPT !.decision_action = "none", !.grant = NoOne]
  <2>1. Same(v) /\ v.decision_action = "none"
    BY <1>0 DEF GraphState
  <2>2. Superstep(r, RouteAfterReview(v), v) /\ ReadOnly /\ pc[r] \in {"resuming", "graph"}
    BY <1>9 DEF ReviewNothing, At
  <2>3. ~ Approves(v)
    BY <2>1 DEF Approves
  <2> HIDE DEF v
  <2>4. QED
    BY <1>1, <2>1, <2>2, <2>3
<1>10. CASE CommitNothing(r)
  <2>1. Same([mem[r] EXCEPT !.draft = NoDraft])
    BY <1>0 DEF GraphState
  <2>2. QED
    BY <1>1, <1>10, <2>1 DEF CommitNothing, At
<1>11. QED
  BY <1>3, <1>4, <1>5, <1>6, <1>7, <1>8, <1>9, <1>10

(* The decision, and the commit that is saved.                              *)
LEMMA DecideSequence ==
  ASSUME TypeOK, AskedOK, GateInv, SequenceInv, NEW r \in Requests, Decide(r) \/ CommitSaved(r)
  PROVE  ThreadInv' /\ TurnInv' /\ RegistryInv' /\ RoundsInv' /\ IdsInv'
<1>0. mem[r] \in GraphState
  BY DEF TypeOK
<1>1. CASE Decide(r)
  <2> DEFINE v == Decided(mem[r], r, ask[r])
  <2>1. Superstep(r, RouteAfterReview(v), v) /\ UNCHANGED writes /\ pc[r] = "resuming"
    BY <1>1 DEF Decide
  <2>2. /\ v.committed_entity_ids = mem[r].committed_entity_ids
        /\ v.decision_action = ask[r].action /\ (ask[r].action = "approve" => v.grant = r)
    BY <1>0 DEF Decided, GraphState
  <2>3. Approves(v) => v.grant = r
    BY <2>2 DEF Approves
  <2> HIDE DEF v
  <2>4. QED
    BY <2>1, <2>2, <2>3, SuperstepSequence DEF InGraph
<1>2. CASE CommitSaved(r)
  <2> DEFINE v == [mem[r] EXCEPT !.draft = NoDraft, !.draft_committed = TRUE,
                     !.committed_entity_ids = @ \cup Touched(r)]
  <2>1. v.draft_committed /\ v.committed_entity_ids = mem[r].committed_entity_ids \cup Touched(r)
    BY <1>0 DEF GraphState
  <2>2. Superstep(r, "END", v) /\ UNCHANGED writes /\ pc[r] = "applied"
    BY <1>2 DEF CommitSaved, ReadOnly
  <2> HIDE DEF v
  <2>3. QED
    BY <2>1, <2>2, SuperstepSequence DEF InGraph
<1>3. QED
  BY <1>1, <1>2

(* The gate: the thread holds the draft the turn stopped with.              *)
LEMMA InterruptSequence ==
  ASSUME TypeOK, GateInv, SequenceInv, NEW r \in Requests, Interrupt(r)
  PROVE  ThreadInv' /\ TurnInv' /\ RegistryInv' /\ RoundsInv' /\ IdsInv'
<1> USE DEF TypeOK, SequenceInv, Goto, history
<1>1. pc[r] = "graph" /\ pc[r] \in Active
  BY DEF Interrupt, Active, InGraph
<1>2. \A q \in Requests \ {r} : pc[q] \notin Active
  BY <1>1, Alone
<1>3. /\ pc'[r] = "finalizing" /\ \A q \in Requests \ {r} : pc'[q] = pc[q]
      /\ ckpt'.values = ckpt.values /\ ckpt'.next = ckpt.next /\ ckpt'.writer = ckpt.writer
      /\ UNCHANGED <<session, ask, mem, node, prior, writes, origin, announced>>
  BY DEF Interrupt
<1>4. ckpt'.values.draft # NoDraft /\ ckpt'.next = "human_review"
  BY <1>1, <1>3 DEF Interrupt, TurnInv, InGraph
<1>5. \A q \in Requests : pc'[q] \in Active => q = r
  BY <1>2, <1>3
<1>6. \A q : Past(q) => Past(q)'
  BY <1>1, <1>3 DEF Past, Ended
<1>7. ThreadInv'
  BY <1>3, <1>4 DEF ThreadInv, StoppedAtGate, BeforeDecision
<1>8. TurnInv'
  BY <1>3, <1>5 DEF TurnInv, Active, InGraph
<1>9. RegistryInv'
  <2>1. session'.status = "running"
    BY <1>1, <1>3 DEF RegistryInv, Active, InGraph, Waiting
  <2>2. QED
    BY <1>3, <2>1 DEF RegistryInv, SettledStatuses
<1>10. RoundsInv'
  BY <1>3, <1>5, <1>6 DEF RoundsInv, Basis, Active, InGraph
<1>11. IdsInv'
  <2>1. Remembered' = Remembered
    BY <1>3 DEF Remembered
  <2>2. \A w \in writes : w.by # r /\ w.by \in Requests
    BY <1>1 DEF GateInv, Writes
  <2>3. \A q \in Requests :
          /\ (Broken(q) => Broken(q)') /\ (pc[q] = "done" => pc'[q] = "done")
          /\ pc[q] \notin Telling \cup {"announcing"}
          /\ pc'[q] # "announcing"
          /\ pc'[q] = "done" => pc[q] = "done"
          /\ pc'[q] \in Telling => q = r
    BY <1>1, <1>2, <1>3 DEF Broken, Telling, Active, InGraph
  <2>4. prior'[r] = session.committed
    BY <1>1, <1>3 DEF IdsInv, IdsListed, Told, InGraph
  <2>5. \A q \in Requests : pc'[q] \in Told => prior'[q] = session.committed
    BY <1>5, <2>4 DEF Told, Telling, Active, InGraph
  <2>6. QED
    BY <1>3, <2>1, <2>2, <2>3, <2>5, QuietIds
<1>12. QED
  BY <1>7, <1>8, <1>9, <1>10, <1>11

(* The commit writes: nothing but the world has changed yet.                *)
LEMMA AppliesSequence ==
  ASSUME TypeOK, GateInv, SequenceInv, NEW r \in Requests, CommitApplies(r)
  PROVE  ThreadInv' /\ TurnInv' /\ RegistryInv' /\ RoundsInv' /\ IdsInv'
<1> USE DEF TypeOK, SequenceInv, Goto
<1>1. PICK touched \in SUBSET Entities : Applied(r, touched)
  BY DEF CommitApplies
<1>2. At(r, "commit") /\ Approves(mem[r])
  BY DEF CommitApplies
<1>3. /\ pc[r] = "graph" /\ \A w \in writes : w.by # r
      /\ \E w \in writes' : w.by = r /\ w.touched = touched /\ writes' = writes \cup {w}
      /\ \A w \in writes' : w.grant = w.by /\ Past(Basis(w.by)) /\ Basis(w.by) # ckpt.writer
      /\ \A v, w \in writes' : Basis(v.by) = Basis(w.by) => v = w
  BY <1>1, <1>2, WriteOpensRound
<1>4. /\ pc'[r] = "applied" /\ \A q \in Requests \ {r} : pc'[q] = pc[q]
      /\ UNCHANGED <<session, ckpt, ask, mem, node, prior, origin, announced>>
  BY DEF CommitApplies
<1>5. pc[r] \in Active
  BY <1>3 DEF Active, InGraph
<1>6. \A q \in Requests \ {r} : pc[q] \notin Active
  BY <1>5, Alone
<1>7. \A q \in Requests : pc'[q] \in Active => q = r
  BY <1>4, <1>6
<1>8. \A q : Past(q) => Past(q)'
  BY <1>3, <1>4 DEF Past, Ended
<1>9. ThreadInv'
  BY <1>4 DEF ThreadInv, StoppedAtGate, BeforeDecision
<1>10. TurnInv'
  BY <1>3, <1>4, <1>7 DEF TurnInv, Active, InGraph
<1>11. RegistryInv'
  <2>1. session'.status = "running"
    BY <1>3, <1>4 DEF RegistryInv, Active, InGraph, Waiting
  <2>2. QED
    BY <1>4, <2>1 DEF RegistryInv, SettledStatuses
<1>12. RoundsInv'
  <2>1. \A q : Basis(q)' = Basis(q)
    BY <1>4 DEF Basis
  <2>2. /\ node[r] = "commit" /\ Approves(mem[r]) => mem[r].grant = r
        /\ Past(Basis(r)) /\ \A w \in writes : w.by # r => Basis(w.by) # Basis(r)
    BY <1>3 DEF RoundsInv, InGraph
  <2>3. \A w \in writes' : w \in writes \/ w.by = r
    BY <1>3
  <2>4. /\ node'[r] = "commit" /\ Approves(mem'[r]) => mem'[r].grant = r
        /\ Past(Basis(r))' /\ \A w \in writes' : w.by # r => Basis(w.by)' # Basis(r)'
    BY <1>4, <1>8, <2>1, <2>2, <2>3
  <2>5. \A w \in writes' : w.grant = w.by /\ Past(Basis(w.by))' /\ Basis(w.by)' # ckpt'.writer
    BY <1>3, <1>4, <1>8, <2>1
  <2>6. \A u, w \in writes' : Basis(u.by)' = Basis(w.by)' => u = w
    BY <1>3, <2>1
  <2>7. QED
    BY <1>7, <2>4, <2>5, <2>6 DEF RoundsInv, Active, InGraph, Approves
<1>13. IdsInv'
  <2>1. Remembered' = Remembered /\ \A w \in writes' : w.by \in Requests /\ (w.by = r \/ w \in writes)
    BY <1>3, <1>4 DEF Remembered, Writes
  <2>2. \A q \in Requests :
          /\ (Broken(q) => Broken(q)') /\ (pc[q] = "done" => pc'[q] = "done")
          /\ pc[q] \notin Telling \cup {"announcing"}
          /\ pc'[q] \notin Telling \cup {"announcing"}
          /\ pc'[q] = "done" => pc[q] = "done" /\ q # r
    BY <1>3, <1>4, <1>6, <1>7 DEF Broken, Telling, Active, InGraph
  <2>3. prior'[r] = session.committed
    BY <1>3, <1>4 DEF IdsInv, IdsListed, Told, InGraph
  <2>4. \A q \in Requests : pc'[q] \in Told => prior'[q] = session.committed
    BY <1>7, <2>3 DEF Told, Telling, Active, InGraph
  <2>5. writes \subseteq writes'
    BY <1>3
  <2>6. \A w \in writes' : pc'[w.by] = "done" => w \in writes /\ pc[w.by] = "done"
    BY <2>1, <2>2
  <2>7. QED
    BY <1>4, <2>1, <2>2, <2>4, <2>5, <2>6, QuietIds
<1>14. QED
  BY <1>9, <1>10, <1>11, <1>12, <1>13

-----------------------------------------------------------------------------
(* How a turn is told to the registry *)

LEMMA ReadSequence ==
  ASSUME TypeOK, GateInv, SequenceInv, NEW r \in Requests, ReadState(r)
  PROVE  ThreadInv' /\ TurnInv' /\ RegistryInv' /\ RoundsInv' /\ IdsInv'
<1> USE DEF TypeOK, SequenceInv, Goto, history
<1>1. pc[r] = "finalizing" /\ pc[r] \in Active
  BY DEF ReadState, Active
<1>2. \A q \in Requests \ {r} : pc[q] \notin Active
  BY <1>1, Alone
<1>3. /\ pc'[r] = "reconciled" /\ mem'[r] = ckpt.values
      /\ \A q \in Requests \ {r} : pc'[q] = pc[q] /\ mem'[q] = mem[q]
      /\ UNCHANGED <<session, ckpt, ask, node, prior, writes, origin, announced>>
  BY DEF ReadState
<1>4. \A q \in Requests : pc'[q] \in Active => q = r
  BY <1>2, <1>3
<1>5. \A q : Past(q) => Past(q)'
  BY <1>1, <1>3 DEF Past, Ended
<1>6. ThreadInv' /\ TurnInv'
  BY <1>3, <1>4 DEF ThreadInv, TurnInv, StoppedAtGate, BeforeDecision, Active, InGraph
<1>7. RegistryInv'
  BY <1>1, <1>3, <1>4 DEF RegistryInv, Shows, StoppedAtGate, SettledStatuses, Waiting, Active
<1>8. RoundsInv'
  BY <1>3, <1>4, <1>5 DEF RoundsInv, Basis, Active, InGraph
<1>9. IdsInv'
  <2>1. Remembered' = Remembered /\ \A w \in writes : w.by \in Requests
    BY <1>3 DEF Remembered, Writes
  <2>2. \A q \in Requests :
          /\ (Broken(q) => Broken(q)') /\ (pc[q] = "done" => pc'[q] = "done")
          /\ pc'[q] \in Telling <=> pc[q] \in Telling
          /\ pc[q] # "announcing" /\ pc'[q] # "announcing"
          /\ pc'[q] = "done" => pc[q] = "done"
    BY <1>1, <1>2, <1>3, <1>4 DEF Broken, Telling, Active, InGraph
  <2>3. prior'[r] = session.committed
    BY <1>1, <1>3 DEF IdsInv, IdsListed, Told, Telling
  <2>4. \A q \in Requests : pc'[q] \in Told => prior'[q] = session.committed
    BY <1>4, <2>3 DEF Told, Telling, Active, InGraph
  <2>5. QED
    BY <1>3, <2>1, <2>2, <2>4, QuietIds
<1>10. QED
  BY <1>6, <1>7, <1>8, <1>9

(* What the reads of the registry and the checkpoint make of a turn.        *)
LEMMA ReconcileSequence ==
  ASSUME TypeOK, GateInv, SequenceInv, NEW r \in Requests,
         ReconcilePending(r) \/ ReconcileResolved(r) \/ Announce(r)
  PROVE  ThreadInv' /\ TurnInv' /\ RegistryInv' /\ RoundsInv' /\ IdsInv'
<1> USE DEF TypeOK, SequenceInv, history
<1>1. /\ pc[r] \in {"reconciled", "announcing"} /\ (pc[r] = "announcing" <=> Announce(r))
      /\ pc[r] \in Active
  BY DEF ReconcilePending, ReconcileResolved, Announce, Active
<1>2. \A q \in Requests \ {r} : pc[q] \notin Active
  BY <1>1, Alone
<1>3. /\ pc'[r] \in {"announcing", "done"}
      /\ \A q \in Requests \ {r} : pc'[q] = pc[q]
      /\ UNCHANGED <<ckpt, ask, writes, origin>>
  BY DEF ReconcilePending, ReconcileResolved, Announce, Leave, Goto
<1>4. \A q \in Requests : pc'[q] \in Active => q = r /\ pc'[q] = "announcing"
  BY <1>2, <1>3 DEF Active, InGraph
<1>5. \A q : Past(q) => Past(q)'
  BY <1>1, <1>3 DEF Past, Ended
<1>6. ThreadInv' /\ TurnInv'
  BY <1>3, <1>4 DEF ThreadInv, TurnInv, StoppedAtGate, BeforeDecision, Active, InGraph
<1>7. pc[r] = "reconciled" => mem[r] = ckpt.values
  BY DEF TurnInv
<1>8. RegistryInv'
  <2>1. CASE ReconcilePending(r)
    <3>1. session'.status = "awaiting_review" /\ session'.review = ckpt.values.draft /\ ckpt.interrupted
      BY <1>7, <2>1 DEF ReconcilePending
    <3>2. StoppedAtGate
      BY <3>1 DEF ThreadInv
    <3>3. QED
      BY <1>3, <1>4, <3>1, <3>2 DEF RegistryInv, Shows, StoppedAtGate, SettledStatuses
  <2>2. CASE ReconcileResolved(r)
    <3>1. session'.review = NoDraft /\ ~ ckpt.interrupted /\ session'.status # "awaiting_review"
      BY <2>2 DEF ReconcileResolved, Outcome
    <3>2. QED
      BY <1>3, <1>4, <3>1 DEF RegistryInv
  <2>3. CASE Announce(r)
    <3>1. session' = session
      BY <2>3 DEF Announce
    <3>2. QED
      BY <1>3, <1>4, <3>1 DEF RegistryInv, Shows, StoppedAtGate
  <2>4. QED
    BY <2>1, <2>2, <2>3
<1>9. RoundsInv'
  BY <1>3, <1>4, <1>5 DEF RoundsInv, Basis, Active, InGraph
<1>10. IdsInv'
  <2>1. /\ \A w \in writes : w.by \in Requests /\ (w.by = r => w.touched \subseteq Touched(r))
        /\ Remembered' = Remembered /\ \A q \in Requests : Touched(q)' = Touched(q)
        /\ \A q \in Requests : Broken(q)' <=> Broken(q)
    BY <1>1, <1>3 DEF Remembered, Touched, Writes, Broken
  <2>2. LeftBehind' = LeftBehind
    BY <2>1 DEF LeftBehind
  <2>3. \A q \in Requests :
          /\ pc'[q] \notin Telling \cup Told
          /\ pc'[q] = "announcing" => q = r
          /\ q # r => pc[q] \notin Telling \cup {"announcing"}
    BY <1>2, <1>4 DEF Told, Telling, Active, InGraph
  <2>4. CASE ReconcilePending(r)
    <3>1. /\ pc[r] = "reconciled" /\ ckpt.next = "human_review"
          /\ session'.committed = session.committed /\ pc'[r] = "done" /\ announced' = announced
      BY <2>4 DEF ReconcilePending, ThreadInv, StoppedAtGate, Leave, Goto
    <3>2. \A w \in writes : w.by # r
      BY <3>1 DEF IdsInv, IdsListed, Telling
    <3>3. \A w \in writes : pc'[w.by] = "done" => pc[w.by] = "done"
      BY <1>3, <2>1, <3>2
    <3>4. QED
      BY <1>3, <2>1, <2>3, <3>1, <3>2, <3>3, QuietIds
  <2>5. CASE ReconcileResolved(r)
    <3>1. /\ pc[r] = "reconciled" /\ session'.committed = mem[r].committed_entity_ids
          /\ announced' = announced
          /\ \/ pc'[r] = "announcing" /\ mem' = mem /\ prior' = prior
             \/ pc'[r] = "done" /\ ~ mem[r].draft_committed
      BY <2>5 DEF ReconcileResolved, Leave, Goto
    <3>2. session'.committed = Remembered /\ mem[r].committed_entity_ids = Remembered
      BY <1>7, <3>1 DEF Remembered
    <3>3. prior[r] = session.committed /\ session.committed \subseteq Remembered
      BY <3>1 DEF IdsInv, IdsListed, Told, Telling
    <3>4. Remembered \subseteq session.committed \cup Touched(r) \cup LeftBehind
      BY <2>3 DEF IdsInv, IdsListed
    <3>5. \A w \in writes : pc'[w.by] \in {"announcing", "done"} => w.touched \subseteq session'.committed
      BY <1>3, <2>1, <3>1, <3>2, <3>3 DEF IdsInv, IdsListed, Telling
    <3>6. IdsListed'
      BY <1>3, <2>1, <2>3, <3>2, <3>5 DEF IdsListed
    <3>7. ASSUME NEW e \in session'.committed
          PROVE  \/ e \in LeftBehind'
                 \/ \E q \in Requests : e \in announced'[q]
                 \/ pc'[r] = "announcing" /\ e \in Handed(r)'
      <4>1. CASE e \in session.committed
        BY <2>2, <2>3, <3>1, <4>1 DEF IdsInv, IdsTold
      <4>2. CASE e \notin session.committed /\ e \notin LeftBehind
        <5>1. e \in Touched(r)
          BY <3>2, <3>4, <3>7, <4>2
        <5>2. mem[r].draft_committed
          BY <1>7, <2>1, <3>1, <5>1 DEF IdsInv, IdsListed, Telling, Touched
        <5>3. QED
          BY <3>1, <3>2, <3>3, <3>7, <4>2, <5>2 DEF Handed
      <4>3. QED
        BY <2>2, <4>1, <4>2
    <3>8. pc'[r] = "announcing" =>
            /\ Handed(r)' \subseteq session'.committed
            /\ Handed(r)' \subseteq Touched(r)' \cup LeftBehind'
            /\ \A q \in Requests : announced'[q] \cap Handed(r)' = {}
      BY <2>1, <2>2, <3>1, <3>2, <3>3, <3>4 DEF IdsInv, IdsTold, Handed
    <3>9. AnnouncedOnce'
      BY <2>1, <2>2, <3>1 DEF IdsInv, IdsTold, AnnouncedOnce
    <3>10. CommittedIsTold'
      <4>1. ASSUME NEW w \in writes', pc'[w.by] = "done" PROVE w \in writes /\ pc[w.by] = "done"
        <5>1. w.by # r
          BY <1>3, <1>7, <2>1, <3>1, <4>1 DEF IdsInv, IdsListed, Telling
        <5>2. QED
          BY <1>3, <2>1, <4>1, <5>1
      <4>2. QED
        BY <2>2, <3>1, <3>2, <3>3, <4>1 DEF IdsInv, IdsTold, CommittedIsTold
    <3>11. IdsTold'
      <4>1. \A q \in Requests : announced'[q] \subseteq session'.committed
        BY <3>1, <3>2, <3>3 DEF IdsInv, IdsTold
      <4>2. \A q \in Requests : pc'[q] # "done" => announced'[q] = {}
        BY <1>3, <3>1 DEF IdsInv, IdsTold
      <4>3. QED
        BY <2>3, <3>7, <3>8, <3>9, <3>10, <4>1, <4>2 DEF IdsTold
    <3>12. QED
      BY <3>6, <3>11 DEF IdsInv
  <2>6. CASE Announce(r)
    <3>1. /\ pc[r] = "announcing" /\ session' = session /\ pc'[r] = "done"
          /\ announced'[r] = Handed(r)
          /\ \A q \in Requests \ {r} : announced'[q] = announced[q]
      BY <2>6 DEF Announce, Leave, Goto, Handed
    <3>2. /\ Handed(r) \subseteq session.committed /\ Handed(r) \subseteq Touched(r) \cup LeftBehind
          /\ \A q \in Requests : announced[q] \cap Handed(r) = {}
          /\ announced[r] = {}
      BY <3>1 DEF IdsInv, IdsTold
    <3>3. IdsListed'
      <4>1. \A e \in Remembered \ session.committed : e \in LeftBehind
        BY <2>3, <3>1 DEF IdsInv, IdsListed, Telling
      <4>2. \A w \in writes : pc'[w.by] \in {"announcing", "done"} => w.touched \subseteq session.committed
        BY <1>3, <2>1, <3>1 DEF IdsInv, IdsListed
      <4>3. QED
        BY <1>3, <2>1, <2>2, <2>3, <3>1, <4>1, <4>2 DEF IdsInv, IdsListed
    <3>4. \A e \in session'.committed : e \in LeftBehind' \/ \E q \in Requests : e \in announced'[q]
      BY <2>2, <2>3, <3>1, <3>2 DEF IdsInv, IdsTold
    <3>5. AnnouncedOnce'
      <4>1. \A p, q \in Requests : announced[p] \cap announced[q] # {} => p = q
        BY DEF IdsInv, IdsTold, AnnouncedOnce
      <4>2. ASSUME NEW p \in Requests, NEW q \in Requests, announced'[p] \cap announced'[q] # {}
            PROVE  p = q
        <5>1. CASE p = r /\ q # r
          BY <3>1, <3>2, <4>2, <5>1
        <5>2. CASE p # r /\ q = r
          BY <3>1, <3>2, <4>2, <5>2
        <5>3. CASE p # r /\ q # r
          BY <3>1, <4>1, <4>2, <5>3
        <5>4. QED
          BY <5>1, <5>2, <5>3
      <4>3. \A q \in Requests : announced'[q] \subseteq Touched(q)' \cup LeftBehind'
        BY <2>1, <2>2, <3>1, <3>2 DEF IdsInv, IdsTold, AnnouncedOnce
      <4>4. QED
        BY <4>2, <4>3 DEF AnnouncedOnce
    <3>6. CommittedIsTold'
      <4>1. ASSUME NEW w \in writes', pc'[w.by] = "done"
            PROVE  w.touched \subseteq session'.committed
        BY <3>3, <4>1 DEF IdsListed
      <4>2. session'.committed \subseteq (LeftBehind \cup UNION {announced[q] : q \in Requests})'
        BY <3>4
      <4>3. QED
        BY <4>1, <4>2 DEF CommittedIsTold
    <3>7. \A q \in Requests : /\ announced'[q] \subseteq session'.committed
                              /\ pc'[q] # "done" => announced'[q] = {}
                              /\ pc'[q] # "announcing"
      BY <1>3, <2>3, <3>1, <3>2 DEF IdsInv, IdsTold
    <3>8. IdsTold'
      BY <3>4, <3>5, <3>6, <3>7 DEF IdsTold
    <3>9. QED
      BY <3>3, <3>8 DEF IdsInv
  <2>7. QED
    BY <2>4, <2>5, <2>6
<1>11. QED
  BY <1>6, <1>8, <1>9, <1>10

-----------------------------------------------------------------------------
(* Approvals *)

(* The content of a plain approval is the one its request was shown.        *)
ShownInv ==
  \A a \in approved : ask[a.by].draft = NoDraft => shown[a.by] = a.draft

LEMMA ApprovalsStay ==
  ASSUME TypeOK, [Next]_vars, \A r \in Requests : ~ Decide(r)
  PROVE  UNCHANGED <<approved, shown>>
<1>1. ASSUME NEW r \in Requests, RunnerStep(r) PROVE UNCHANGED <<approved, shown>>
  BY <1>1 DEF RunnerStep, RequireSession, StartTurn, LoadForInput, LoadForReview, ReadState,
              ReconcilePending, ReconcileResolved, Announce, history
<1>2. ASSUME NEW r \in Requests, GraphStep(r) PROVE UNCHANGED <<approved, shown>>
  BY <1>2 DEF GraphStep, Assistant, Tools, Brainstorm, BeginChanges, RetrieveContext,
              GenerateChanges, ValidateChanges, ReviewNothing, Interrupt, CommitNothing,
              CommitApplies, CommitRaises, CommitSaved, ReadOnly, history
<1>3. ASSUME NEW r \in Requests,
             NodeError(r) \/ Timeout(r) \/ Cancel(r) \/ Abandon(r) \/ \E a \in Asks : Arrive(r, a)
      PROVE  UNCHANGED <<approved, shown>>
  BY <1>3 DEF NodeError, Timeout, Cancel, Abandon, Arrive, Fail, history
<1>4. CASE Crash \/ UNCHANGED vars
  BY <1>4 DEF Crash, vars, history
<1>5. QED
  BY <1>1, <1>2, <1>3, <1>4 DEF Next, Quiet

LEMMA ShownStep ==
  ASSUME TypeOK, AskedOK, GateInv, SequenceInv, ShownInv, [Next]_vars
  PROVE  ShownInv'
<1> USE DEF TypeOK
<1>1. ASSUME NEW a \in approved PROVE ask'[a.by] = ask[a.by]
  <2>1. pc[a.by] # "new" /\ a.by \in Requests
    BY DEF GateInv, BeforeDecision
  <2>2. ASSUME NEW r \in Requests, NEW b \in Asks, Arrive(r, b) PROVE ask'[a.by] = ask[a.by]
    BY <2>1, <2>2 DEF Arrive
  <2>3. CASE Crash \/ UNCHANGED vars
    BY <2>3 DEF Crash, vars
  <2>4. QED
    BY <2>2, <2>3, NextTurnSteps, TurnStepActive
<1>2. ASSUME NEW r \in Requests, Decide(r) PROVE ShownInv'
  <2> DEFINE v == Decided(mem[r], r, ask[r])
  <2>1. /\ pc[r] = "resuming" /\ ask[r] \in Reviews /\ mem[r] \in GraphState
        /\ IF ask[r].action = "approve"
           THEN /\ approved' = approved \cup {[by |-> r, draft |-> v.draft]}
                /\ shown' = [shown EXCEPT ![r] = session.review]
           ELSE UNCHANGED <<approved, shown>>
    BY <1>2 DEF Decide, AskedOK
  <2>2. \A a \in approved : a.by # r
    BY <2>1 DEF GateInv, BeforeDecision
  <2>3. ask[r].draft = NoDraft => v.draft = mem[r].draft
    BY <2>1 DEF Decided, GraphState
  <2>4. mem[r].draft = session.review
    BY <2>1 DEF SequenceInv, TurnInv, Shows, InGraph
  <2>5. ask' = ask
    BY <1>2 DEF Decide, Superstep
  <2> HIDE DEF v
  <2>6. CASE ask[r].action = "approve"
    <3>1. /\ shown'[r] = session.review
          /\ \A q \in Requests \ {r} : shown'[q] = shown[q]
          /\ approved' = approved \cup {[by |-> r, draft |-> v.draft]}
      BY <2>1, <2>6
    <3>2. ASSUME NEW a \in approved', ask'[a.by].draft = NoDraft PROVE shown'[a.by] = a.draft
      <4>1. CASE a \in approved
        <5>1. a.by \in Requests \ {r}
          BY <2>2, <4>1
        <5>2. QED
          BY <2>5, <3>1, <3>2, <4>1, <5>1 DEF ShownInv
      <4>2. CASE a = [by |-> r, draft |-> v.draft]
        BY <2>3, <2>4, <2>5, <3>1, <3>2, <4>2
      <4>3. QED
        BY <3>1, <4>1, <4>2
    <3>3. QED
      BY <3>2 DEF ShownInv
  <2>7. CASE ask[r].action # "approve"
    BY <2>1, <2>5, <2>7 DEF ShownInv
  <2>8. QED
    BY <2>6, <2>7
<1>3. CASE \A r \in Requests : ~ Decide(r)
  BY <1>1, <1>3, ApprovalsStay DEF ShownInv
<1>4. QED
  BY <1>2, <1>3

-----------------------------------------------------------------------------
(* Theorems *)

LEMMA InitSequence == Init => SequenceInv /\ ShownInv
<1> SUFFICES ASSUME Init PROVE SequenceInv /\ ShownInv
  OBVIOUS
<1>1. \A r \in Requests : pc[r] = "new" /\ announced[r] = {}
  BY DEF Init
<1>2. /\ session = [status |-> "idle", review |-> NoDraft, committed |-> {}]
      /\ ckpt.interrupted = FALSE /\ ckpt.writer = NoOne /\ Remembered = {}
      /\ approved = {} /\ writes = {}
  BY DEF Init, EmptyState, Remembered
<1>3. OneTurn /\ TurnInv /\ RegistryInv
  BY <1>1, <1>2 DEF OneTurn, TurnInv, RegistryInv, Active, InGraph
<1>4. ThreadInv /\ RoundsInv /\ ShownInv
  BY <1>1, <1>2, RequestAssumption DEF ThreadInv, RoundsInv, ShownInv, InGraph
<1>5. IdsInv
  <2>1. IdsListed
    BY <1>1, <1>2 DEF IdsListed, Told, Telling, InGraph
  <2>2. IdsTold
    BY <1>1, <1>2 DEF IdsTold, AnnouncedOnce, CommittedIsTold
  <2>3. QED
    BY <2>1, <2>2 DEF IdsInv
<1>6. QED
  BY <1>3, <1>4, <1>5 DEF SequenceInv

LEMMA SequenceStep ==
  ASSUME MaxActive = 1, TypeOK, AskedOK, GateInv, SequenceInv, [Next]_vars
  PROVE  SequenceInv'
<1>1. OneTurn'
  BY OneTurnStep DEF SequenceInv
<1>2. ASSUME NEW r \in Requests, RunnerStep(r)
      PROVE  ThreadInv' /\ TurnInv' /\ RegistryInv' /\ RoundsInv' /\ IdsInv'
  BY <1>2, WaitingSequence, LoadSequence, ReadSequence, ReconcileSequence DEF RunnerStep
<1>3. ASSUME NEW r \in Requests, GraphStep(r)
      PROVE  ThreadInv' /\ TurnInv' /\ RegistryInv' /\ RoundsInv' /\ IdsInv'
  <2>1. CASE CommitRaises(r)
    <3>1. \E q \in Requests : CommitRaises(q)
      BY <2>1
    <3>2. QED
      BY <3>1, FaultSequence
  <2>2. CASE Interrupt(r)
    BY <2>2, InterruptSequence
  <2>3. CASE CommitApplies(r)
    BY <2>3, AppliesSequence
  <2>4. CASE Decide(r) \/ CommitSaved(r)
    BY <2>4, DecideSequence
  <2>5. CASE \/ Assistant(r) \/ Tools(r) \/ Brainstorm(r)
             \/ BeginChanges(r) \/ RetrieveContext(r)
             \/ GenerateChanges(r) \/ ValidateChanges(r)
             \/ ReviewNothing(r) \/ CommitNothing(r)
    BY <2>5, NodeSequence
  <2>6. QED
    BY <1>3, <2>1, <2>2, <2>3, <2>4, <2>5 DEF GraphStep
<1>4. CASE UNCHANGED vars
  BY <1>1, <1>4 DEF vars, SequenceInv, ThreadInv, TurnInv, RegistryInv, RoundsInv, IdsInv, IdsListed, IdsTold,
                    StoppedAtGate, Shows, Past, Basis, Remembered, Touched, Approves, Handed,
                    Broken, LeftBehind, AnnouncedOnce, CommittedIsTold
<1>5. QED
  BY <1>1, <1>2, <1>3, <1>4, ArriveSequence, FaultSequence DEF Next, Quiet, SequenceInv

LEMMA SequenceAlways == MaxActive = 1 => (Spec => [](TypeOK /\ GateInv /\ SequenceInv /\ ShownInv))
<1> SUFFICES ASSUME MaxActive = 1
             PROVE  Spec => [](TypeOK /\ GateInv /\ SequenceInv /\ ShownInv)
  OBVIOUS
<1> DEFINE Inv == TypeOK /\ AskedOK /\ GateInv /\ SequenceInv /\ ShownInv
<1>1. Init => Inv
  BY InitType, InitGate, InitSequence DEF Init, AskedOK
<1>2. Inv /\ [Next]_vars => Inv'
  BY TypeStep, AskedStep, GateStep, SequenceStep, ShownStep
<1>3. Inv => TypeOK /\ GateInv /\ SequenceInv /\ ShownInv
  OBVIOUS
<1>4. QED
  BY <1>1, <1>2, <1>3, PTL DEF Spec

(* Between the turns of a client that waits for its answers the registry    *)
(* and the checkpoint tell the same story (_finalize).                      *)
THEOREM RegistryIsTrue == MaxActive = 1 => (Spec => []RegistryMatchesThread)
<1>1. SequenceInv => RegistryMatchesThread
  BY DEF SequenceInv, RegistryInv, Shows, StoppedAtGate, SettledStatuses, RegistryMatchesThread
<1>2. QED
  BY <1>1, SequenceAlways, PTL

(* A plain approval of such a client approves the draft its review card     *)
(* showed (resume_review, human_review).                                    *)
THEOREM ApprovalIsInformed == MaxActive = 1 => (Spec => []ApprovedWasShown)
<1>1. ShownInv => ApprovedWasShown
  BY DEF ShownInv, ApprovedWasShown
<1>2. QED
  BY <1>1, SequenceAlways, PTL

(* Its proposals are written at most once, each by the turn that approved   *)
(* it (commit, route_after_review).                                         *)
THEOREM OneWritePerRound == MaxActive = 1 => (Spec => []ProposalWrittenOnce)
<1>1. SequenceInv => ProposalWrittenOnce
  BY DEF SequenceInv, RoundsInv, Basis, ProposalWrittenOnce
<1>2. QED
  BY <1>1, SequenceAlways, PTL

(* Its writes are each put to one account of the conversation: no id is     *)
(* announced by two turns, none but by its writer unless a turn that failed *)
(* or was lost wrote it, and what a finished turn wrote is announced and    *)
(* stays in the registry's list (_finalize, commit, prior_committed).       *)
THEOREM WritesAccounted == MaxActive = 1 => (Spec => []WritesAreAccounted)
<1>3. SequenceInv => WritesAreAccounted
  BY DEF SequenceInv, IdsInv, IdsTold, WritesAreAccounted
<1>4. QED
  BY <1>3, SequenceAlways, PTL

-----------------------------------------------------------------------------
(* One call of the model, and its tokens: StructuredCall.                   *)

CallShaped ==
  /\ gen = [pc |-> gen.pc, ways |-> gen.ways, way |-> gen.way, attempt |-> gen.attempt,
            tries |-> gen.tries, here |-> gen.here, sofar |-> gen.sofar, prior |-> gen.prior,
            usage |-> gen.usage]
  /\ tokens = [spent |-> tokens.spent, lost |-> tokens.lost]
  /\ gen.here \in Nat /\ gen.sofar \in Nat /\ gen.prior \in Nat
  /\ tokens.spent \in Nat /\ tokens.lost \in Nat

(* What the provider reported is with the strategies given up, with the one  *)
(* that is tried, or lost.                                                  *)
CallInv ==
  /\ CallShaped
  /\ gen.pc = "open" => gen.prior + tokens.lost = tokens.spent
  /\ gen.pc = "invoke" => gen.prior + gen.sofar + gen.here + tokens.lost = tokens.spent
  /\ UsageAddsUp

(* A step of the call, of which the strategies stay what they are.          *)
To(at, way, attempt, tries, here, sofar, carried, usage) ==
  gen' = [pc |-> at, ways |-> gen.ways, way |-> way, attempt |-> attempt, tries |-> tries,
          here |-> here, sofar |-> sofar, prior |-> carried, usage |-> usage]

LEMMA InitCall == CallInit => CallInv
<1> SUFFICES ASSUME CallInit PROVE CallInv
  OBVIOUS
<1>1. PICK ways :
        gen = [pc |-> "open", ways |-> ways, way |-> 1, attempt |-> 0, tries |-> 0,
               here |-> 0, sofar |-> 0, prior |-> 0, usage |-> 0]
  BY DEF CallInit, Generate, NoCall
<1> QED BY <1>1 DEF CallInit, CallInv, CallShaped, NoTokens, UsageAddsUp

(* A strategy that is given up has its usage, and only it, passed on.       *)
LEMMA GivenUp ==
  ASSUME CallShaped, NEW used \in Nat, GiveUp(used),
         tokens' = [spent |-> tokens'.spent, lost |-> tokens'.lost],
         tokens'.spent \in Nat, tokens'.lost \in Nat
  PROVE  /\ CallShaped' /\ gen'.pc \in {"open", "failed"} /\ gen'.prior = gen.prior + used
<1> DEFINE carried == gen.prior + used
<1>1. carried \in Nat
  BY DEF CallShaped
<1> HIDE DEF carried
<1>2. CASE gen' = [gen EXCEPT !.pc = "failed", !.prior = carried]
  <2>1. To("failed", gen.way, gen.attempt, gen.tries, gen.here, gen.sofar, carried, gen.usage)
    BY <1>2 DEF CallShaped, To
  <2> QED BY <1>1, <2>1 DEF CallShaped, To, carried
<1>3. CASE gen' = [gen EXCEPT !.pc = "open", !.way = @ + 1, !.prior = carried]
  <2>1. \E way : To("open", way, gen.attempt, gen.tries, gen.here, gen.sofar, carried, gen.usage)
    BY <1>3 DEF CallShaped, To
  <2> QED BY <1>1, <2>1 DEF CallShaped, To, carried
<1> QED BY <1>2, <1>3 DEF GiveUp, carried

LEMMA CallStep == CallInv /\ [CallNext]_calls => CallInv'
<1> SUFFICES ASSUME CallInv, [CallNext]_calls PROVE CallInv'
  OBVIOUS
<1>0. CallShaped
  BY DEF CallInv
<1>1. CASE UNCHANGED calls
  BY <1>1 DEF calls, CallInv, CallShaped, UsageAddsUp
<1>2. CASE StrategyInvoke
  <2>1. To("invoke", gen.way, 0, 0, 0, 0, gen.prior, gen.usage)
    BY <1>0, <1>2 DEF StrategyInvoke, CallShaped, To
  <2>5. tokens' = tokens /\ gen.prior \in Nat /\ tokens.spent \in Nat /\ tokens.lost \in Nat
    BY <1>0, <1>2 DEF StrategyInvoke, CallShaped
  <2>6. /\ tokens' = [spent |-> tokens'.spent, lost |-> tokens'.lost]
        /\ tokens'.spent \in Nat /\ tokens'.lost \in Nat
    BY <1>0, <2>5 DEF CallShaped
  <2>7. /\ gen' = [pc |-> gen'.pc, ways |-> gen'.ways, way |-> gen'.way, attempt |-> gen'.attempt,
                   tries |-> gen'.tries, here |-> gen'.here, sofar |-> gen'.sofar, prior |-> gen'.prior,
                   usage |-> gen'.usage]
        /\ gen'.pc = "invoke" /\ gen'.here = 0 /\ gen'.sofar = 0 /\ gen'.prior = gen.prior
    BY <2>1 DEF To
  <2>2. CallShaped' /\ gen'.pc = "invoke" /\ gen'.here = 0 /\ gen'.sofar = 0 /\ gen'.prior = gen.prior
    BY <2>5, <2>6, <2>7 DEF CallShaped
  <2>3. gen.prior + tokens.lost = tokens.spent /\ tokens' = tokens
    BY <1>2 DEF StrategyInvoke, CallInv
  <2>4. gen'.prior + gen'.sofar + gen'.here + tokens'.lost = tokens'.spent
    BY <1>0, <2>2, <2>3 DEF CallShaped
  <2> QED BY <2>2, <2>4 DEF CallInv, UsageAddsUp
<1>3. ASSUME NEW e \in Refusals, StrategyInvokeFails(e)
      PROVE  CallInv'
  <2>1. CASE GiveUp(0)
    <3>1. CallShaped' /\ gen'.pc \in {"open", "failed"} /\ gen'.prior = gen.prior
      BY <1>0, <1>3, <2>1, GivenUp DEF StrategyInvokeFails, CallShaped
    <3> QED BY <1>3, <3>1 DEF StrategyInvokeFails, CallInv, UsageAddsUp
  <2>2. CASE Raise
    BY <1>3, <2>2 DEF StrategyInvokeFails, Raise, CallInv, CallShaped, UsageAddsUp
  <2> QED BY <1>3, <2>1, <2>2 DEF StrategyInvokeFails
<1>4. ASSUME NEW e \in Refusals, InvokeFails(e)
      PROVE  CallInv'
  <2>0. e.cost \in Nat
    BY CallAssumption
  <2>1. CASE Classify(e) = "capability"
    <3>1. GiveUp(gen.here + e.cost) /\ gen.here + e.cost \in Nat
      BY <1>0, <1>4, <2>0, <2>1 DEF InvokeFails, CallShaped
    <3>2. tokens' = [tokens EXCEPT !.spent = @ + e.cost, !.lost = @ + gen.sofar]
      BY <1>4, <2>1 DEF InvokeFails
    <3>3. gen.prior + gen.sofar + gen.here + tokens.lost = tokens.spent
      BY <1>4 DEF InvokeFails, CallInv
    <3>4. /\ tokens' = [spent |-> tokens'.spent, lost |-> tokens'.lost]
          /\ tokens'.spent = tokens.spent + e.cost /\ tokens'.lost = tokens.lost + gen.sofar
      BY <1>0, <3>2 DEF CallShaped
    <3>5. CallShaped' /\ gen'.pc \in {"open", "failed"} /\ gen'.prior = gen.prior + (gen.here + e.cost)
      BY <1>0, <2>0, <3>1, <3>4, GivenUp DEF CallShaped
    <3> QED BY <1>0, <2>0, <3>3, <3>4, <3>5 DEF CallInv, CallShaped, UsageAddsUp
  <2>2. CASE Classify(e) # "capability"
    <3>1. /\ tokens' = [spent |-> tokens'.spent, lost |-> tokens'.lost]
          /\ tokens'.spent = tokens.spent + e.cost /\ tokens'.lost = tokens.lost
      BY <1>0, <1>4, <2>2 DEF InvokeFails, CallShaped
    <3>2. CASE gen' = [gen EXCEPT !.tries = @ + 1, !.here = @ + e.cost]
      <4> DEFINE here == gen.here + e.cost
      <4>1. \E tries : To(gen.pc, gen.way, gen.attempt, tries, here, gen.sofar, gen.prior, gen.usage)
        <5> HIDE DEF here
        <5> QED BY <1>0, <3>2 DEF CallShaped, To, here
      <4> QED BY <1>0, <1>4, <2>0, <3>1, <4>1 DEF InvokeFails, CallInv, CallShaped, To, UsageAddsUp
    <3>3. CASE Raise
      BY <1>0, <2>0, <3>1, <3>3 DEF Raise, CallInv, CallShaped, UsageAddsUp
    <3> QED BY <1>4, <2>2, <3>2, <3>3 DEF InvokeFails
  <2> QED BY <2>1, <2>2
<1>5. ASSUME NEW a \in Answers, Answered(a)
      PROVE  CallInv'
  <2> DEFINE sofar == gen.sofar + gen.here + a.cost
  <2>0. a.cost \in Nat /\ sofar \in Nat
    BY <1>0, CallAssumption DEF CallShaped
  <2>1. /\ tokens' = [spent |-> tokens'.spent, lost |-> tokens'.lost]
        /\ tokens'.spent = tokens.spent + a.cost /\ tokens'.lost = tokens.lost
    BY <1>0, <1>5 DEF Answered, CallShaped
  <2>2. gen.prior + gen.sofar + gen.here + tokens.lost = tokens.spent
    BY <1>5 DEF Answered, CallInv
  <2>3. CASE gen' = [gen EXCEPT !.pc = "done", !.sofar = sofar, !.usage = gen.prior + sofar]
    <3> DEFINE usage == gen.prior + sofar
    <3>1. To("done", gen.way, gen.attempt, gen.tries, gen.here, sofar, gen.prior, usage)
      <4> HIDE DEF sofar, usage
      <4> QED BY <1>0, <2>3 DEF CallShaped, To, usage
    <3> QED BY <1>0, <2>0, <2>1, <2>2, <3>1 DEF CallInv, CallShaped, To, UsageAddsUp
  <2>4. CASE gen' = [gen EXCEPT !.attempt = @ + 1, !.tries = 0, !.here = 0, !.sofar = sofar]
    <3>1. \E attempt : To(gen.pc, gen.way, attempt, 0, 0, sofar, gen.prior, gen.usage)
      <4> HIDE DEF sofar
      <4> QED BY <1>0, <2>4 DEF CallShaped, To
    <3> QED BY <1>0, <1>5, <2>0, <2>1, <2>2, <3>1 DEF Answered, CallInv, CallShaped, To, UsageAddsUp
  <2>5. CASE Raise
    BY <1>0, <2>0, <2>1, <2>5 DEF Raise, CallInv, CallShaped, UsageAddsUp
  <2> QED BY <1>5, <2>3, <2>4, <2>5 DEF Answered
<1> QED BY <1>1, <1>2, <1>3, <1>4, <1>5 DEF CallNext

(* The usage of an answer is what the provider reported for all the calls   *)
(* that led to it, except for the answers that were not usable of a         *)
(* strategy given up later (LangChainStructuredGenerator).                 *)
THEOREM TokensCounted == CallSpec => []UsageAddsUp
<1>1. CallInv => UsageAddsUp
  BY DEF CallInv
<1> QED BY InitCall, CallStep, <1>1, PTL DEF CallSpec

-----------------------------------------------------------------------------
(* The draft between the model and the preflight: ProposalCheck.            *)

CheckShaped ==
  /\ canon = [title |-> canon.title, bond |-> canon.bond]
  /\ context = [entities |-> context.entities, edges |-> context.edges]
  /\ proposal = [at |-> proposal.at, draft |-> proposal.draft, raw |-> proposal.raw,
                 warnings |-> proposal.warnings, problems |-> proposal.problems,
                 attempts |-> proposal.attempts, listed |-> proposal.listed,
                 drafted |-> proposal.drafted, rewritten |-> proposal.rewritten]
  /\ moves \in [now : Nat, shown : Nat, listed : Nat]

(* The world has titles, and the marks of retrieval and of the listing are  *)
(* not of the future.                                                       *)
CanonInv ==
  /\ canon.title \in [Existing -> Titles]
  /\ moves.shown <= moves.now /\ moves.listed <= moves.now

(* As long as nobody has edited the world since, what was retrieved and what *)
(* was listed is still so.                                                  *)
FreshInv ==
  /\ moves.now = moves.shown => context.edges \subseteq DOMAIN canon.bond
  /\ proposal.at \in {"validate", "review", "preflight"} /\ moves.now = moves.listed
       => proposal.listed = canon.title

(* What validation lets pass, against what it was compared with.            *)
Sound(draft, listed) ==
  /\ draft.patches \subseteq DOMAIN listed
  /\ \A e \in draft.entities : ClonesOf(e, listed) = {}
  /\ \A r \in draft.relationships :
       IF r.op = "create"
       THEN {r.source, r.target} \subseteq Refs(draft.entities) \cup context.entities
       ELSE r.edge \in context.edges

DraftInv ==
  proposal.at \in {"review", "preflight"} /\ ~ proposal.rewritten
    => Sound(proposal.draft, proposal.listed)

(* DroppedIsSaid and ConflictIsSaid, of any draft and words.                *)
Named(x, words) == \E w \in words : w.about = x
DroppedNamed(raw, kept, words) ==
  /\ \A e \in raw.entities :
       \/ e \in kept.entities \/ Named(e.title, words)
       \/ \E f \in raw.entities \ {e} : f.ref = e.ref
  /\ \A p \in raw.patches : p \in kept.patches \/ Named(p, words)
  /\ \A r \in raw.relationships :
       \/ r \in kept.relationships
       \/ IF r.op = "create" THEN Named(r.source, words) \/ Named(r.target, words)
          ELSE Named(r.edge, words)

Argues(bond, words) ==
  \E w \in words : /\ w.code \in {"duplicate_relationship", "conflicting_relationship"}
                   /\ w.about = bond.type
ConflictNamed(kept, bonds, words) ==
  \A r \in kept.relationships, b \in DOMAIN bonds :
    LET pair == {bonds[b].source, bonds[b].target} IN
    r.op = "create" /\ pair = {r.source, r.target} /\ pair \cap Refs(kept.entities) = {}
      => Argues(bonds[b], words)

Terms ==
  /\ DroppedIsSaid <=> DroppedNamed(proposal.raw, proposal.draft, proposal.warnings)
  /\ ConflictIsSaid <=>
       (moves.now = moves.listed => ConflictNamed(proposal.draft, canon.bond, proposal.warnings))

LEMMA InTheseTerms == Terms /\ Terms'
<1>1. Terms
  <2>1. DroppedIsSaid <=> DroppedNamed(proposal.raw, proposal.draft, proposal.warnings)
    BY DEF DroppedIsSaid, DroppedNamed, Mentions, Named
  <2>2. ConflictIsSaid <=>
          (moves.now = moves.listed => ConflictNamed(proposal.draft, canon.bond, proposal.warnings))
    BY DEF ConflictIsSaid, ConflictNamed, Argues
  <2> QED BY <2>1, <2>2 DEF Terms
<1>2. Terms'
  BY <1>1, PTL
<1> QED BY <1>1, <1>2

CheckInv == CheckShaped /\ CanonInv /\ FreshInv /\ DraftInv /\ ReviewIsInformed /\ RefusedForAReason

-----------------------------------------------------------------------------
(* What validation keeps is sound.                                          *)
LEMMA KeptIsSound ==
  ASSUME NEW raw, NEW listed
  PROVE  Sound(Kept(raw, listed), listed)
<1> DEFINE entities == Originals(raw.entities, listed)
           ends == Refs(entities) \cup context.entities
           kept == Kept(raw, listed)
<1>1. /\ kept.entities = entities
      /\ kept.patches = raw.patches \cap DOMAIN listed
      /\ kept.relationships = {r \in raw.relationships : Objections(r, ends, context.edges) = {}}
  BY DEF Kept, KeptPatches
<1>2. \A e \in entities : ClonesOf(e, listed) = {}
  BY DEF Originals, Refs, Clones
<1>3. ASSUME NEW r \in kept.relationships
      PROVE  IF r.op = "create" THEN {r.source, r.target} \subseteq ends ELSE r.edge \in context.edges
  <2>1. Objections(r, ends, context.edges) = {}
    BY <1>1, <1>3
  <2> QED BY <2>1 DEF Objections
<1> QED BY <1>1, <1>2, <1>3 DEF Sound

(* What it drops it says.                                                   *)
LEMMA DroppedHasAWord ==
  ASSUME NEW raw, NEW listed, NEW warnings,
         Said(raw, Kept(raw, listed), listed) \subseteq warnings
  PROVE  DroppedNamed(raw, Kept(raw, listed), warnings)
<1> DEFINE kept == Kept(raw, listed)
           ends == Refs(kept.entities) \cup context.entities
           Known(x) == Named(x, warnings)
<1>1. /\ kept.entities = Originals(raw.entities, listed)
      /\ kept.patches = raw.patches \cap DOMAIN listed
      /\ kept.relationships = {r \in raw.relationships : Objections(r, ends, context.edges) = {}}
  BY DEF Kept, KeptPatches
<1>2. \A code, x : Warning(code, x) \in warnings => Known(x)
  BY DEF Warning, Named
<1>3. ASSUME NEW e \in raw.entities, e \notin kept.entities
      PROVE  Known(e.title) \/ \E f \in raw.entities \ {e} : f.ref = e.ref
  <2>1. PICK f \in Clones(raw.entities, listed) : f.ref = e.ref
    BY <1>1, <1>3 DEF Originals, Refs
  <2>2. f \in raw.entities
    BY DEF Clones
  <2>3. CASE f = e
    <3>1. Warning("duplicate_of_existing", e.title) \in Said(raw, kept, listed)
      BY <2>3 DEF Said
    <3> QED BY <3>1, <1>2
  <2> QED BY <2>1, <2>2, <2>3
<1>4. ASSUME NEW p \in raw.patches, p \notin kept.patches
      PROVE  Known(p)
  <2>1. Warning("patch_unknown_entity", p) \in Said(raw, kept, listed)
    BY <1>1, <1>4 DEF Said
  <2> QED BY <2>1, <1>2
<1>5. ASSUME NEW r \in raw.relationships, r \notin kept.relationships
      PROVE  IF r.op = "create" THEN Known(r.source) \/ Known(r.target) ELSE Known(r.edge)
  <2>1. Objections(r, ends, context.edges) # {}
    BY <1>1, <1>5
  <2>2. Objections(r, ends, context.edges) \subseteq warnings
    BY DEF Said
  <2>3. CASE r.op = "create"
    <3>1. \E code, x : x \in {r.source, r.target} /\ Warning(code, x) \in warnings
      BY <2>1, <2>2, <2>3 DEF Objections
    <3> QED BY <3>1, <1>2, <2>3
  <2>4. CASE r.op # "create"
    <3>1. Warning("dropped_unknown_edge", r.edge) \in warnings
      BY <2>1, <2>2, <2>4 DEF Objections
    <3> QED BY <3>1, <1>2, <2>4
  <2> QED BY <2>3, <2>4
<1> QED BY <1>1, <1>3, <1>4, <1>5 DEF DroppedNamed

(* What it keeps over a pair that is connected comes with a word on it.     *)
LEMMA ConflictHasAWord ==
  ASSUME NEW raw, NEW listed, NEW warnings,
         Said(raw, Kept(raw, listed), listed) \subseteq warnings
  PROVE  ConflictNamed(Kept(raw, listed), canon.bond, warnings)
<1> DEFINE kept == Kept(raw, listed)
           seen == Restrict(canon.bond, AmongThem(canon.bond, context.entities))
<1>1. Conflicts(kept.relationships, seen) \subseteq warnings
  <2> HIDE DEF kept
  <2>1. Conflicts(kept.relationships, seen) \subseteq Said(raw, kept, listed)
    BY Zenon DEF Said
  <2> QED BY <2>1 DEF kept
<1> SUFFICES ASSUME NEW r \in kept.relationships, NEW b \in DOMAIN canon.bond, r.op = "create",
                    {canon.bond[b].source, canon.bond[b].target} = {r.source, r.target},
                    {r.source, r.target} \cap Refs(kept.entities) = {}
             PROVE  Argues(canon.bond[b], warnings)
  BY DEF ConflictNamed
<1> DEFINE code == IF seen[b].type = r.type THEN "duplicate_relationship"
                   ELSE "conflicting_relationship"
<1>2. {r.source, r.target} \subseteq context.entities
  BY KeptIsSound DEF Sound
<1>3. b \in DOMAIN seen /\ seen[b] = canon.bond[b]
  BY <1>2 DEF AmongThem, Restrict
<1>4. Warning(code, seen[b].type) \in Conflicts(kept.relationships, seen)
  BY <1>3 DEF Conflicts
<1>5. code \in {"duplicate_relationship", "conflicting_relationship"}
  OBVIOUS
<1> HIDE DEF kept, seen, code
<1> QED BY <1>1, <1>3, <1>4, <1>5 DEF Warning, Argues

-----------------------------------------------------------------------------
LEMMA InitCheck == CheckInit => CheckInv
<1> SUFFICES ASSUME CheckInit PROVE CheckInv
  OBVIOUS
<1>1. canon = [title |-> canon.title, bond |-> canon.bond] /\ canon.title \in [Existing -> Titles]
  BY ProposalAssumption DEF CheckInit, Existing
<1>2. CheckShaped /\ CanonInv
  BY <1>1 DEF CheckInit, CheckShaped, CanonInv
<1> QED BY <1>2 DEF CheckInit, CheckInv, FreshInv, DraftInv, ReviewIsInformed, RefusedForAReason

(* Nothing is said of a proposal that is not yet, or no longer, before the  *)
(* game master or the preflight.                                           *)
LEMMA Elsewhere ==
  ASSUME CheckShaped', CanonInv', proposal'.at \in {"generate", "list", "validate", "nothing", "write"},
         moves'.now = moves'.shown => context'.edges \subseteq DOMAIN canon'.bond,
         proposal'.at = "validate" /\ moves'.now = moves'.listed => proposal'.listed = canon'.title
  PROVE  CheckInv'
BY DEF CheckInv, FreshInv, DraftInv, ReviewIsInformed, RefusedForAReason

LEMMA RetrieveStep ==
  ASSUME CheckInv, Retrieve
  PROVE  CheckInv'
<1>1. proposal' = [proposal EXCEPT !.at = "generate"] /\ moves' = [moves EXCEPT !.shown = moves.now]
  BY DEF Retrieve
<1>2. CheckShaped' /\ CanonInv' /\ proposal'.at = "generate"
  <2>1. PICK ids, edges : context' = [entities |-> ids, edges |-> edges]
    BY DEF Retrieve
  <2> QED BY <1>1, <2>1 DEF CheckInv, CheckShaped, CanonInv, Existing, Retrieve
<1>3. context'.edges \subseteq DOMAIN canon'.bond
  BY DEF Retrieve, AmongThem
<1> QED BY <1>2, <1>3, Elsewhere

LEMMA ProposeStep ==
  ASSUME CheckInv, Propose
  PROVE  CheckInv'
<1>1. CheckShaped' /\ CanonInv' /\ proposal'.at \in {"list", "nothing"}
  BY DEF CheckInv, CheckShaped, CanonInv, Existing, Propose
<1> QED BY <1>1, Elsewhere DEF CheckInv, FreshInv, Propose

LEMMA ListStep ==
  ASSUME CheckInv, ListExisting
  PROVE  CheckInv'
<1>1. CheckShaped' /\ proposal'.at = "validate" /\ proposal'.listed = canon.title
  BY DEF CheckInv, CheckShaped, ListExisting
<1>3. CanonInv'
  BY DEF CheckInv, CheckShaped, CanonInv, Existing, ListExisting
<1>2. moves'.now = moves.now /\ moves'.shown = moves.shown
  BY DEF CheckInv, CheckShaped, ListExisting
<1> QED BY <1>1, <1>2, <1>3, Elsewhere DEF CheckInv, FreshInv, ListExisting

LEMMA ValidateStep ==
  ASSUME CheckInv, Validate
  PROVE  CheckInv'
<1> DEFINE listed == proposal.listed
           raw == proposal.raw
           kept == Kept(raw, listed)
<1>1. CASE Retry
  <2>1. CheckShaped' /\ CanonInv' /\ proposal'.at = "generate"
    BY <1>1 DEF CheckInv, CheckShaped, CanonInv, Existing, Validate, Retry
  <2> QED BY <2>1, Elsewhere DEF CheckInv, FreshInv, Validate
<1>2. CASE proposal' = [proposal EXCEPT !.at = "review", !.draft = kept, !.attempts = @ + 1,
                                        !.warnings = @ \cup Said(raw, kept, listed)]
  <2>1. /\ CheckShaped' /\ CanonInv' /\ proposal'.at = "review" /\ proposal'.draft = kept
        /\ proposal'.raw = raw /\ proposal'.listed = listed
        /\ Said(raw, kept, listed) \subseteq proposal'.warnings
    BY <1>2 DEF CheckInv, CheckShaped, CanonInv, Existing, Validate
  <2>2. FreshInv'
    BY <2>1 DEF CheckInv, FreshInv, Validate
  <2>3. DraftInv'
    <3>1. Sound(kept, listed)
      BY KeptIsSound
    <3> QED BY <2>1, <3>1 DEF DraftInv, Sound, Validate
  <2>4. DroppedNamed(raw, kept, proposal'.warnings) /\ ConflictNamed(kept, canon.bond, proposal'.warnings)
    BY <2>1, DroppedHasAWord, ConflictHasAWord
  <2>5. DroppedIsSaid' /\ ConflictIsSaid'
    <3> HIDE DEF kept, raw
    <3> QED BY <2>1, <2>4, InTheseTerms DEF Terms, Validate
  <2> QED BY <2>1, <2>2, <2>3, <2>5 DEF CheckInv, ReviewIsInformed, RefusedForAReason
<1> QED BY <1>1, <1>2 DEF Validate

LEMMA ApproveStep ==
  ASSUME CheckInv, Approve
  PROVE  CheckInv'
<1>1. /\ CheckShaped' /\ proposal'.at = "preflight" /\ proposal'.listed = proposal.listed
      /\ \/ proposal'.rewritten
         \/ proposal'.draft = proposal.draft /\ proposal'.rewritten = proposal.rewritten
  <2>1. CASE proposal' = [proposal EXCEPT !.at = "preflight"]
    BY <2>1 DEF CheckInv, CheckShaped, Approve
  <2>2. ASSUME NEW draft \in Rewrites,
               proposal' = [proposal EXCEPT !.at = "preflight", !.draft = draft, !.rewritten = TRUE]
        PROVE  /\ CheckShaped' /\ proposal'.at = "preflight"
               /\ proposal'.listed = proposal.listed /\ proposal'.rewritten
    BY <2>2 DEF CheckInv, CheckShaped, Approve
  <2> QED BY <2>1, <2>2 DEF Approve
<1>4. CanonInv'
  BY DEF CheckInv, CanonInv, Existing, Approve
<1>2. FreshInv'
  BY <1>1 DEF CheckInv, FreshInv, Approve
<1>3. DraftInv'
  BY <1>1 DEF CheckInv, DraftInv, Sound, Approve
<1> QED BY <1>1, <1>2, <1>3, <1>4 DEF CheckInv, ReviewIsInformed, RefusedForAReason

LEMMA ReviseStep ==
  ASSUME CheckInv, Revise
  PROVE  CheckInv'
<1>1. CheckShaped' /\ CanonInv' /\ proposal'.at = "generate"
  BY DEF CheckInv, CheckShaped, CanonInv, Existing, Revise
<1> QED BY <1>1, Elsewhere DEF CheckInv, FreshInv, Revise

(* What the preflight holds against a sound draft has changed since, or was *)
(* retrieved without there being an entity of that id.                      *)
LEMMA StaleForAReason ==
  ASSUME CheckInv, proposal.at = "preflight", ~ proposal.rewritten, NEW w \in Stale(proposal.draft)
  PROVE  CASE w.code \in {"stale_patch_target", "stale_duplicate_title"} -> moves.now > moves.listed
           [] w.code = "stale_relationship_edge" -> moves.now > moves.shown
           [] OTHER -> w.about \in context.entities \ Existing
<1> DEFINE draft == proposal.draft
<1>1. Sound(draft, proposal.listed)
  BY DEF CheckInv, DraftInv
<1>2. /\ moves.now > moves.listed \/ proposal.listed = canon.title
      /\ moves.now > moves.shown \/ context.edges \subseteq DOMAIN canon.bond
  BY DEF CheckInv, CheckShaped, CanonInv, FreshInv
<1>3. CASE \E p \in draft.patches \ Existing : w = Warning("stale_patch_target", p)
  BY <1>1, <1>2, <1>3 DEF Sound, Existing, Warning
<1>4. CASE \E e \in draft.entities : /\ e.title \in Range(canon.title)
                                      /\ w = Warning("stale_duplicate_title", e.title)
  <2>1. PICK e \in draft.entities : /\ e.title \in Range(canon.title)
                                     /\ w = Warning("stale_duplicate_title", e.title)
    BY <1>4
  <2>2. PICK x \in Existing : canon.title[x] = e.title
    BY <2>1 DEF Range, Existing
  <2>3. <<e.title, canon.title[x]>> \in Alike
    BY <2>2, ProposalAssumption DEF CheckInv, CanonInv
  <2>4. proposal.listed # canon.title
    BY <1>1, <2>2, <2>3 DEF Sound, ClonesOf, Existing
  <2> QED BY <2>1, <2>4, <1>2 DEF Warning
<1>5. CASE \E r \in draft.relationships : /\ r.op # "create" /\ r.edge \notin DOMAIN canon.bond
                                          /\ w = Warning("stale_relationship_edge", r.edge)
  BY <1>1, <1>2, <1>5 DEF Sound, Warning
<1>6. CASE \E r \in draft.relationships :
           \E x \in {r.source, r.target} \ (Refs(draft.entities) \cup Existing) :
             r.op = "create" /\ w = Warning("stale_relationship_endpoint", x)
  BY <1>1, <1>6 DEF Sound, Warning
<1> QED BY <1>3, <1>4, <1>5, <1>6 DEF Stale

LEMMA PreflightStep ==
  ASSUME CheckInv, Preflight
  PROVE  CheckInv'
<1>1. /\ CheckShaped' /\ CanonInv' /\ proposal'.problems = Stale(proposal.draft)
      /\ proposal'.at \in {"write", "refused"} /\ proposal'.rewritten = proposal.rewritten
  BY DEF CheckInv, CheckShaped, CanonInv, Existing, Preflight
<1>2. RefusedForAReason'
  BY <1>1, StaleForAReason DEF Preflight, RefusedForAReason, Existing
<1> QED BY <1>1, <1>2 DEF CheckInv, FreshInv, DraftInv, ReviewIsInformed, Preflight

(* An edit of the world leaves it a world, and no mark is of the present.   *)
LEMMA MoveStep ==
  ASSUME CheckInv, NEW world, Move(world), world = [title |-> world.title, bond |-> world.bond],
         world.title \in [DOMAIN world.title -> Titles]
  PROVE  CheckInv'
<1>1. CheckShaped' /\ CanonInv' /\ moves'.now # moves'.shown /\ moves'.now # moves'.listed
  BY DEF CheckInv, CheckShaped, CanonInv, Existing, Move
<1>2. FreshInv' /\ DraftInv'
  BY <1>1 DEF CheckInv, FreshInv, DraftInv, Sound, Move
<1>3. ReviewIsInformed'
  BY <1>1, InTheseTerms DEF Terms, CheckInv, ReviewIsInformed, Move
<1> QED BY <1>1, <1>2, <1>3 DEF CheckInv, RefusedForAReason, Move

LEMMA GameMasterStep ==
  ASSUME CheckInv, GameMaster
  PROVE  CheckInv'
<1>0. canon = [title |-> canon.title, bond |-> canon.bond] /\ canon.title \in [Existing -> Titles]
  BY DEF CheckInv, CheckShaped, CanonInv
<1>1. ASSUME NEW e \in Ids, NEW t \in Titles,
             Move([canon EXCEPT !.title = [i \in Existing \cup {e} |-> IF i = e THEN t ELSE canon.title[i]]])
      PROVE  CheckInv'
  BY <1>0, <1>1, MoveStep
<1>2. ASSUME NEW e \in Existing, Move(Without(e))
      PROVE  CheckInv'
  BY <1>0, <1>2, MoveStep DEF Without, Restrict
<1>3. ASSUME NEW bonds, Move([canon EXCEPT !.bond = bonds])
      PROVE  CheckInv'
  BY <1>0, <1>3, MoveStep DEF Existing
<1> QED BY <1>1, <1>2, <1>3 DEF GameMaster

LEMMA CheckAlways == CheckSpec => []CheckInv
<1>1. CheckInv /\ [CheckNext]_checking => CheckInv'
  <2> SUFFICES ASSUME CheckInv, [CheckNext]_checking PROVE CheckInv'
    OBVIOUS
  <2>1. CASE UNCHANGED checking
    <3>1. CheckShaped' /\ CanonInv' /\ FreshInv' /\ DraftInv'
      BY <2>1 DEF checking, CheckInv, CheckShaped, CanonInv, Existing, FreshInv, DraftInv, Sound
    <3>2. ReviewIsInformed'
      BY <2>1, InTheseTerms DEF Terms, checking, CheckInv, ReviewIsInformed
    <3>3. RefusedForAReason'
      BY <2>1 DEF checking, CheckInv, RefusedForAReason, Existing
    <3> QED BY <3>1, <3>2, <3>3 DEF CheckInv
  <2> QED BY <2>1, RetrieveStep, ProposeStep, ListStep, ValidateStep, ApproveStep, ReviseStep,
             PreflightStep, GameMasterStep DEF CheckNext
<1> QED BY InitCheck, <1>1, PTL DEF CheckSpec

(* What validation took out of a draft is named in the warnings the game    *)
(* master reads next to it, and so is a relationship that contradicts or    *)
(* repeats one between two entities it connects, as long as nobody has      *)
(* edited the world since the listing (validate_changes.py).               *)
THEOREM Informed == CheckSpec => []ReviewIsInformed
<1>1. CheckInv => ReviewIsInformed
  BY DEF CheckInv
<1> QED BY CheckAlways, <1>1, PTL

(* A draft the game master left as it was is refused by the preflight only  *)
(* for what has changed since the listing or the retrieval, or for an       *)
(* entity that was retrieved and has no row (_preflight of commit.py).     *)
THEOREM Reasons == CheckSpec => []RefusedForAReason
<1>1. CheckInv => RefusedForAReason
  BY DEF CheckInv
<1> QED BY CheckAlways, <1>1, PTL
=============================================================================
