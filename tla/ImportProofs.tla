---------------------------- MODULE ImportProofs ----------------------------
(***************************************************************************)
(* Theorems about what is brought into a project.                          *)
(*                                                                         *)
(* ImportJob, for any number of imports and decisions, any documents and   *)
(* any size of a page, with or without faults.  What the merge makes of a  *)
(* document is computed by folds over sequences; nothing is assumed of it  *)
(* here, neither of the entities it keeps nor of the links.                *)
(*                                                                         *)
(* ProjectTransfer, for any projects exported and any files, and any       *)
(* number of changes made to a project while it is being exported.         *)
(***************************************************************************)
EXTENDS ImportJob, ProjectTransfer, TLAPS, WellFoundedInduction

(* The pages the merge is cut into are numbered, and each holds its own. *)
LEMMA PagesHoldTheirOwn ==
  ASSUME NEW n, NEW p \in DOMAIN Pages(n)
  PROVE  /\ p \in Nat
         /\ Pages(n)[p] \subseteq Nat
         /\ \A k \in Pages(n)[p] : PageOf(k) = p
<1>1. \A k \in 0 .. n - 1 : k \in Nat
  OBVIOUS
<1>2. \A k \in Nat : PageOf(k) \in Nat
  BY PageAssumption DEF PageOf
<1>3. QED
  BY <1>1, <1>2 DEF Pages

(* A set of numbers that is not empty has its minimum. *)
LEMMA MinIsMember ==
  ASSUME NEW S, S \subseteq Nat, S # {}
  PROVE  Min(S) \in S
<1> DEFINE Less == OpToRel(<, Nat)
<1>1. IsWellFoundedOn(Less, Nat)
  BY NatLessThanWellFounded
<1>2. \A x, y \in Nat : y < x => <<y, x>> \in Less
  BY DEF OpToRel
<1> HIDE DEF Less
<1>3. PICK x \in S : \A y \in S : ~ (<<y, x>> \in Less)
  BY <1>1, WFMin
<1>4. \A y \in S : ~(y < x)
  BY <1>2, <1>3, Zenon
<1>5. \A y \in S : x =< y
  BY <1>4
<1>6. QED
  BY <1>5 DEF Min
-----------------------------------------------------------------------------
(* Types *)

Labels == {"new", "ended", "refused", "lost"} \cup Active

IsRecord(v) ==
  v = [node |-> v.node, interrupted |-> v.interrupted, writer |-> v.writer,
       registry |-> v.registry, drafts |-> v.drafts, kept |-> v.kept,
       links |-> v.links, pages |-> v.pages, page |-> v.page,
       action |-> v.action, ids |-> v.ids, committed |-> v.committed]

(* A state of the graph: the pages ahead of the one it is at are as the     *)
(* merge left them, and at the gate and behind it there is a page.          *)
IsState(v) ==
  /\ IsRecord(v)
  /\ v.node \in Nodes
  /\ v.page \in Nat
  /\ \A p \in DOMAIN v.pages :
       /\ p \in Nat
       /\ v.pages[p] \subseteq Nat
       /\ p > v.page => \A k \in v.pages[p] : PageOf(k) = p
  /\ v.node \in {"review_slice", "commit_slice"} => v.page \in DOMAIN v.pages

IsRow(row) ==
  /\ row = [status |-> row.status, review |-> row.review,
            committed |-> row.committed]
  /\ row.status \in Statuses
  /\ row.review \subseteq Nat

IsDecision(a) ==
  /\ a.job \in Imports
  /\ a.action \in {"approve", "reject", "approve_all"}
  /\ a.content = None \/ a.content \subseteq Nat

(* Which labels a request can have, and what its label says of its turn. *)
LabelOK(r) ==
  /\ pc[r] \in Labels
  /\ pc[r] \in {"guarded", "created"} => r \in Imports
  /\ pc[r] \in {"posted", "checked", "resuming"} => r \notin Imports
  /\ r \notin Imports /\ pc[r] \in Active => IsDecision(ask[r])
  /\ pc[r] = "writing" => mem[r].node = "commit_slice"

TypeInv ==
  /\ DOMAIN job = Imports /\ \A j \in Imports : IsRow(job[j])
  /\ DOMAIN ckpt = Imports /\ \A j \in Imports : IsState(ckpt[j])
  /\ DOMAIN mem = Requests /\ \A r \in Requests : IsState(mem[r])
  /\ DOMAIN pc = Requests /\ DOMAIN ask = Requests /\ DOMAIN batch = Requests
  /\ \A r \in Requests : LabelOK(r)
  /\ \A d \in decided : d.page \in Nat

LEMMA FreshIsState == IsState(Fresh)
BY DEF Fresh, IsState, IsRecord, Nodes

(* A state that keeps its pages and does not move to the gate. *)
LEMMA MovedIsState ==
  ASSUME NEW u, IsState(u), NEW v, IsRecord(v), v.pages = u.pages,
         v.page = u.page, v.node \in Nodes,
         v.node \in {"review_slice", "commit_slice"} =>
           u.node \in {"review_slice", "commit_slice"}
  PROVE  IsState(v)
BY DEF IsState

LEMMA InitType == Init => TypeInv
BY FreshIsState DEF Init, TypeInv, IsRow, NoRow, Statuses, LabelOK, Labels,
   Active, Serving, InStream, Working

LEMMA JobOfType ==
  ASSUME TypeInv, NEW r \in Requests, pc[r] \in Active
  PROVE  JobOf(r) \in Imports
BY DEF TypeInv, LabelOK, IsDecision, JobOf

LEMMA SuperstepType ==
  ASSUME TypeInv, NEW r \in Requests, pc[r] \in Working, NEW v, IsState(v),
         Superstep(r, v), \A d \in decided' : d.page \in Nat,
         DOMAIN batch' = Requests
  PROVE  TypeInv'
<1>1. JobOf(r) \in Imports
  BY JobOfType DEF Active, Serving, InStream
<1>2. IsState([v EXCEPT !.writer = r])
  BY DEF IsState, IsRecord
<1>3. ckpt' = [ckpt EXCEPT ![JobOf(r)] = [v EXCEPT !.writer = r]]
      /\ mem' = [mem EXCEPT ![r] = v]
      /\ pc' = [pc EXCEPT ![r] = IF v.node = "END" THEN "finalizing"
                                                   ELSE "turn"]
      /\ job' = job /\ ask' = ask
  BY DEF Superstep, Goto
<1>4. \A q \in Requests : LabelOK(q)'
  BY <1>3 DEF TypeInv, LabelOK, Labels, Active, Serving, InStream, Working
<1>5. QED
  BY <1>1, <1>2, <1>3, <1>4 DEF TypeInv

(* A turn ends: its row may change, its checkpoint does not. *)
LEMMA LeaveType ==
  ASSUME TypeInv, NEW r \in Requests,
         NEW label \in {"ended", "refused", "lost"}, Leave(r, label),
         DOMAIN job' = Imports, \A j \in Imports : IsRow(job'[j]),
         ckpt' = ckpt, decided' = decided
  PROVE  TypeInv'
<1>1. \A q \in Requests : LabelOK(q)'
  BY FreshIsState
     DEF Leave, Goto, TypeInv, LabelOK, Labels, Active, Serving, InStream, Working
<1>2. QED
  BY <1>1, FreshIsState DEF Leave, Goto, TypeInv

(* Requests that arrive and rows that are set: no turn's state is touched. *)
LEMMA RequestType ==
  ASSUME TypeInv, NEW r \in Requests,
         \/ r \in Imports /\ (StartGuard(r) \/ CreateJob(r))
         \/ r \in Decisions /\ (PostDecision(r) \/ CheckReview(r))
         \/ BeginTurn(r) \/ LoadThread(r) \/ ReadState(r)
  PROVE  TypeInv'
<1> USE DEF Goto, world
<1>1. CASE r \in Imports /\ StartGuard(r)
  <2>1. \A q \in Requests : LabelOK(q)'
    BY <1>1 DEF StartGuard, TypeInv, LabelOK, Labels, Active, Serving, InStream, Working
  <2>2. QED
    BY <1>1, <2>1 DEF StartGuard, TypeInv
<1>2. CASE r \in Imports /\ CreateJob(r)
  <2>1. \A q \in Requests : LabelOK(q)'
    BY <1>2 DEF CreateJob, TypeInv, LabelOK, Labels, Active, Serving, InStream, Working
  <2>2. \A j \in Imports : IsRow(job[j])'
    BY <1>2 DEF CreateJob, TypeInv, IsRow, Statuses, ActiveStatuses
  <2>3. QED
    BY <1>2, <2>1, <2>2 DEF CreateJob, TypeInv
<1>3. CASE r \in Decisions /\ PostDecision(r)
  <2>1. IsDecision(ask'[r])
    BY <1>3 DEF PostDecision, TypeInv, IsRow, IsDecision
  <2>2. pc' = [pc EXCEPT ![r] = "posted"]
        /\ \A q \in Requests \ {r} : ask'[q] = ask[q]
        /\ mem' = mem
    BY <1>3 DEF PostDecision, TypeInv
  <2>3. \A q \in Requests : LabelOK(q)'
    BY <1>3, <2>1, <2>2, RequestsAssumption
       DEF TypeInv, LabelOK, Labels, Active, Serving, InStream, Working
  <2>4. QED
    BY <1>3, <2>2, <2>3 DEF PostDecision, TypeInv
<1>4. CASE r \in Decisions /\ CheckReview(r)
  <2>1. CASE Leave(r, "refused")
    BY <1>4, <2>1, LeaveType DEF CheckReview, TypeInv
  <2>2. CASE Goto(r, "checked") /\ UNCHANGED <<ask, mem, batch>>
    <3>1. \A q \in Requests : LabelOK(q)'
      BY <1>4, <2>2, RequestsAssumption
         DEF CheckReview, TypeInv, LabelOK, Labels, Active, Serving, InStream, Working
    <3>2. QED
      BY <1>4, <2>2, <3>1 DEF CheckReview, TypeInv
  <2>3. QED
    BY <1>4, <2>1, <2>2 DEF CheckReview
<1>5. CASE BeginTurn(r)
  <2>1. JobOf(r) \in Imports
    BY <1>5, JobOfType DEF BeginTurn, Active
  <2>2. \A q \in Requests : LabelOK(q)'
    BY <1>5 DEF BeginTurn, TypeInv, LabelOK, Labels, Active, Serving, InStream, Working
  <2>3. \A j \in Imports : IsRow(job[j])'
    BY <1>5, <2>1 DEF BeginTurn, TypeInv, IsRow, Statuses, ActiveStatuses
  <2>4. QED
    BY <1>5, <2>2, <2>3 DEF BeginTurn, TypeInv
<1>6. CASE LoadThread(r)
  <2>1. JobOf(r) \in Imports
    BY <1>6, JobOfType DEF LoadThread, Active, Serving, InStream
  <2>2. IsState(mem'[r]) /\ \A q \in Requests \ {r} : mem'[q] = mem[q]
    <3>1. PICK v : /\ IsState(v)
                   /\ mem' = [mem EXCEPT ![r] =
                                [v EXCEPT !.interrupted = FALSE]]
      BY <1>6, <2>1, FreshIsState DEF LoadThread, TypeInv
    <3>2. ASSUME NEW w, w = [v EXCEPT !.interrupted = FALSE]
          PROVE  IsState(w)
      <4>1. IsRecord(v) /\ v.node \in Nodes
        BY <3>1 DEF IsState
      <4>2. /\ IsRecord(w) /\ w.pages = v.pages /\ w.page = v.page
            /\ w.node = v.node
        BY <3>2, <4>1 DEF IsRecord
      <4>3. QED
        BY <3>1, <4>1, <4>2, MovedIsState
    <3>3. QED
      BY <3>1, <3>2 DEF TypeInv
  <2>3. \A q \in Requests : LabelOK(q)'
    BY <1>6, <2>2
       DEF LoadThread, TypeInv, LabelOK, Labels, Active, Serving, InStream, Working
  <2>4. QED
    BY <1>6, <2>2, <2>3 DEF LoadThread, TypeInv
<1>7. CASE ReadState(r)
  <2>1. JobOf(r) \in Imports
    BY <1>7, JobOfType DEF ReadState, Active, Serving, InStream
  <2>2. IsState(mem'[r]) /\ \A q \in Requests \ {r} : mem'[q] = mem[q]
    BY <1>7, <2>1 DEF ReadState, TypeInv
  <2>3. \A q \in Requests : LabelOK(q)'
    BY <1>7, <2>2
       DEF ReadState, TypeInv, LabelOK, Labels, Active, Serving, InStream, Working
  <2>4. QED
    BY <1>7, <2>2, <2>3 DEF ReadState, TypeInv
<1>8. QED
  BY <1>1, <1>2, <1>3, <1>4, <1>5, <1>6, <1>7

(* How a turn ends, whatever it ends with. *)
LEMMA EndType ==
  ASSUME TypeInv, NEW r \in Requests,
         \/ Finalize(r) \/ FinalizeRaises(r) \/ NodeError(r) \/ Cancelled(r)
         \/ Abandon(r)
  PROVE  TypeInv'
<1> USE DEF world
<1>0. pc[r] \in Active => JobOf(r) \in Imports
  BY JobOfType
<1>1. CASE Finalize(r)
  <2>1. \A j \in Imports : IsRow(job[j])'
    BY <1>0, <1>1 DEF Finalize, TypeInv, IsRow, IsState, Statuses,
       ActiveStatuses, Active, Serving, InStream
  <2>2. QED
    BY <1>1, <2>1, LeaveType DEF Finalize, TypeInv
<1>2. CASE FinalizeRaises(r)
  BY <1>2, LeaveType DEF FinalizeRaises, TypeInv
<1>3. ASSUME Leave(r, "ended"), pc[r] \in Active, UNCHANGED <<ckpt, decided>>,
             job' = [job EXCEPT ![JobOf(r)].status = "failed"]
      PROVE  TypeInv'
  <2>1. \A j \in Imports : IsRow(job[j])'
    BY <1>0, <1>3 DEF TypeInv, IsRow, Statuses
  <2>2. QED
    BY <1>3, <2>1, LeaveType DEF TypeInv
<1>4. CASE NodeError(r) \/ Cancelled(r)
  BY <1>3, <1>4
     DEF NodeError, Cancelled, Fail, At, Active, Serving, InStream, Working
<1>5. CASE Abandon(r)
  BY <1>5, LeaveType DEF Abandon, TypeInv
<1>6. QED
  BY <1>1, <1>2, <1>4, <1>5

(* All but the edges, of which no invariant here speaks. *)
butEdges == <<job, ckpt, pc, ask, mem, batch, canon, decided, overlap, cut,
              left, deleted>>

(* What no single turn does, and the edges it writes. *)
LEMMA WorldType ==
  ASSUME TypeInv, Crash \/ DeleteEntity \/ UNCHANGED butEdges
  PROVE  TypeInv'
<1>1. CASE Crash
  <2>1. \A q \in Requests : LabelOK(q)'
    BY <1>1 DEF Crash, InFlight, TypeInv, LabelOK, Labels, Active, Serving, InStream,
       Working
  <2>2. QED
    BY <1>1, <2>1, FreshIsState DEF Crash, TypeInv
<1>2. CASE DeleteEntity
  BY <1>2 DEF DeleteEntity, TypeInv, LabelOK
<1>3. CASE UNCHANGED butEdges
  BY <1>3 DEF butEdges, TypeInv, LabelOK
<1>4. QED
  BY <1>1, <1>2, <1>3

(* What a node of the graph returns is a state again. *)
LEMMA NodeIsState ==
  ASSUME TypeInv, NEW r \in Requests, NEW v,
         \/ v = [mem[r] EXCEPT !.node = "build_registry"]
         \/ \E x : v = [mem[r] EXCEPT !.node = "extract_windows",
                                      !.registry = x]
         \/ \E x : v = [mem[r] EXCEPT !.node = "merge_extractions",
                                      !.drafts = x]
         \/ \E x, y, z, w :
              v = [mem[r] EXCEPT !.node = "paginate_review", !.kept = x,
                                 !.links = y, !.registry = z, !.drafts = w]
         \/ v = [mem[r] EXCEPT !.node = "END"]
         \/ \E x, y : v = [mem[r] EXCEPT !.node = "advance_slice",
                                         !.committed = x, !.ids = y]
  PROVE  IsState(v)
<1>1. IsState(mem[r]) /\ IsRecord(mem[r])
  BY DEF TypeInv, IsState
<1>2. /\ IsRecord(v) /\ v.pages = mem[r].pages /\ v.page = mem[r].page
      /\ v.node \in {"build_registry", "extract_windows",
                     "merge_extractions", "paginate_review", "END",
                     "advance_slice"}
  BY <1>1 DEF IsRecord
<1>3. QED
  BY <1>1, <1>2, MovedIsState DEF Nodes

LEMMA PaginatedIsState ==
  ASSUME TypeInv, NEW r \in Requests, NEW n, NEW v,
         v = [mem[r] EXCEPT !.node = "review_slice", !.page = 1,
                            !.pages = Pages(n)]
  PROVE  IsState(v)
<1>1. 1 \in DOMAIN Pages(n)
  BY DEF Pages
<1>2. IsRecord(mem[r])
  BY DEF TypeInv, IsState
<1>3. /\ IsRecord(v) /\ v.node = "review_slice" /\ v.page = 1
      /\ v.pages = Pages(n)
  BY <1>2 DEF IsRecord
<1>4. QED
  BY <1>1, <1>3, PagesHoldTheirOwn DEF IsState, Nodes

LEMMA AdvancedIsState ==
  ASSUME TypeInv, NEW r \in Requests, NEW v, NEW w,
         v = [mem[r] EXCEPT !.page = @ + 1],
         w = [v EXCEPT !.node = RouteAfterAdvance(v)]
  PROVE  IsState(w)
<1>1. IsState(mem[r])
  BY DEF TypeInv
<1>2. /\ v.page = mem[r].page + 1 /\ v.pages = mem[r].pages
      /\ w.page = v.page /\ w.pages = v.pages
      /\ w.node = RouteAfterAdvance(v)
  BY <1>1 DEF IsState, IsRecord
<1>3. IsRecord(w)
  BY <1>1 DEF IsState, IsRecord
<1>4. w.node \in Nodes
      /\ (w.node \in {"review_slice", "commit_slice"}
            => w.page \in DOMAIN w.pages)
  BY <1>2 DEF RouteAfterAdvance, Nodes
<1>5. QED
  BY <1>1, <1>2, <1>3, <1>4 DEF IsState

(* The gate, resumed: the page gets the content decided for it. *)
LEMMA ReviewedIsState ==
  ASSUME TypeInv, NEW r \in Requests, ReviewSlice(r)
  PROVE  /\ r \notin Imports /\ IsDecision(ask[r])
         /\ pc[r] = "resuming" /\ mem[r].node = "review_slice"
         /\ mem[r].page \in DOMAIN mem[r].pages
         /\ \E content, v :
              /\ content = IF ask[r].content = None
                           THEN mem[r].pages[mem[r].page]
                           ELSE ask[r].content
              /\ Superstep(r, v)
              /\ IsState(v)
              /\ v.page = mem[r].page
              /\ v.pages = [mem[r].pages EXCEPT ![mem[r].page] = content]
              /\ v.node = RouteAfterSliceReview(ask[r].action)
              /\ v.action = ask[r].action
              /\ v.ids = mem[r].ids /\ v.committed = mem[r].committed
              /\ v.links = mem[r].links
              /\ v.interrupted = mem[r].interrupted
              /\ decided' = decided \cup
                   {[job |-> ask[r].job, action |-> ask[r].action,
                     page |-> mem[r].page, content |-> content]}
<1> DEFINE content == IF ask[r].content = None
                      THEN mem[r].pages[mem[r].page] ELSE ask[r].content
           v == [mem[r] EXCEPT !.action = ask[r].action,
                               !.pages[mem[r].page] = content,
                               !.node = RouteAfterSliceReview(ask[r].action)]
<1>1. IsDecision(ask[r]) /\ r \notin Imports
  BY DEF TypeInv, LabelOK, ReviewSlice, Active, Serving, InStream, Working
<1>2. IsState(mem[r]) /\ mem[r].node = "review_slice"
  BY DEF TypeInv, ReviewSlice
<1>3. mem[r].page \in DOMAIN mem[r].pages /\ content \subseteq Nat
  BY <1>1, <1>2 DEF IsState, IsDecision
<1>4. Superstep(r, v)
      /\ decided' = decided \cup
           {[job |-> ask[r].job, action |-> ask[r].action,
             page |-> mem[r].page, content |-> content]}
  BY DEF ReviewSlice
<1> HIDE DEF content
<1>5. /\ v.page = mem[r].page
      /\ v.pages = [mem[r].pages EXCEPT ![mem[r].page] = content]
      /\ v.node = RouteAfterSliceReview(ask[r].action)
      /\ v.action = ask[r].action
      /\ v.ids = mem[r].ids /\ v.committed = mem[r].committed
      /\ v.links = mem[r].links /\ v.interrupted = mem[r].interrupted
  BY <1>2 DEF IsState, IsRecord
<1>6. IsRecord(v)
  <2>1. IsRecord(mem[r])
    BY <1>2 DEF IsState
  <2>2. ASSUME NEW w, NEW pages, NEW action, NEW n,
               w = [mem[r] EXCEPT !.action = action, !.pages = pages,
                                  !.node = n]
        PROVE  IsRecord(w)
    BY <2>1, <2>2 DEF IsRecord
  <2>3. v = [mem[r] EXCEPT
               !.action = ask[r].action,
               !.pages = [mem[r].pages EXCEPT ![mem[r].page] = content],
               !.node = RouteAfterSliceReview(ask[r].action)]
    BY <2>1 DEF IsRecord
  <2> HIDE DEF v
  <2>4. QED
    BY <2>2, <2>3
<1>7. v.node \in Nodes
  BY <1>5 DEF RouteAfterSliceReview, Nodes
<1> HIDE DEF v
<1>8. IsState(v)
  <2>1. \A p \in DOMAIN mem[r].pages :
          /\ p \in Nat
          /\ mem[r].pages[p] \subseteq Nat
          /\ p > mem[r].page => \A k \in mem[r].pages[p] : PageOf(k) = p
    BY <1>2 DEF IsState
  <2>2. mem[r].page \in Nat
    BY <1>2 DEF IsState
  <2>3. \A p \in DOMAIN v.pages :
          /\ p \in Nat
          /\ v.pages[p] \subseteq Nat
          /\ p > v.page => \A k \in v.pages[p] : PageOf(k) = p
    <3>1. /\ DOMAIN v.pages = DOMAIN mem[r].pages
          /\ v.pages[mem[r].page] = content
          /\ \A p \in DOMAIN v.pages \ {mem[r].page} :
               v.pages[p] = mem[r].pages[p]
          /\ v.page = mem[r].page
      BY <1>3, <1>5
    <3>2. TAKE p \in DOMAIN v.pages
    <3>3. CASE p = mem[r].page
      <4>1. p \in Nat /\ ~(p > v.page)
        BY <2>2, <3>1, <3>3
      <4>2. v.pages[p] \subseteq Nat
        BY <1>3, <3>1, <3>3
      <4>3. QED
        BY <4>1, <4>2
    <3>4. CASE p # mem[r].page
      BY <2>1, <3>1, <3>4
    <3>5. QED
      BY <3>3, <3>4
  <2>4. v.page \in Nat /\ v.page \in DOMAIN v.pages
    BY <1>3, <1>5, <2>2
  <2>5. QED
    BY <1>6, <1>7, <2>3, <2>4 DEF IsState
<1>9. content = IF ask[r].content = None
                THEN mem[r].pages[mem[r].page] ELSE ask[r].content
  BY DEF content
<1>10. QED
  BY <1>1, <1>2, <1>3, <1>4, <1>5, <1>8, <1>9 DEF ReviewSlice

(* Nodes that return, the gate and the last one among them.  *)
LEMMA NodeType ==
  ASSUME TypeInv, NEW r \in Requests,
         \/ PlanWindows(r) \/ BuildRegistryNode(r) \/ ExtractWindows(r)
         \/ MergeExtractionsNode(r) \/ PaginateReview(r) \/ ReviewSlice(r)
         \/ CommitSlice(r) \/ AdvanceSlice(r) \/ CommitRelationships(r)
  PROVE  TypeInv'
<1>1. ASSUME NEW v, IsState(v), Superstep(r, v), decided' = decided,
             pc[r] \in Working, DOMAIN batch' = Requests
      PROVE  TypeInv'
  BY <1>1, SuperstepType DEF TypeInv
<1>2. DOMAIN batch = Requests
  BY DEF TypeInv
<1>3. CASE PlanWindows(r) \/ BuildRegistryNode(r) \/ ExtractWindows(r)
           \/ MergeExtractionsNode(r)
  <2> USE <1>2 DEF NoWrite, world, At, Working
  <2>1. CASE PlanWindows(r)
    BY <1>1, <2>1, NodeIsState DEF PlanWindows
  <2>2. CASE BuildRegistryNode(r)
    BY <1>1, <2>2, NodeIsState DEF BuildRegistryNode
  <2>3. CASE ExtractWindows(r)
    BY <1>1, <2>3, NodeIsState DEF ExtractWindows
  <2>4. CASE MergeExtractionsNode(r)
    BY <1>1, <2>4, NodeIsState DEF MergeExtractionsNode
  <2>5. QED
    BY <1>3, <2>1, <2>2, <2>3, <2>4
<1>4. CASE PaginateReview(r)
  BY <1>1, <1>2, <1>4, PaginatedIsState
     DEF PaginateReview, NoWrite, world, At, Working
<1>5. CASE ReviewSlice(r)
  <2>1. PICK content, v :
          /\ Superstep(r, v) /\ IsState(v)
          /\ decided' = decided \cup
               {[job |-> ask[r].job, action |-> ask[r].action,
                 page |-> mem[r].page, content |-> content]}
    BY <1>5, ReviewedIsState
  <2>2. \A d \in decided' : d.page \in Nat
    BY <2>1 DEF TypeInv, IsState
  <2>3. QED
    BY <1>2, <1>5, <2>1, <2>2, SuperstepType DEF ReviewSlice, Working
<1>6. CASE CommitSlice(r)
  BY <1>1, <1>2, <1>6, NodeIsState DEF CommitSlice, world, At, Working
<1>7. CASE AdvanceSlice(r)
  BY <1>1, <1>2, <1>7, AdvancedIsState
     DEF AdvanceSlice, NoWrite, world, At, Working
<1>8. CASE CommitRelationships(r)
  BY <1>1, <1>2, <1>8, NodeIsState DEF CommitRelationships, At, Working
<1>9. QED
  BY <1>3, <1>4, <1>5, <1>6, <1>7, <1>8

LEMMA WaitType ==
  ASSUME TypeInv, NEW r \in Requests, Interrupt(r) \/ CreateEntity(r)
  PROVE  TypeInv'
<1>1. CASE Interrupt(r)
  <2>1. JobOf(r) \in Imports
    BY <1>1, JobOfType DEF Interrupt, Active, Serving, InStream, Working
  <2>2. \A j \in Imports : IsState(ckpt'[j])
    <3>1. ASSUME NEW v, IsState(v), NEW x, NEW w,
                 w = [v EXCEPT !.interrupted = x]
          PROVE  IsState(w)
      <4>1. IsRecord(v) /\ v.node \in Nodes
        BY <3>1 DEF IsState
      <4>2. /\ IsRecord(w) /\ w.pages = v.pages /\ w.page = v.page
            /\ w.node = v.node
        BY <3>1, <4>1 DEF IsRecord
      <4>3. QED
        BY <3>1, <4>1, <4>2, MovedIsState
    <3>2. \A j \in Imports :
            ckpt'[j] = ckpt[j] \/ \E x : ckpt'[j] =
                                          [ckpt[j] EXCEPT !.interrupted = x]
      BY <1>1, <2>1 DEF Interrupt, TypeInv
    <3>3. QED
      BY <3>1, <3>2 DEF TypeInv
  <2>3. \A q \in Requests : LabelOK(q)'
    BY <1>1 DEF Interrupt, Goto, NoWrite, TypeInv, LabelOK, Labels, Active,
       Serving, InStream, Working
  <2>4. QED
    BY <1>1, <2>1, <2>2, <2>3 DEF Interrupt, Goto, NoWrite, world, TypeInv
<1>2. CASE CreateEntity(r)
  <2>1. \A q \in Requests : LabelOK(q)'
    BY <1>2 DEF CreateEntity, Goto, At, TypeInv, LabelOK, Labels, Active,
       Serving, InStream, Working
  <2>2. QED
    BY <1>2, <2>1 DEF CreateEntity, Goto, TypeInv
<1>3. QED
  BY <1>1, <1>2

LEMMA TypeStep == TypeInv /\ [Next]_vars => TypeInv'
<1> SUFFICES ASSUME TypeInv, [Next]_vars
             PROVE  TypeInv'
  OBVIOUS
<1>1. ASSUME NEW r \in Requests, GraphStep(r)
      PROVE  TypeInv'
  BY <1>1, NodeType, WaitType, WorldType DEF GraphStep, WriteEdges, butEdges
<1>2. ASSUME NEW r \in Requests, RunnerStep(r)
      PROVE  TypeInv'
  BY <1>2, RequestType, EndType DEF RunnerStep
<1>3. QED
  BY <1>1, <1>2, RequestType, EndType, WorldType
     DEF Next, Quiet, Requests, vars, butEdges
-----------------------------------------------------------------------------
(* The gate of every page *)

(* Decisions ds let entity k of job j into canon. *)
Covered(j, k, ds) ==
  \E d \in ds :
    /\ d.job = j
    /\ \/ d.action \in {"approve", "approve_all"} /\ k \in d.content
       \/ d.action = "approve_all" /\ PageOf(k) > d.page

(* A state of job j that is about to write a page may write it, and one     *)
(* that asks for no more decisions was given leave on an earlier page.      *)
GateOK(j, v, ds) ==
  /\ v.node = "commit_slice" => \A k \in v.pages[v.page] : Covered(j, k, ds)
  /\ v.node \in {"commit_slice", "advance_slice"} /\ v.action = "approve_all"
     => \E d \in ds : d.job = j /\ d.action = "approve_all" /\ d.page <= v.page

GateInv ==
  /\ \A j \in Imports : GateOK(j, ckpt[j], decided)
  /\ \A r \in Requests : pc[r] \in Working => GateOK(JobOf(r), mem[r], decided)
  /\ \A x \in canon : Covered(x.job, x.ref, decided)

LEMMA MoreDecided ==
  ASSUME NEW j, NEW v, NEW ds, NEW es, ds \subseteq es, GateOK(j, v, ds)
  PROVE  GateOK(j, v, es)
BY DEF GateOK, Covered

LEMMA SuperstepGate ==
  ASSUME TypeInv, GateInv, NEW r \in Requests, pc[r] \in Working, NEW v,
         IsState(v), Superstep(r, v), GateOK(JobOf(r), v, decided'),
         decided \subseteq decided', canon' = canon
  PROVE  GateInv'
<1>1. JobOf(r) \in Imports
  BY JobOfType DEF Active, Serving, InStream
<1>2. GateOK(JobOf(r), [v EXCEPT !.writer = r], decided')
  BY DEF IsState, IsRecord, GateOK
<1>3. \A j \in Imports : GateOK(j, ckpt'[j], decided')
  BY <1>1, <1>2, MoreDecided DEF TypeInv, GateInv, Superstep
<1>4. ASSUME NEW q \in Requests, pc'[q] \in Working
      PROVE  GateOK(JobOf(q)', mem'[q], decided')
  <2>1. JobOf(q)' = JobOf(q)
    BY DEF Superstep, JobOf
  <2>2. CASE q = r
    BY <2>1, <2>2 DEF TypeInv, Superstep
  <2>3. CASE q # r
    BY <1>4, <2>1, <2>3, MoreDecided DEF TypeInv, GateInv, Superstep, Goto
  <2>4. QED
    BY <2>2, <2>3
<1>5. \A x \in canon' : Covered(x.job, x.ref, decided')
  BY DEF GateInv, Covered
<1>6. QED
  BY <1>3, <1>4, <1>5 DEF GateInv

LEMMA NodeGate ==
  ASSUME TypeInv, GateInv, NEW r \in Requests,
         \/ PlanWindows(r) \/ BuildRegistryNode(r) \/ ExtractWindows(r)
         \/ MergeExtractionsNode(r) \/ PaginateReview(r)
         \/ CommitRelationships(r)
  PROVE  GateInv'
<1>1. ASSUME NEW v, IsState(v), Superstep(r, v), decided' = decided,
             canon' = canon, pc[r] \in Working,
             v.node \notin {"commit_slice", "advance_slice"}
      PROVE  GateInv'
  BY <1>1, SuperstepGate DEF GateOK
<1>2. IsRecord(mem[r])
  BY DEF TypeInv, IsState
<1> USE DEF NoWrite, world, At, Working
<1>3. CASE PlanWindows(r)
  <2>1. [mem[r] EXCEPT !.node = "build_registry"].node = "build_registry"
    BY <1>2 DEF IsRecord
  <2>2. QED
    BY <1>1, <1>3, <2>1, NodeIsState DEF PlanWindows
<1>4. CASE BuildRegistryNode(r)
  <2>1. \A x : [mem[r] EXCEPT !.node = "extract_windows",
                              !.registry = x].node = "extract_windows"
    BY <1>2 DEF IsRecord
  <2>2. QED
    BY <1>1, <1>4, <2>1, NodeIsState DEF BuildRegistryNode
<1>5. CASE ExtractWindows(r)
  <2>1. \A x : [mem[r] EXCEPT !.node = "merge_extractions",
                              !.drafts = x].node = "merge_extractions"
    BY <1>2 DEF IsRecord
  <2>2. QED
    BY <1>1, <1>5, <2>1, NodeIsState DEF ExtractWindows
<1>6. CASE MergeExtractionsNode(r)
  <2>1. PICK x, y, z, w :
          Superstep(r, [mem[r] EXCEPT !.node = "paginate_review", !.kept = x,
                          !.links = y, !.registry = z, !.drafts = w])
    BY <1>6 DEF MergeExtractionsNode
  <2>2. PICK v : /\ v = [mem[r] EXCEPT !.node = "paginate_review", !.kept = x,
                             !.links = y, !.registry = z, !.drafts = w]
                 /\ Superstep(r, v)
    BY <2>1
  <2>3. IsState(v)
    BY <2>2, NodeIsState
  <2>4. v.node = "paginate_review"
    BY <1>2, <2>2 DEF IsRecord
  <2>5. QED
    BY <1>1, <1>6, <2>2, <2>3, <2>4 DEF MergeExtractionsNode
<1>7. CASE PaginateReview(r)
  <2>1. \A x : [mem[r] EXCEPT !.node = "review_slice", !.page = 1,
                              !.pages = x].node = "review_slice"
    BY <1>2 DEF IsRecord
  <2>2. QED
    BY <1>1, <1>7, <2>1, PaginatedIsState DEF PaginateReview
<1>8. CASE CommitRelationships(r)
  <2>1. [mem[r] EXCEPT !.node = "END"].node = "END"
    BY <1>2 DEF IsRecord
  <2>2. QED
    BY <1>1, <1>8, <2>1, NodeIsState DEF CommitRelationships
<1>9. QED
  BY <1>3, <1>4, <1>5, <1>6, <1>7, <1>8

(* The decision is recorded with what it leaves of the page. *)
LEMMA ReviewGate ==
  ASSUME TypeInv, GateInv, NEW r \in Requests, ReviewSlice(r)
  PROVE  GateInv'
<1>1. r \notin Imports /\ IsDecision(ask[r])
      /\ mem[r].page \in DOMAIN mem[r].pages
  BY ReviewedIsState
<1>2. PICK content, v :
        /\ Superstep(r, v) /\ IsState(v) /\ v.page = mem[r].page
        /\ v.pages = [mem[r].pages EXCEPT ![mem[r].page] = content]
        /\ v.node = RouteAfterSliceReview(ask[r].action)
        /\ v.action = ask[r].action
        /\ decided' = decided \cup
             {[job |-> ask[r].job, action |-> ask[r].action,
               page |-> mem[r].page, content |-> content]}
  BY ReviewedIsState
<1>3. v.pages[v.page] = content /\ v.page \in Nat
  BY <1>1, <1>2 DEF IsState
<1>4. JobOf(r) = ask[r].job
  BY <1>1 DEF JobOf
<1> DEFINE d == [job |-> ask[r].job, action |-> ask[r].action,
                 page |-> mem[r].page, content |-> content]
<1>5. d \in decided' /\ d.job = JobOf(r) /\ d.action = v.action
      /\ d.page = v.page /\ d.content = content
  BY <1>2, <1>4
<1> HIDE DEF d
<1>6. GateOK(JobOf(r), v, decided')
  <2>1. v.node = "commit_slice" => v.action \in {"approve", "approve_all"}
    BY <1>2 DEF RouteAfterSliceReview
  <2>2. v.page <= v.page
    BY <1>3
  <2>3. QED
    BY <1>3, <1>5, <2>1, <2>2 DEF GateOK, Covered
<1>7. QED
  BY <1>2, <1>6, SuperstepGate DEF ReviewSlice, Working

(* A page is done; the next one may be written if all that remain may. *)
LEMMA PageGate ==
  ASSUME TypeInv, GateInv, NEW r \in Requests,
         CommitSlice(r) \/ AdvanceSlice(r)
  PROVE  GateInv'
<1>1. IsState(mem[r]) /\ IsRecord(mem[r]) /\ pc[r] \in Working
  BY DEF TypeInv, IsState, CommitSlice, AdvanceSlice, At, Working
<1>2. GateOK(JobOf(r), mem[r], decided)
  BY <1>1 DEF GateInv
<1>3. CASE CommitSlice(r)
  <2>1. mem[r].node = "commit_slice"
    BY <1>3 DEF CommitSlice, At, TypeInv, LabelOK
  <2>2. PICK x, y :
          Superstep(r, [mem[r] EXCEPT !.node = "advance_slice",
                                      !.committed = x, !.ids = y])
    BY <1>3 DEF CommitSlice
  <2>3. PICK v :
          /\ v = [mem[r] EXCEPT !.node = "advance_slice", !.committed = x,
                                !.ids = y]
          /\ Superstep(r, v)
    BY <2>2
  <2>4. /\ IsState(v)
        /\ v.node = "advance_slice" /\ v.action = mem[r].action
        /\ v.page = mem[r].page
    BY <1>1, <2>3, NodeIsState DEF IsRecord
  <2>5. GateOK(JobOf(r), v, decided)
    BY <1>2, <2>1, <2>4 DEF GateOK
  <2>6. QED
    BY <1>1, <1>3, <2>3, <2>4, <2>5, SuperstepGate DEF CommitSlice, world
<1>4. CASE AdvanceSlice(r)
  <2> DEFINE u == [mem[r] EXCEPT !.page = @ + 1]
  <2>1. Superstep(r, [u EXCEPT !.node = RouteAfterAdvance(u)])
    BY <1>4 DEF AdvanceSlice
  <2>2. PICK v :
          /\ v = [u EXCEPT !.node = RouteAfterAdvance(u)]
          /\ Superstep(r, v)
    BY <2>1
  <2>3. /\ u.page = mem[r].page + 1 /\ u.pages = mem[r].pages
        /\ u.action = mem[r].action
        /\ v.page = u.page /\ v.pages = u.pages /\ v.action = u.action
        /\ v.node = RouteAfterAdvance(u)
    BY <1>1, <2>2 DEF IsRecord
  <2>4. IsState(v)
    BY <2>2, AdvancedIsState
  <2> HIDE DEF u
  <2>5. mem[r].node = "advance_slice"
    BY <1>4 DEF AdvanceSlice, At
  <2>6. v.node \in {"commit_slice", "advance_slice"} =>
          /\ v.node = "commit_slice"
          /\ v.page \in DOMAIN mem[r].pages /\ mem[r].action = "approve_all"
    BY <2>3 DEF RouteAfterAdvance
  <2>7. ASSUME v.node = "commit_slice"
        PROVE  GateOK(JobOf(r), v, decided)
    <3>1. PICK d \in decided : /\ d.job = JobOf(r) /\ d.action = "approve_all"
                               /\ d.page <= mem[r].page
      BY <1>2, <2>5, <2>6, <2>7 DEF GateOK
    <3>2. v.page \in Nat /\ mem[r].page \in Nat /\ d.page \in Nat
      BY <1>1, <2>4 DEF IsState, TypeInv
    <3>3. v.page > d.page /\ d.page <= v.page /\ v.page > mem[r].page
      BY <2>3, <3>1, <3>2
    <3>4. \A k \in v.pages[v.page] : PageOf(k) = v.page
      BY <1>1, <2>3, <2>6, <2>7, <3>2, <3>3 DEF IsState
    <3>5. \A k \in v.pages[v.page] : PageOf(k) > d.page
      BY <3>2, <3>3, <3>4
    <3>6. \A k \in v.pages[v.page] : Covered(JobOf(r), k, decided)
      BY <3>1, <3>5 DEF Covered
    <3>7. QED
      BY <3>1, <3>3, <3>6 DEF GateOK
  <2>8. GateOK(JobOf(r), v, decided)
    BY <2>6, <2>7 DEF GateOK
  <2>9. QED
    BY <1>1, <1>4, <2>2, <2>4, <2>8, SuperstepGate
       DEF AdvanceSlice, NoWrite, world
<1>5. QED
  BY <1>3, <1>4

(* What is written next is of the page at hand. *)
LEMMA NewEntityIsOfPage ==
  ASSUME TypeInv, NEW r \in Requests, Unwritten(r) # {},
         At(r, "commit_slice") \/ pc[r] = "writing"
  PROVE  /\ NewEntity(r).job = JobOf(r)
         /\ NewEntity(r).ref \in mem[r].pages[mem[r].page]
         /\ NewEntity(r).ref \in Unwritten(r)
         /\ NewEntity(r).by = r
         /\ NewEntity(r).ref \in Nat
<1>1. IsState(mem[r]) /\ mem[r].node = "commit_slice"
  BY DEF TypeInv, LabelOK, At
<1>2. Unwritten(r) \subseteq mem[r].pages[mem[r].page]
  BY DEF Unwritten
<1>3. Unwritten(r) \subseteq Nat
  BY <1>1, <1>2 DEF IsState
<1>4. Min(Unwritten(r)) \in Unwritten(r)
  BY <1>3, MinIsMember
<1>5. QED
  BY <1>2, <1>3, <1>4 DEF NewEntity

(* Steps that leave the decisions alone: a turn at work stays what it was   *)
(* or takes the state of its job's checkpoint, or a new one.                *)
LEMMA StayGate ==
  ASSUME TypeInv, GateInv, decided' = decided,
         \A j \in Imports :
           /\ ckpt'[j].node = ckpt[j].node /\ ckpt'[j].page = ckpt[j].page
           /\ ckpt'[j].pages = ckpt[j].pages
           /\ ckpt'[j].action = ckpt[j].action,
         \A q \in Requests : pc'[q] \in Working =>
           /\ ask'[q] = ask[q]
           /\ \/ pc[q] \in Working /\ mem'[q] = mem[q]
              \/ GateOK(JobOf(q), mem'[q], decided),
         \A x \in canon' : x \in canon \/ Covered(x.job, x.ref, decided)
  PROVE  GateInv'
<1>1. \A j \in Imports : GateOK(j, ckpt'[j], decided')
  BY DEF GateInv, GateOK
<1>2. \A q \in Requests : pc'[q] \in Working => JobOf(q)' = JobOf(q)
  BY DEF JobOf
<1>3. \A q \in Requests : pc'[q] \in Working => GateOK(JobOf(q)', mem'[q], decided')
  BY <1>2 DEF GateInv
<1>4. QED
  BY <1>1, <1>3 DEF GateInv

LEMMA OutsideGate ==
  ASSUME TypeInv, GateInv, NEW r \in Requests,
         \/ r \in Imports /\ (StartGuard(r) \/ CreateJob(r))
         \/ r \in Decisions /\ (PostDecision(r) \/ CheckReview(r))
         \/ BeginTurn(r) \/ LoadThread(r) \/ ReadState(r)
         \/ Interrupt(r) \/ CreateEntity(r)
  PROVE  GateInv'
<1> USE DEF world, NoWrite
<1>1. CASE \/ r \in Imports /\ (StartGuard(r) \/ CreateJob(r))
           \/ r \in Decisions /\ (PostDecision(r) \/ CheckReview(r))
           \/ BeginTurn(r) \/ ReadState(r)
  <2>1. /\ ckpt' = ckpt /\ decided' = decided /\ canon' = canon
        /\ \A q \in Requests : pc'[q] \in Working =>
             pc[q] \in Working /\ mem'[q] = mem[q] /\ ask'[q] = ask[q]
    BY <1>1 DEF StartGuard, CreateJob, PostDecision, CheckReview, BeginTurn,
       ReadState, Goto, Leave, TypeInv, Working
  <2>2. QED
    BY <2>1, StayGate
<1>2. CASE LoadThread(r)
  <2>1. JobOf(r) \in Imports
    BY <1>2, JobOfType DEF LoadThread, Active, Serving, InStream
  <2>2. PICK u : /\ u = Fresh \/ u = ckpt[JobOf(r)]
                 /\ mem' = [mem EXCEPT ![r] =
                              [u EXCEPT !.interrupted = FALSE]]
    BY <1>2 DEF LoadThread
  <2>3. PICK v : v = [u EXCEPT !.interrupted = FALSE] /\ mem'[r] = v
    BY <2>2 DEF TypeInv
  <2>4. IsRecord(u)
    BY <2>1, <2>2, FreshIsState DEF TypeInv, IsState
  <2>5. v.node = u.node /\ v.page = u.page /\ v.pages = u.pages
        /\ v.action = u.action
    BY <2>3, <2>4 DEF IsRecord
  <2>6. GateOK(JobOf(r), u, decided)
    BY <2>1, <2>2 DEF GateInv, GateOK, Fresh
  <2>7. GateOK(JobOf(r), mem'[r], decided)
    BY <2>3, <2>5, <2>6 DEF GateOK
  <2>8. \A q \in Requests \ {r} : pc'[q] = pc[q] /\ mem'[q] = mem[q]
    BY <1>2, <2>2 DEF LoadThread, Goto, TypeInv
  <2>9. QED
    BY <1>2, <2>7, <2>8, StayGate DEF LoadThread
<1>3. CASE Interrupt(r)
  <2>1. JobOf(r) \in Imports
    BY <1>3, JobOfType DEF Interrupt, Active, Serving, InStream, Working
  <2>2. ASSUME NEW j \in Imports
        PROVE  /\ ckpt'[j].node = ckpt[j].node /\ ckpt'[j].page = ckpt[j].page
               /\ ckpt'[j].pages = ckpt[j].pages
               /\ ckpt'[j].action = ckpt[j].action
    <3>1. IsRecord(ckpt[j])
      BY DEF TypeInv, IsState
    <3>2. QED
      BY <1>3, <2>1, <3>1 DEF Interrupt, TypeInv, IsRecord
  <2>3. \A q \in Requests : pc'[q] \in Working =>
           pc[q] \in Working /\ mem'[q] = mem[q] /\ ask'[q] = ask[q]
    BY <1>3 DEF Interrupt, Goto, TypeInv, Working
  <2>4. QED
    BY <1>3, <2>2, <2>3, StayGate DEF Interrupt
<1>4. CASE CreateEntity(r)
  <2>1. At(r, "commit_slice") \/ pc[r] = "writing"
    BY <1>4 DEF CreateEntity
  <2>2. mem[r].node = "commit_slice" /\ pc[r] \in Working
    BY <2>1 DEF At, TypeInv, LabelOK, Working
  <2>3. Covered(NewEntity(r).job, NewEntity(r).ref, decided)
    BY <1>4, <2>1, <2>2, NewEntityIsOfPage DEF CreateEntity, GateInv, GateOK
  <2>4. \A q \in Requests : pc'[q] \in Working =>
           pc[q] \in Working /\ mem'[q] = mem[q] /\ ask'[q] = ask[q]
    BY <1>4, <2>2 DEF CreateEntity, Goto, TypeInv, Working
  <2>5. QED
    BY <1>4, <2>3, <2>4, StayGate DEF CreateEntity
<1>5. QED
  BY <1>1, <1>2, <1>3, <1>4

(* A turn that ends leaves no more than it has leave for, even when it is   *)
(* cut off between a row and its indexing.                                  *)
LEMMA EndGate ==
  ASSUME TypeInv, GateInv, NEW r \in Requests,
         \/ Finalize(r) \/ FinalizeRaises(r) \/ NodeError(r) \/ Cancelled(r)
         \/ Abandon(r)
  PROVE  GateInv'
<1> USE DEF world
<1>1. ASSUME NEW label \in {"ended", "lost"}, Leave(r, label),
             ckpt' = ckpt, decided' = decided,
             \A x \in canon' : x \in canon \/ Covered(x.job, x.ref, decided)
      PROVE  GateInv'
  <2>1. \A q \in Requests : pc'[q] \in Working =>
           pc[q] \in Working /\ mem'[q] = mem[q] /\ ask'[q] = ask[q]
    BY <1>1 DEF Leave, Goto, TypeInv, Working
  <2>2. QED
    BY <1>1, <2>1, StayGate
<1>2. CASE Finalize(r) \/ FinalizeRaises(r) \/ Abandon(r)
  BY <1>1, <1>2 DEF Finalize, FinalizeRaises, Abandon
<1>3. CASE NodeError(r)
  BY <1>1, <1>3 DEF NodeError, Fail, RollbackCreated
<1>4. CASE Cancelled(r) /\ ~NodeError(r)
  <2>1. /\ pc[r] = "writing" \/ At(r, "commit_slice")
        /\ Unwritten(r) # {}
        /\ Fail(r, RollbackCreated(r) \cup {NewEntity(r)})
    BY <1>4 DEF Cancelled
  <2>2. mem[r].node = "commit_slice" /\ pc[r] \in Working
    BY <2>1 DEF At, TypeInv, LabelOK, Working
  <2>3. Covered(NewEntity(r).job, NewEntity(r).ref, decided)
    BY <2>1, <2>2, NewEntityIsOfPage DEF GateInv, GateOK
  <2>4. QED
    BY <1>1, <2>1, <2>3 DEF Fail, RollbackCreated
<1>5. QED
  BY <1>2, <1>3, <1>4

LEMMA GateStep == TypeInv /\ GateInv /\ [Next]_vars => GateInv'
<1> SUFFICES ASSUME TypeInv, GateInv, [Next]_vars
             PROVE  GateInv'
  OBVIOUS
<1>1. ASSUME NEW r \in Requests, GraphStep(r)
      PROVE  GateInv'
  <2>1. CASE WriteEdges(r)
    BY <2>1, StayGate DEF WriteEdges
  <2>2. QED
    BY <1>1, <2>1, NodeGate, ReviewGate, PageGate, OutsideGate DEF GraphStep
<1>2. ASSUME NEW r \in Requests, RunnerStep(r)
      PROVE  GateInv'
  BY <1>2, OutsideGate, EndGate DEF RunnerStep
<1>3. CASE Crash
  <2>1. \A q \in Requests : pc'[q] \notin Working
    BY <1>3 DEF Crash, InFlight, Active, Serving, InStream, Working
  <2>2. QED
    BY <1>3, <2>1, StayGate DEF Crash
<1>4. CASE DeleteEntity \/ UNCHANGED vars
  BY <1>4, StayGate DEF DeleteEntity, vars
<1>5. QED
  BY <1>1, <1>2, <1>3, <1>4, OutsideGate, EndGate DEF Next, Quiet, Requests

(* An entity is in canon only if the game master let its page in: as it was *)
(* left at the gate, or together with all pages after the one decided.      *)
THEOREM ImportGateHolds == Spec => []OnlyDecidedPages
<1>1. Init => TypeInv /\ GateInv
  BY InitType DEF Init, GateInv, GateOK, Fresh, Working
<1>2. TypeInv /\ GateInv /\ [Next]_vars => (TypeInv /\ GateInv)'
  BY TypeStep, GateStep
<1>3. GateInv => OnlyDecidedPages
  BY DEF GateInv, Covered, OnlyDecidedPages
<1>4. QED
  BY <1>1, <1>2, <1>3, PTL DEF Spec
-----------------------------------------------------------------------------
(* What a job's row, its thread and the world say of each other *)

(* Request r is at work on job j. *)
AtWork(r, j) == pc[r] \in Serving /\ JobOf(r) = j

(* A turn of job j, alone: it has saved a checkpoint before it waits, its   *)
(* state has all that the checkpoint lists, and it ends on what it has read. *)
TurnOK(r, j) ==
  /\ pc[r] = "turn" => mem[r].node = "plan_windows" \/ ckpt[j].writer = r
  /\ pc[r] \in {"finalizing", "reconciled"} =>
       ckpt[j].interrupted \/ ckpt[j].node = "END"
  /\ pc[r] = "reconciled" => mem[r] = ckpt[j]
  /\ pc[r] \in Working => ckpt[j].committed \subseteq mem[r].committed

Settled == {"awaiting_review", "committed"}

RowOK(j) ==
  /\ job[j].status = "awaiting_review" =>
       ckpt[j].interrupted /\ job[j].review = ckpt[j].pages[ckpt[j].page]
  /\ job[j].status = "committed" => ckpt[j].node = "END"
  /\ job[j].status \in Settled => job[j].committed = ckpt[j].committed

ThreadOK(j) ==
  /\ \A q, r \in Requests : AtWork(q, j) /\ AtWork(r, j) => q = r
  /\ \A r \in Requests : AtWork(r, j) =>
       TurnOK(r, j) /\ job[j].status \notin Settled
  /\ RowOK(j)
  /\ \A x \in canon : x.job = j =>
       \/ x \in ckpt[j].committed \cup cut
       \/ \E r \in Requests : AtWork(r, j) /\ x \in batch[r]

(* A job whose first turn has not begun has nothing, and nobody decides it. *)
Unborn(s) ==
  /\ ckpt[s].committed = {}
  /\ job[s].status \notin Settled
  /\ \A d \in Requests \ Imports : pc[d] \in Active => ask[d].job # s

ThreadInv ==
  /\ \A r \in Requests : pc[r] # "writing" => batch[r] = {}
  /\ \A s \in Imports :
       pc[s] \in {"new", "guarded", "created", "starting"} => Unborn(s)
  /\ \A j \in Imports : Orderly(j) => ThreadOK(j)

LEMMA ThreadTells == TypeInv /\ ThreadInv => JobsTellTheTruth
<1> SUFFICES ASSUME TypeInv, ThreadInv, NEW j \in Imports,
                    Orderly(j), ~Busy(j)
             PROVE  /\ RowOK(j)
                    /\ {x \in canon : x.job = j}
                         \subseteq ckpt[j].committed \cup cut
  BY DEF JobsTellTheTruth, RowMatchesThread, PagesAreWhole, RowOK, Settled
<1>1. \A r \in Requests : ~AtWork(r, j)
  BY DEF Busy, AtWork, InFlight, Active
<1>2. QED
  BY <1>1 DEF ThreadInv, ThreadOK

(* A step that is none of job j's: its turns, its row and its checkpoint    *)
(* stay, and what there is of it in canon.                                  *)
LEMMA ElsewhereOK ==
  ASSUME NEW j \in Imports, Orderly(j) => ThreadOK(j),
         overlap \subseteq overlap', ckpt'[j] = ckpt[j],
         job'[j] = job[j] \/ job'[j].status \notin Settled,
         \A r \in Requests : AtWork(r, j) \/ AtWork(r, j)' =>
           /\ AtWork(r, j) /\ AtWork(r, j)'
           /\ pc'[r] = pc[r] /\ mem'[r] = mem[r] /\ batch'[r] = batch[r],
         cut \subseteq cut',
         \A x \in canon' : x.job = j => x \in canon \/ x \in cut'
  PROVE  Orderly(j)' => ThreadOK(j)'
<1> SUFFICES ASSUME Orderly(j)'
             PROVE  ThreadOK(j)'
  OBVIOUS
<1>1. ThreadOK(j)
  BY DEF Orderly
<1>2. \A r \in Requests : AtWork(r, j)' => AtWork(r, j) /\ TurnOK(r, j)'
  BY <1>1 DEF ThreadOK, TurnOK
<1>3. RowOK(j)'
  BY <1>1 DEF ThreadOK, RowOK, Settled
<1>4. QED
  BY <1>1, <1>2, <1>3 DEF ThreadOK

(* The turn of job j goes on. *)
LEMMA WorksOnOK ==
  ASSUME NEW j \in Imports, NEW r \in Requests, AtWork(r, j), AtWork(r, j)',
         Orderly(j) => ThreadOK(j),
         overlap \subseteq overlap', job'[j] = job[j],
         \A q \in Requests : AtWork(q, j)' => AtWork(q, j),
         Orderly(j) => TurnOK(r, j)',
         cut \subseteq cut',
         Orderly(j) => \A x \in canon' : x.job = j =>
           \/ x \in canon /\ x \notin ckpt[j].committed \cup batch[r]
           \/ x \in ckpt'[j].committed \cup batch'[r]
  PROVE  Orderly(j)' => ThreadOK(j)'
<1> SUFFICES ASSUME Orderly(j)'
             PROVE  ThreadOK(j)'
  OBVIOUS
<1>1. Orderly(j) /\ ThreadOK(j)
  BY DEF Orderly
<1>2. \A q \in Requests : AtWork(q, j) => q = r
  BY <1>1 DEF ThreadOK
<1>3. job'[j].status \notin Settled
  BY <1>1 DEF ThreadOK
<1>4. RowOK(j)'
  BY <1>3 DEF RowOK, Settled
<1>5. \A x \in canon' : x.job = j =>
        \/ x \in ckpt'[j].committed \cup cut'
        \/ AtWork(r, j)' /\ x \in batch'[r]
  BY <1>1, <1>2 DEF ThreadOK
<1>6. QED
  BY <1>1, <1>2, <1>3, <1>4, <1>5 DEF ThreadOK

(* The turn of job j is over. *)
LEMMA EndsOK ==
  ASSUME NEW j \in Imports, NEW r \in Requests, AtWork(r, j),
         Orderly(j) => ThreadOK(j), overlap' = overlap,
         ckpt' = ckpt,
         \A q \in Requests : AtWork(q, j)' => AtWork(q, j) /\ q # r,
         Orderly(j) => RowOK(j)' \/ job'[j] = job[j],
         cut \subseteq cut',
         \A x \in canon' : x.job = j =>
           x \in cut' \/ x \in canon \ batch[r]
  PROVE  Orderly(j)' => ThreadOK(j)'
<1> SUFFICES ASSUME Orderly(j)'
             PROVE  ThreadOK(j)'
  OBVIOUS
<1>1. Orderly(j) /\ ThreadOK(j)
  BY DEF Orderly
<1>2. \A q \in Requests : AtWork(q, j) => q = r
  BY <1>1 DEF ThreadOK
<1>3. \A q \in Requests : ~AtWork(q, j)'
  BY <1>2
<1>4. RowOK(j)'
  BY <1>1 DEF ThreadOK, RowOK, Settled
<1>5. QED
  BY <1>1, <1>2, <1>3, <1>4 DEF ThreadOK

(* A step of a request of job k leaves the other jobs as they were. *)
LEMMA OtherJobsOK ==
  ASSUME TypeInv, ThreadInv, NEW r \in Requests, NEW k, JobOf(r) = k,
         pc[r] \in Active,
         \A q \in Requests \ {r} :
           /\ pc'[q] = pc[q] /\ ask'[q] = ask[q] /\ mem'[q] = mem[q]
           /\ batch'[q] = batch[q],
         pc'[r] \in Serving => ask'[r] = ask[r],
         \A j \in Imports \ {k} : ckpt'[j] = ckpt[j] /\ job'[j] = job[j],
         overlap \subseteq overlap', cut \subseteq cut',
         \A x \in canon' : x \in canon \/ x \in cut' \/ x.job = k
  PROVE  \A j \in Imports \ {k} : Orderly(j)' => ThreadOK(j)'
<1> SUFFICES ASSUME NEW j \in Imports \ {k}
             PROVE  Orderly(j)' => ThreadOK(j)'
  OBVIOUS
<1>1. \A q \in Requests : AtWork(q, j) \/ AtWork(q, j)' =>
        q # r /\ AtWork(q, j) /\ AtWork(q, j)'
  <2>1. ~AtWork(r, j) /\ ~AtWork(r, j)'
    BY DEF AtWork, JobOf
  <2>2. QED
    BY <2>1 DEF AtWork, JobOf
<1>2. QED
  BY <1>1, ElsewhereOK DEF ThreadInv

(* A job that is yet to begin is not one that a request at work is for.     *)
LEMMA UnbornStays ==
  ASSUME TypeInv, ThreadInv, NEW r \in Requests, pc[r] \in Active,
         \A q \in Requests \ {r} : pc'[q] = pc[q] /\ ask'[q] = ask[q],
         pc'[r] \notin {"new", "guarded", "created", "starting"} \/ r \notin Imports,
         pc'[r] \in Active => ask'[r] = ask[r],
         \A j \in Imports \ {JobOf(r)} :
           ckpt'[j] = ckpt[j] /\ job'[j] = job[j]
  PROVE  \A s \in Imports :
           pc'[s] \in {"new", "guarded", "created", "starting"} => Unborn(s)'
<1> SUFFICES ASSUME NEW s \in Imports,
                    pc'[s] \in {"new", "guarded", "created", "starting"}
             PROVE  Unborn(s)'
  OBVIOUS
<1>1. s # r /\ pc'[s] = pc[s]
  BY DEF Requests
<1>2. Unborn(s)
  BY <1>1 DEF ThreadInv
<1>3. JobOf(r) # s
  BY <1>1, <1>2 DEF JobOf, Unborn
<1>4. \A d \in Requests \ Imports : pc'[d] \in Active =>
        pc[d] \in Active /\ ask'[d] = ask[d]
  OBVIOUS
<1>5. QED
  BY <1>2, <1>3, <1>4 DEF Unborn

LEMMA SuperstepThread ==
  ASSUME TypeInv, ThreadInv, NEW r \in Requests, pc[r] \in Working, NEW v,
         IsState(v), Superstep(r, v),
         mem[r].committed \cup batch[r] \subseteq v.committed,
         batch'[r] = {}, \A q \in Requests \ {r} : batch'[q] = batch[q],
         canon' = canon, cut' = cut
  PROVE  ThreadInv'
<1>0. PICK k \in Imports : k = JobOf(r)
  BY JobOfType DEF Active, Serving, InStream
<1>1. AtWork(r, k) /\ pc[r] \in Active
      /\ pc[r] \notin {"guarded", "created", "starting"}
  BY <1>0 DEF AtWork, Active, Serving, InStream, Working
<1>2. /\ ckpt' = [ckpt EXCEPT ![k] = [v EXCEPT !.writer = r]]
      /\ mem' = [mem EXCEPT ![r] = v]
      /\ pc' = [pc EXCEPT ![r] = IF v.node = "END" THEN "finalizing"
                                                   ELSE "turn"]
      /\ job' = job /\ ask' = ask /\ overlap' = overlap
  BY <1>0 DEF Superstep, Goto
<1>3. \A q \in Requests \ {r} : /\ pc'[q] = pc[q] /\ ask'[q] = ask[q]
                                /\ mem'[q] = mem[q] /\ batch'[q] = batch[q]
  BY <1>2 DEF TypeInv
<1>4. pc'[r] = (IF v.node = "END" THEN "finalizing" ELSE "turn")
      /\ mem'[r] = v
  BY <1>2 DEF TypeInv
<1>5. \A j \in Imports \ {k} : ckpt'[j] = ckpt[j] /\ job'[j] = job[j]
  BY <1>2 DEF TypeInv
<1>6. ckpt'[k].node = v.node /\ ckpt'[k].writer = r
      /\ ckpt'[k].committed = v.committed
  BY <1>1, <1>2 DEF TypeInv, IsState, IsRecord
<1>7. \A j \in Imports \ {k} : Orderly(j)' => ThreadOK(j)'
  BY <1>0, <1>1, <1>2, <1>3, <1>5, OtherJobsOK
<1>8. Orderly(k)' => ThreadOK(k)'
  <2>1. AtWork(r, k)' /\ \A q \in Requests : AtWork(q, k)' => AtWork(q, k)
    BY <1>1, <1>2, <1>3, <1>4 DEF AtWork, JobOf, Serving, InStream, Working
  <2>2. TurnOK(r, k)'
    BY <1>4, <1>6 DEF TurnOK, Working
  <2>3. Orderly(k) => ckpt[k].committed \subseteq mem[r].committed
    BY <1>1 DEF ThreadInv, ThreadOK, TurnOK
  <2>4. Orderly(k) => \A x \in canon' : x.job = k =>
          \/ x \in canon /\ x \notin ckpt[k].committed \cup batch[r]
          \/ x \in ckpt'[k].committed \cup batch'[r]
    BY <1>6, <2>3
  <2>5. QED
    BY <1>1, <1>2, <2>1, <2>2, <2>4, WorksOnOK DEF ThreadInv
<1>9. \A s \in Imports :
        pc'[s] \in {"new", "guarded", "created", "starting"} => Unborn(s)'
  BY <1>0, <1>1, <1>2, <1>3, <1>4, <1>5, UnbornStays
<1>10. \A q \in Requests : pc'[q] # "writing" => batch'[q] = {}
  BY <1>3, <1>4 DEF ThreadInv
<1>11. QED
  BY <1>7, <1>8, <1>9, <1>10 DEF ThreadInv

LEMMA NodeThread ==
  ASSUME TypeInv, ThreadInv, NEW r \in Requests,
         \/ PlanWindows(r) \/ BuildRegistryNode(r) \/ ExtractWindows(r)
         \/ MergeExtractionsNode(r) \/ PaginateReview(r) \/ ReviewSlice(r)
         \/ CommitSlice(r) \/ AdvanceSlice(r) \/ CommitRelationships(r)
  PROVE  ThreadInv'
<1>1. IsState(mem[r]) /\ IsRecord(mem[r]) /\ DOMAIN batch = Requests
  BY DEF TypeInv, IsState
<1>2. ASSUME NEW v, IsState(v), Superstep(r, v), v.committed = mem[r].committed,
             pc[r] \in {"resuming", "turn"}, UNCHANGED <<batch, canon, cut>>
      PROVE  ThreadInv'
  <2>1. batch[r] = {}
    BY <1>2 DEF ThreadInv
  <2>2. QED
    BY <1>2, <2>1, SuperstepThread DEF Working
<1> USE DEF NoWrite, world, At
<1>3. CASE PlanWindows(r)
  <2>1. PICK v : /\ v = [mem[r] EXCEPT !.node = "build_registry"]
                 /\ Superstep(r, v)
    BY <1>3 DEF PlanWindows
  <2>2. IsState(v) /\ v.committed = mem[r].committed
    BY <1>1, <2>1, NodeIsState DEF IsRecord
  <2>3. QED
    BY <1>2, <1>3, <2>1, <2>2 DEF PlanWindows
<1>4. CASE BuildRegistryNode(r)
  <2>1. PICK x, v : /\ v = [mem[r] EXCEPT !.node = "extract_windows",
                                          !.registry = x]
                    /\ Superstep(r, v)
    BY <1>4 DEF BuildRegistryNode
  <2>2. IsState(v) /\ v.committed = mem[r].committed
    BY <1>1, <2>1, NodeIsState DEF IsRecord
  <2>3. QED
    BY <1>2, <1>4, <2>1, <2>2 DEF BuildRegistryNode
<1>5. CASE ExtractWindows(r)
  <2>1. PICK x, v : /\ v = [mem[r] EXCEPT !.node = "merge_extractions",
                                          !.drafts = x]
                    /\ Superstep(r, v)
    BY <1>5 DEF ExtractWindows
  <2>2. IsState(v) /\ v.committed = mem[r].committed
    BY <1>1, <2>1, NodeIsState DEF IsRecord
  <2>3. QED
    BY <1>2, <1>5, <2>1, <2>2 DEF ExtractWindows
<1>6. CASE MergeExtractionsNode(r)
  <2>1. PICK x, y, z, w :
          Superstep(r, [mem[r] EXCEPT !.node = "paginate_review", !.kept = x,
                          !.links = y, !.registry = z, !.drafts = w])
    BY <1>6 DEF MergeExtractionsNode
  <2>2. PICK v : /\ v = [mem[r] EXCEPT !.node = "paginate_review", !.kept = x,
                             !.links = y, !.registry = z, !.drafts = w]
                 /\ Superstep(r, v)
    BY <2>1
  <2>3. IsState(v)
    BY <2>2, NodeIsState
  <2>4. v.committed = mem[r].committed
    BY <1>1, <2>2 DEF IsRecord
  <2>5. QED
    BY <1>2, <1>6, <2>2, <2>3, <2>4 DEF MergeExtractionsNode
<1>7. CASE PaginateReview(r)
  <2>1. PICK n, v : /\ v = [mem[r] EXCEPT !.node = "review_slice", !.page = 1,
                                          !.pages = Pages(n)]
                    /\ Superstep(r, v)
    BY <1>7 DEF PaginateReview
  <2>2. IsState(v) /\ v.committed = mem[r].committed
    BY <1>1, <2>1, PaginatedIsState DEF IsRecord
  <2>3. QED
    BY <1>2, <1>7, <2>1, <2>2 DEF PaginateReview
<1>8. CASE ReviewSlice(r)
  <2>1. PICK content, v :
          /\ Superstep(r, v) /\ IsState(v) /\ v.committed = mem[r].committed
          /\ decided' = decided \cup
               {[job |-> ask[r].job, action |-> ask[r].action,
                 page |-> mem[r].page, content |-> content]}
    BY <1>8, ReviewedIsState
  <2>2. QED
    BY <1>2, <1>8, <2>1 DEF ReviewSlice
<1>9. CASE CommitSlice(r)
  <2>1. PICK x, v : /\ v = [mem[r] EXCEPT !.node = "advance_slice",
                                          !.committed = @ \cup batch[r],
                                          !.ids = x]
                    /\ Superstep(r, v)
    BY <1>9 DEF CommitSlice
  <2>2. IsState(v)
    BY <2>1, NodeIsState
  <2>3. v.committed = mem[r].committed \cup batch[r]
    BY <1>1, <2>1 DEF IsRecord
  <2>4. batch'[r] = {} /\ \A q \in Requests \ {r} : batch'[q] = batch[q]
    BY <1>1, <1>9 DEF CommitSlice
  <2>5. QED
    BY <1>9, <2>1, <2>2, <2>3, <2>4, SuperstepThread DEF CommitSlice, Working
<1>10. CASE AdvanceSlice(r)
  <2>1. PICK u, v : /\ u = [mem[r] EXCEPT !.page = @ + 1]
                    /\ v = [u EXCEPT !.node = RouteAfterAdvance(u)]
                    /\ Superstep(r, v)
    BY <1>10 DEF AdvanceSlice
  <2>2. IsState(v) /\ v.committed = mem[r].committed
    BY <1>1, <2>1, AdvancedIsState DEF IsRecord
  <2>3. QED
    BY <1>2, <1>10, <2>1, <2>2 DEF AdvanceSlice
<1>11. CASE CommitRelationships(r)
  <2>1. PICK v : v = [mem[r] EXCEPT !.node = "END"] /\ Superstep(r, v)
    BY <1>11 DEF CommitRelationships
  <2>2. IsState(v) /\ v.committed = mem[r].committed
    BY <1>1, <2>1, NodeIsState DEF IsRecord
  <2>3. QED
    BY <1>2, <1>11, <2>1, <2>2 DEF CommitRelationships
<1>12. QED
  BY <1>3, <1>4, <1>5, <1>6, <1>7, <1>8, <1>9, <1>10, <1>11

(* Steps of a turn that set no row: it begins, waits, writes, reads.        *)
LEMMA WorkingThread ==
  ASSUME TypeInv, ThreadInv, NEW r \in Requests,
         LoadThread(r) \/ Interrupt(r) \/ CreateEntity(r) \/ ReadState(r)
  PROVE  ThreadInv'
<1> USE DEF world, NoWrite, Goto
<1>1. pc[r] \in Serving /\ pc'[r] \in Serving /\ pc[r] \in Active
  BY DEF TypeInv, LoadThread, Interrupt, CreateEntity, ReadState, At, Active,
     Serving, InStream, Working
<1>2. PICK k \in Imports : k = JobOf(r)
  BY <1>1, JobOfType
<1>3. /\ job' = job /\ ask' = ask /\ overlap' = overlap /\ cut' = cut
      /\ \A q \in Requests \ {r} : /\ pc'[q] = pc[q] /\ mem'[q] = mem[q]
                                   /\ batch'[q] = batch[q]
  BY DEF TypeInv, LoadThread, Interrupt, CreateEntity, ReadState
<1>4. \A j \in Imports \ {k} : ckpt'[j] = ckpt[j]
  BY <1>2 DEF TypeInv, LoadThread, Interrupt, CreateEntity, ReadState
<1>5. \A x \in canon' : x \in canon \/ x.job = k
  <2>1. CASE CreateEntity(r)
    BY <1>2, <2>1, NewEntityIsOfPage DEF CreateEntity
  <2>2. CASE ~CreateEntity(r)
    BY <2>2 DEF LoadThread, Interrupt, ReadState
  <2>3. QED
    BY <2>1, <2>2
<1>6. \A j \in Imports \ {k} : Orderly(j)' => ThreadOK(j)'
  BY <1>1, <1>2, <1>3, <1>4, <1>5, OtherJobsOK
<1>7. AtWork(r, k) /\ AtWork(r, k)'
      /\ \A q \in Requests : AtWork(q, k)' => AtWork(q, k)
  BY <1>1, <1>2, <1>3 DEF AtWork, JobOf
<1>8. ASSUME Orderly(k) => TurnOK(r, k)',
             Orderly(k) => \A x \in canon' : x.job = k =>
               \/ x \in canon /\ x \notin ckpt[k].committed \cup batch[r]
               \/ x \in ckpt'[k].committed \cup batch'[r]
      PROVE  Orderly(k)' => ThreadOK(k)'
  BY <1>3, <1>7, <1>8, WorksOnOK DEF ThreadInv
<1>9. Orderly(k)' => ThreadOK(k)'
  <2>1. CASE LoadThread(r)
    <3>1. ckpt' = ckpt /\ canon' = canon /\ batch' = batch
      BY <2>1 DEF LoadThread
    <3>2. PICK u : /\ u = IF r \in Imports THEN Fresh ELSE ckpt[k]
                   /\ mem' = [mem EXCEPT ![r] =
                                [u EXCEPT !.interrupted = FALSE]]
      BY <1>2, <2>1 DEF LoadThread
    <3>3. PICK v : v = [u EXCEPT !.interrupted = FALSE] /\ mem'[r] = v
      BY <3>2 DEF TypeInv
    <3>4. IsRecord(u)
      BY <3>2, FreshIsState DEF TypeInv, IsState
    <3>5. v.node = u.node /\ v.committed = u.committed
      BY <3>3, <3>4 DEF IsRecord
    <3>6. CASE r \in Imports
      <4>1. k = r /\ pc[r] = "starting"
        BY <1>2, <2>1, <3>6 DEF JobOf, LoadThread
      <4>2. ckpt[k].committed = {}
        BY <4>1 DEF ThreadInv, Unborn
      <4>3. mem'[r].node = "plan_windows" /\ pc'[r] = "turn"
        BY <2>1, <3>2, <3>3, <3>5, <3>6 DEF Fresh, LoadThread, TypeInv
      <4>4. TurnOK(r, k)'
        BY <3>1, <4>2, <4>3 DEF TurnOK, Working
      <4>5. QED
        BY <1>8, <3>1, <4>4
    <3>7. CASE r \notin Imports
      <4>1. v.node = ckpt[k].node /\ v.committed = ckpt[k].committed
        BY <3>2, <3>5, <3>7
      <4>2. pc'[r] = IF v.node = "END" THEN "finalizing" ELSE "resuming"
        BY <1>2, <2>1, <3>3, <3>2, <3>7 DEF LoadThread, TypeInv
      <4>3. TurnOK(r, k)'
        BY <3>1, <3>3, <4>1, <4>2 DEF TurnOK, Working
      <4>4. QED
        BY <1>8, <3>1, <4>3
    <3>8. QED
      BY <3>6, <3>7
  <2>2. CASE Interrupt(r)
    <3>1. pc[r] = "turn" /\ mem[r].node = "review_slice"
          /\ pc'[r] = "finalizing" /\ canon' = canon /\ batch' = batch
      BY <2>2 DEF Interrupt, TypeInv
    <3>2. Orderly(k) => ckpt[k].writer = r
      BY <1>7, <3>1 DEF ThreadInv, ThreadOK, TurnOK
    <3>3. IsRecord(ckpt[k])
      BY DEF TypeInv, IsState
    <3>4. ckpt'[k] = [ckpt[k] EXCEPT !.interrupted = @ \/ ckpt[k].writer = r]
      BY <1>2, <2>2 DEF Interrupt, TypeInv
    <3>5. ckpt'[k].committed = ckpt[k].committed
          /\ (Orderly(k) => ckpt'[k].interrupted)
      BY <3>2, <3>3, <3>4 DEF IsRecord
    <3>6. Orderly(k) => TurnOK(r, k)'
      BY <3>1, <3>5 DEF TurnOK, Working
    <3>7. QED
      BY <1>8, <3>1, <3>5, <3>6
  <2>3. CASE CreateEntity(r)
    <3>1. ckpt' = ckpt /\ mem' = mem /\ pc[r] \in Working
          /\ pc'[r] = "writing"
          /\ canon' = canon \cup {NewEntity(r)}
          /\ batch'[r] = batch[r] \cup {NewEntity(r)}
      BY <2>3 DEF CreateEntity, At, TypeInv, Working
    <3>2. Orderly(k) => TurnOK(r, k)'
      BY <1>7, <3>1 DEF ThreadInv, ThreadOK, TurnOK, Working
    <3>3. QED
      BY <1>8, <3>1, <3>2
  <2>4. CASE ReadState(r)
    <3>1. ckpt' = ckpt /\ canon' = canon /\ batch' = batch
          /\ pc[r] = "finalizing" /\ pc'[r] = "reconciled"
          /\ mem'[r] = ckpt[k]
      BY <1>2, <2>4 DEF ReadState, TypeInv
    <3>2. Orderly(k) => TurnOK(r, k)'
      BY <1>7, <3>1 DEF ThreadInv, ThreadOK, TurnOK, Working
    <3>3. QED
      BY <1>8, <3>1, <3>2
  <2>5. QED
    BY <2>1, <2>2, <2>3, <2>4
<1>10. \A q \in Requests : pc'[q] # "writing" => batch'[q] = {}
  <2>1. pc'[r] # "writing" => batch'[r] = {}
    BY DEF TypeInv, ThreadInv, LoadThread, Interrupt, CreateEntity, ReadState
  <2>2. QED
    BY <1>3, <2>1 DEF ThreadInv
<1>11. pc'[r] \notin {"new", "guarded", "created", "starting"}
  BY DEF TypeInv, LoadThread, Interrupt, CreateEntity, ReadState
<1>12. \A s \in Imports :
         pc'[s] \in {"new", "guarded", "created", "starting"} => Unborn(s)'
  BY <1>1, <1>2, <1>3, <1>4, <1>11, UnbornStays
<1>13. QED
  BY <1>6, <1>9, <1>10, <1>12 DEF ThreadInv

(* Requests that are not at work yet. *)
LEMMA RequestThread ==
  ASSUME TypeInv, ThreadInv, NEW r \in Requests,
         \/ r \in Imports /\ (StartGuard(r) \/ CreateJob(r))
         \/ r \in Decisions /\ (PostDecision(r) \/ CheckReview(r))
  PROVE  ThreadInv'
<1> USE DEF world, Goto
<1>1. /\ pc[r] \in {"new", "guarded", "posted"}
      /\ pc'[r] \in {"guarded", "created", "posted", "checked", "refused"}
      /\ r \notin Imports => pc'[r] \in {"posted", "checked", "refused"}
  BY RequestsAssumption
     DEF TypeInv, StartGuard, CreateJob, PostDecision, CheckReview, Leave
<1>2. /\ ckpt' = ckpt /\ overlap' = overlap /\ cut' = cut /\ canon' = canon
      /\ \A q \in Requests \ {r} : /\ pc'[q] = pc[q] /\ mem'[q] = mem[q]
                                   /\ batch'[q] = batch[q] /\ ask'[q] = ask[q]
  BY DEF TypeInv, StartGuard, CreateJob, PostDecision, CheckReview, Leave
<1>3. \A j \in Imports : job'[j] = job[j] \/ job'[j].status \notin Settled
  BY DEF TypeInv, IsRow, StartGuard, CreateJob, PostDecision, CheckReview,
     Settled
<1>4. batch'[r] = {}
  BY <1>1 DEF TypeInv, ThreadInv, StartGuard, CreateJob, PostDecision,
     CheckReview, Leave
<1>5. ASSUME NEW j \in Imports
      PROVE  Orderly(j)' => ThreadOK(j)'
  <2>1. \A q \in Requests : AtWork(q, j) \/ AtWork(q, j)' =>
          q # r /\ AtWork(q, j) /\ AtWork(q, j)'
    BY <1>1, <1>2 DEF AtWork, JobOf, Serving, InStream, Working
  <2>2. QED
    BY <1>2, <1>3, <2>1, ElsewhereOK DEF ThreadInv
<1>6. ASSUME NEW s \in Imports,
             pc'[s] \in {"new", "guarded", "created", "starting"}
      PROVE  Unborn(s)'
  <2>1. pc[s] \in {"new", "guarded", "created", "starting"}
    BY <1>1, <1>2, <1>6 DEF TypeInv, LabelOK, Requests
  <2>2. Unborn(s)
    BY <2>1 DEF ThreadInv
  <2>3. ASSUME NEW d \in Requests \ Imports, pc'[d] \in Active
        PROVE  ask'[d].job # s
    <3>1. CASE d # r
      BY <1>2, <2>2, <2>3, <3>1 DEF Unborn
    <3>2. CASE d = r /\ PostDecision(r)
      BY <2>2, <3>2 DEF PostDecision, Unborn, Settled, TypeInv
    <3>3. CASE d = r /\ CheckReview(r)
      BY <2>2, <2>3, <3>3
         DEF CheckReview, Leave, Unborn, TypeInv, Active, Serving, InStream, Working
    <3>4. QED
      BY <2>3, <3>1, <3>2, <3>3
  <2>4. QED
    BY <1>2, <1>3, <2>2, <2>3 DEF Unborn
<1>7. \A q \in Requests : pc'[q] # "writing" => batch'[q] = {}
  BY <1>2, <1>4 DEF ThreadInv
<1>8. QED
  BY <1>5, <1>6, <1>7 DEF ThreadInv

(* A turn begins: if it finds another at work on its job, the job is not    *)
(* orderly from now on.                                                     *)
LEMMA BeginThread ==
  ASSUME TypeInv, ThreadInv, NEW r \in Requests, BeginTurn(r)
  PROVE  ThreadInv'
<1>1. pc[r] \in {"created", "checked"} /\ pc'[r] = "starting"
      /\ pc[r] \in Active
  BY DEF BeginTurn, Goto, TypeInv, Active
<1>2. PICK k \in Imports : k = JobOf(r)
  BY <1>1, JobOfType
<1>3. /\ ckpt' = ckpt /\ cut' = cut /\ canon' = canon /\ ask' = ask
      /\ mem' = mem /\ batch' = batch
      /\ \A q \in Requests \ {r} : pc'[q] = pc[q]
      /\ overlap' = overlap \cup
           {i \in {k} : \E q \in InFlight \ {r} :
                          pc[q] \in Serving /\ JobOf(q) = i}
      /\ \A j \in Imports \ {k} : job'[j] = job[j]
      /\ job'[k].status = "extracting"
  BY <1>2 DEF BeginTurn, Goto, world, TypeInv, IsRow
<1>4. \A j \in Imports \ {k} : Orderly(j)' => ThreadOK(j)'
  BY <1>1, <1>2, <1>3, OtherJobsOK
<1>5. Orderly(k)' => ThreadOK(k)'
  <2> SUFFICES ASSUME Orderly(k)'
               PROVE  ThreadOK(k)'
    OBVIOUS
  <2>1. Orderly(k) /\ ThreadOK(k)
    BY <1>3 DEF Orderly, ThreadInv
  <2>2. \A q \in Requests \ {r} : ~AtWork(q, k)
    BY <1>3 DEF Orderly, AtWork, InFlight, Active
  <2>3. ~AtWork(r, k)
    BY <1>1 DEF AtWork, Serving, InStream, Working
  <2>4. \A q \in Requests : AtWork(q, k)' => q = r
    BY <1>3, <2>2 DEF AtWork, JobOf
  <2>5. TurnOK(r, k)'
    BY <1>1 DEF TurnOK, Working
  <2>6. job'[k].status \notin Settled
    BY <1>3 DEF Settled
  <2>7. RowOK(k)'
    BY <2>6 DEF RowOK, Settled
  <2>8. \A x \in canon' : x.job = k => x \in ckpt'[k].committed \cup cut'
    BY <1>3, <2>1, <2>2, <2>3 DEF ThreadOK
  <2>9. QED
    BY <2>4, <2>5, <2>6, <2>7, <2>8 DEF ThreadOK
<1>6. ASSUME NEW s \in Imports,
             pc'[s] \in {"new", "guarded", "created", "starting"}
      PROVE  Unborn(s)'
  <2>1. pc[s] \in {"new", "guarded", "created", "starting"}
    BY <1>1, <1>3, <1>6 DEF TypeInv, LabelOK, Requests
  <2>2. Unborn(s)
    BY <2>1 DEF ThreadInv
  <2>3. job'[s].status \notin Settled
    BY <1>3, <2>2 DEF Unborn, Settled
  <2>4. \A d \in Requests \ Imports : pc'[d] \in Active => ask'[d].job # s
    BY <1>1, <1>3, <2>2 DEF Unborn
  <2>5. QED
    BY <1>3, <2>2, <2>3, <2>4 DEF Unborn
<1>7. \A q \in Requests : pc'[q] # "writing" => batch'[q] = {}
  BY <1>1, <1>3 DEF ThreadInv
<1>8. QED
  BY <1>4, <1>5, <1>6, <1>7 DEF ThreadInv

(* A turn ends in whatever way: what it wrote of a page is gone, or known   *)
(* to be cut off; the row fails, stays, or shows what the turn has read.    *)
LEMMA EndThread ==
  ASSUME TypeInv, ThreadInv, NEW r \in Requests,
         \/ Finalize(r) \/ FinalizeRaises(r) \/ NodeError(r) \/ Cancelled(r)
         \/ Abandon(r)
  PROVE  ThreadInv'
<1> USE DEF world
<1>1. pc[r] \in Active /\ (~Abandon(r) => pc[r] \in Serving)
  BY DEF Finalize, FinalizeRaises, NodeError, Cancelled, Abandon, At, Active,
     Serving, InStream, Working
<1>2. PICK k \in Imports : k = JobOf(r)
  BY <1>1, JobOfType
<1>3. PICK label \in {"ended", "lost"} : Leave(r, label)
  BY DEF Finalize, FinalizeRaises, NodeError, Cancelled, Fail, Abandon
<1>4. /\ pc'[r] = label /\ batch'[r] = {}
      /\ \A q \in Requests \ {r} : /\ pc'[q] = pc[q] /\ mem'[q] = mem[q]
                                   /\ batch'[q] = batch[q] /\ ask'[q] = ask[q]
  BY <1>3 DEF Leave, Goto, TypeInv
<1>5. /\ ckpt' = ckpt /\ overlap' = overlap /\ cut \subseteq cut'
      /\ \A j \in Imports \ {k} : job'[j] = job[j]
  BY <1>2 DEF TypeInv, Finalize, FinalizeRaises, NodeError, Cancelled, Fail,
     Abandon
<1>6. \A x \in canon' : x \in cut' \/ x \in canon \ batch[r]
  <2>1. CASE Finalize(r) \/ FinalizeRaises(r)
    <3>1. pc[r] # "writing" /\ canon' = canon
      BY <2>1 DEF Finalize, FinalizeRaises
    <3>2. QED
      BY <3>1 DEF ThreadInv
  <2>2. CASE NodeError(r)
    BY <2>2 DEF NodeError, Fail, RollbackCreated
  <2>3. CASE Cancelled(r) /\ ~NodeError(r)
    BY <2>3 DEF Cancelled, Fail, RollbackCreated
  <2>4. CASE Abandon(r)
    BY <2>4 DEF Abandon
  <2>5. QED
    BY <2>1, <2>2, <2>3, <2>4
<1>7. pc'[r] \notin Active
  BY <1>4 DEF Active, Serving, InStream, Working
<1>8. \A j \in Imports \ {k} : Orderly(j)' => ThreadOK(j)'
  BY <1>1, <1>2, <1>4, <1>5, <1>6, <1>7, OtherJobsOK DEF Active
<1>9. \A q \in Requests : AtWork(q, k)' => AtWork(q, k) /\ q # r
  BY <1>4, <1>7 DEF AtWork, JobOf, Active
<1>10. ASSUME AtWork(r, k)
       PROVE  Orderly(k)' => ThreadOK(k)'
  <2>1. ASSUME Orderly(k)
        PROVE  RowOK(k)' \/ job'[k] = job[k]
    <3>1. CASE Finalize(r)
      <4>1. mem[r] = ckpt[k] /\ (ckpt[k].interrupted \/ ckpt[k].node = "END")
        BY <1>10, <2>1, <3>1 DEF Finalize, ThreadInv, ThreadOK, TurnOK
      <4>2. CASE ckpt[k].interrupted
        <5>1. job'[k] = [status |-> "awaiting_review",
                         review |-> ckpt[k].pages[ckpt[k].page],
                         committed |-> ckpt[k].committed]
          BY <1>2, <3>1, <4>1, <4>2 DEF Finalize, TypeInv
        <5>2. QED
          BY <1>5, <4>2, <5>1 DEF RowOK, Settled
      <4>3. CASE ~ckpt[k].interrupted
        <5>1. job'[k] = [status |-> "committed", review |-> {},
                         committed |-> ckpt[k].committed]
          BY <1>2, <3>1, <4>1, <4>3 DEF Finalize, TypeInv
        <5>2. QED
          BY <1>5, <4>1, <4>3, <5>1 DEF RowOK, Settled
      <4>4. QED
        BY <4>2, <4>3
    <3>2. CASE FinalizeRaises(r) \/ Abandon(r)
      BY <3>2 DEF FinalizeRaises, Abandon
    <3>3. CASE NodeError(r) \/ Cancelled(r)
      <4>1. job'[k].status = "failed"
        BY <1>2, <3>3 DEF NodeError, Cancelled, Fail, TypeInv, IsRow
      <4>2. QED
        BY <4>1 DEF RowOK, Settled
    <3>4. QED
      BY <3>1, <3>2, <3>3
  <2>2. QED
    BY <1>5, <1>6, <1>9, <1>10, <2>1, EndsOK DEF ThreadInv
<1>11. ASSUME ~AtWork(r, k)
       PROVE  Orderly(k)' => ThreadOK(k)'
  <2>1. Abandon(r) /\ job' = job
    BY <1>1, <1>2, <1>11 DEF AtWork, Abandon
  <2>2. \A q \in Requests : AtWork(q, k) \/ AtWork(q, k)' =>
          q # r /\ AtWork(q, k) /\ AtWork(q, k)'
    BY <1>4, <1>7, <1>11 DEF AtWork, JobOf, Active
  <2>3. QED
    BY <1>4, <1>5, <1>6, <2>1, <2>2, ElsewhereOK DEF ThreadInv
<1>12. \A s \in Imports :
         pc'[s] \in {"new", "guarded", "created", "starting"} => Unborn(s)'
  BY <1>1, <1>2, <1>4, <1>5, <1>7, UnbornStays
<1>13. \A q \in Requests : pc'[q] # "writing" => batch'[q] = {}
  BY <1>4 DEF ThreadInv
<1>14. QED
  BY <1>8, <1>10, <1>11, <1>12, <1>13 DEF ThreadInv

LEMMA WorldThread ==
  ASSUME TypeInv, ThreadInv, Crash \/ DeleteEntity \/ UNCHANGED butEdges
  PROVE  ThreadInv'
<1>1. CASE Crash
  <2>1. /\ job' = job /\ ckpt' = ckpt /\ ask' = ask /\ overlap' = overlap
        /\ canon' = canon
        /\ cut' = cut \cup UNION {batch[r] : r \in Requests}
        /\ \A q \in Requests : pc'[q] \notin Active /\ batch'[q] = {}
    BY <1>1 DEF Crash, InFlight, Active, Serving, InStream, Working
  <2>2. \A r \in Requests, j \in Imports : ~AtWork(r, j)'
    BY <2>1 DEF AtWork, Active
  <2>3. \A j \in Imports : Orderly(j)' => ThreadOK(j)'
    BY <2>1, <2>2 DEF ThreadInv, ThreadOK, RowOK, Settled, Orderly
  <2>4. \A s \in Imports :
          pc'[s] \in {"new", "guarded", "created", "starting"} => Unborn(s)'
    BY <1>1, <2>1 DEF Crash, InFlight, ThreadInv, Unborn, Active, Requests
  <2>5. QED
    BY <2>1, <2>3, <2>4 DEF ThreadInv
<1>2. CASE DeleteEntity \/ UNCHANGED butEdges
  <2>1. /\ job' = job /\ ckpt' = ckpt /\ ask' = ask /\ overlap' = overlap
        /\ pc' = pc /\ mem' = mem /\ batch' = batch /\ cut' = cut
        /\ canon' \subseteq canon
    BY <1>2 DEF DeleteEntity, butEdges
  <2>2. \A r \in Requests, j \in Imports : AtWork(r, j)' = AtWork(r, j)
    BY <2>1 DEF AtWork, JobOf
  <2>3. \A j \in Imports : Orderly(j)' => ThreadOK(j)'
    BY <2>1, <2>2, ElsewhereOK DEF ThreadInv
  <2>4. \A s \in Imports :
          pc'[s] \in {"new", "guarded", "created", "starting"} => Unborn(s)'
    BY <2>1 DEF ThreadInv, Unborn
  <2>5. QED
    BY <2>1, <2>3, <2>4 DEF ThreadInv
<1>3. QED
  BY <1>1, <1>2

LEMMA ThreadStep == TypeInv /\ ThreadInv /\ [Next]_vars => ThreadInv'
<1> SUFFICES ASSUME TypeInv, ThreadInv, [Next]_vars
             PROVE  ThreadInv'
  OBVIOUS
<1>1. ASSUME NEW r \in Requests, GraphStep(r)
      PROVE  ThreadInv'
  BY <1>1, NodeThread, WorkingThread, WorldThread
     DEF GraphStep, WriteEdges, butEdges
<1>2. ASSUME NEW r \in Requests, RunnerStep(r)
      PROVE  ThreadInv'
  BY <1>2, BeginThread, WorkingThread, EndThread DEF RunnerStep
<1>3. QED
  BY <1>1, <1>2, RequestThread, EndThread, WorldThread
     DEF Next, Quiet, Requests, vars, butEdges

(* Between the turns of a job its row shows the page its graph stopped at   *)
(* or what it committed, and what the graph committed, with what was cut    *)
(* off half done, is all the job has in canon.                              *)
THEOREM JobsAreTruthful == Spec => []JobsTellTheTruth
<1>1. Init => TypeInv /\ ThreadInv
  <2> SUFFICES ASSUME Init
               PROVE  TypeInv /\ ThreadInv
    OBVIOUS
  <2>1. \A r \in Requests : pc[r] = "new" /\ batch[r] = {}
    BY DEF Init
  <2>2. \A j \in Imports : ckpt[j] = Fresh /\ job[j] = NoRow
    BY DEF Init
  <2>3. \A s \in Imports : Unborn(s)
    BY <2>1, <2>2
       DEF Unborn, Fresh, NoRow, Settled, Active, Serving, InStream, Working
  <2>4. \A j \in Imports : ThreadOK(j)
    BY <2>1, <2>2 DEF ThreadOK, AtWork, RowOK, NoRow, Settled, Serving, InStream,
       Working, Init
  <2>5. QED
    BY <2>1, <2>3, <2>4, InitType DEF ThreadInv
<1>2. TypeInv /\ ThreadInv /\ [Next]_vars => (TypeInv /\ ThreadInv)'
  BY TypeStep, ThreadStep
<1>3. TypeInv /\ ThreadInv => JobsTellTheTruth
  BY ThreadTells
<1>4. QED
  BY <1>1, <1>2, <1>3, PTL DEF Spec

-----------------------------------------------------------------------------
(* A project as a file, and from it: ProjectTransfer.                       *)

(* Ids *)
AllIds == EntityIds \cup FileIds \cup TemplateIds
NewId(id) == New(id[2])

LEMMA OldIds ==
  /\ AllIds \subseteq {"old"} \X Nat
  /\ \A i \in AllIds : Old(NewId(i)[2]) = i
  /\ \A i, j \in AllIds : NewId(i) = NewId(j) => i = j
  /\ NoId \notin AllIds
<1>1. AllIds \subseteq {"old"} \X Nat
  <2>1. EntityIds \subseteq {"old"} \X Nat
    BY TransferAssumption DEF EntityIds, Old
  <2> QED BY <2>1, TransferAssumption DEF AllIds
<1>2. \A i \in AllIds : i = <<"old", i[2]>>
  BY <1>1
<1>3. \A i \in AllIds : Old(NewId(i)[2]) = i
  BY <1>2 DEF Old, NewId, New
<1>4. \A i, j \in AllIds : NewId(i) = NewId(j) => i = j
  BY <1>3
<1> QED BY <1>1, <1>3, <1>4, TransferAssumption DEF AllIds

LEMMA Kinds ==
  ASSUME NEW p, IsProject(p)
  PROVE  /\ DOMAIN p.entities \subseteq AllIds /\ DOMAIN p.attachments \subseteq AllIds
         /\ p.templates \subseteq AllIds
BY DEF IsProject, AllIds

-----------------------------------------------------------------------------
(* The state, and what is known of the project and of the file.             *)
Importing == {"entities", "relations", "files", "texts", "done"}
TransferShaped ==
  /\ transfer = [pc |-> transfer.pc, file |-> transfer.file, version |-> transfer.version,
                 left |-> transfer.left, entityMap |-> transfer.entityMap,
                 attachmentMap |-> transfer.attachmentMap, suspect |-> transfer.suspect]
  /\ copy = [entities |-> copy.entities, edges |-> copy.edges, attachments |-> copy.attachments,
             templates |-> copy.templates]
  /\ transfer.suspect \in BOOLEAN
  /\ IsProject(original) /\ IsLinked(original) /\ IsProject(File)

(* Of a project that nobody has changed the file has the entities of every   *)
(* relationship.                                                            *)
ExportInv ==
  /\ transfer.pc \in {"export", "edges"} => File.edges = {}
  /\ transfer.pc = "edges" /\ ~ transfer.suspect => File.entities = original.entities
  /\ ~ transfer.suspect => File.edges \subseteq (DOMAIN File.entities) \X (DOMAIN File.entities)
  /\ ~ transfer.suspect => transfer.version = FormatVersion
  /\ transfer.pc = "failed" => transfer.suspect

(* The files of the file that are of an entity it has.                      *)
Owned == {a \in DOMAIN File.attachments : File.attachments[a] \in DOMAIN File.entities}
Ends(x) == <<NewId(x[1]), NewId(x[2])>>

EntitiesInv ==
  /\ DOMAIN transfer.entityMap =
       IF transfer.pc = "entities" THEN DOMAIN File.entities \ transfer.left
       ELSE IF transfer.pc \in Importing THEN DOMAIN File.entities ELSE {}
  /\ \A e \in DOMAIN transfer.entityMap : transfer.entityMap[e] = NewId(e)
  /\ DOMAIN copy.entities = {NewId(e) : e \in DOMAIN transfer.entityMap}
EdgesInv ==
  LET related == IF transfer.pc = "relations" THEN File.edges \ transfer.left
                 ELSE IF transfer.pc \in {"files", "texts", "done"} THEN File.edges ELSE {}
  IN  /\ copy.edges = {Ends(x) : x \in related}
      /\ related \subseteq (DOMAIN File.entities) \X (DOMAIN File.entities)
FilesInv ==
  /\ DOMAIN transfer.attachmentMap =
       IF transfer.pc = "files" THEN Owned \ transfer.left
       ELSE IF transfer.pc \in {"texts", "done"} THEN Owned ELSE {}
  /\ \A a \in DOMAIN transfer.attachmentMap : transfer.attachmentMap[a] = NewId(a)
  /\ copy.attachments = [i \in {NewId(a) : a \in DOMAIN transfer.attachmentMap} |->
                           NewId(File.attachments[Old(i[2])])]
TextsInv ==
  LET finished == IF transfer.pc = "texts" THEN DOMAIN File.entities \ transfer.left
                  ELSE IF transfer.pc = "done" THEN DOMAIN File.entities ELSE {}
  IN  \A e \in finished : copy.entities[NewId(e)] = UpdateEntity(e)
LeftInv ==
  /\ transfer.pc \in {"edges", "templates", "attachments", "entities", "texts"}
       => transfer.left \subseteq DOMAIN File.entities
  /\ transfer.pc = "relations" => transfer.left \subseteq File.edges
  /\ transfer.pc = "files" => transfer.left \subseteq DOMAIN File.attachments

ImportInv == transfer.pc # "failed" => EntitiesInv /\ EdgesInv /\ FilesInv /\ TextsInv /\ LeftInv
TransferInv == TransferShaped /\ ExportInv /\ ImportInv

-----------------------------------------------------------------------------
(* An entity of the file as the import leaves it.                           *)
Updated(row) ==
  [template |-> MappedTemplate(row.template),
   icon |-> IF row.icon \in DOMAIN transfer.attachmentMap THEN transfer.attachmentMap[row.icon] ELSE NoId,
   link |-> Mapped(transfer.entityMap, row.link),
   picture |-> Mapped(transfer.attachmentMap, row.picture),
   file |-> row.file, seen |-> row.seen,
   playerLink |-> IF row.seen \/ row.playerLink # NoId THEN Mapped(transfer.entityMap, row.playerLink)
                  ELSE NoId]

LEMMA UpdatedRow ==
  ASSUME NEW e, IsEntity(File.entities[e])
  PROVE  UpdateEntity(e) = Updated(File.entities[e])
<1> DEFINE row == File.entities[e]
           entityMap == transfer.entityMap
           attachmentMap == transfer.attachmentMap
           icon == IF row.icon \in DOMAIN attachmentMap THEN attachmentMap[row.icon] ELSE NoId
           template == MappedTemplate(row.template)
           link == Mapped(entityMap, row.link)
           picture == Mapped(attachmentMap, row.picture)
           playerLink == IF row.seen \/ row.playerLink # NoId THEN Mapped(entityMap, row.playerLink)
                         ELSE NoId
           rewritten == [template |-> row.template, icon |-> row.icon, link |-> link, picture |-> picture,
                         file |-> row.file, seen |-> row.seen, playerLink |-> row.playerLink]
<1>1. row = [template |-> row.template, icon |-> row.icon, link |-> row.link, picture |-> row.picture,
             file |-> row.file, seen |-> row.seen, playerLink |-> row.playerLink]
  BY DEF IsEntity
<1>2. /\ Rewritten(row) = [row EXCEPT !.link = link, !.picture = picture]
      /\ UpdateEntity(e) = [Rewritten(row) EXCEPT !.template = template,
                              !.icon = IF @ \in DOMAIN attachmentMap THEN attachmentMap[@] ELSE NoId,
                              !.playerLink = IF row.seen \/ row.playerLink # NoId THEN Mapped(entityMap, @)
                                             ELSE NoId]
      /\ Updated(row) = [template |-> template, icon |-> icon, link |-> link, picture |-> picture,
                         file |-> row.file, seen |-> row.seen, playerLink |-> playerLink]
  BY DEF Rewritten, UpdateEntity, Updated
<1> HIDE DEF row, link, picture, template, entityMap, attachmentMap
<1>3. Rewritten(row) = rewritten
  BY <1>1, <1>2
<1>4. rewritten.icon = row.icon /\ rewritten.playerLink = row.playerLink
  OBVIOUS
<1>5. UpdateEntity(e) = [rewritten EXCEPT !.template = template, !.icon = icon, !.playerLink = playerLink]
  BY <1>2, <1>3, <1>4
<1>6. UpdateEntity(e) = Updated(row)
  <2> HIDE DEF icon, playerLink
  <2> QED BY <1>2, <1>5
<1> QED BY <1>6 DEF row

(* A file that is done is the world of the file again.                      *)
LEMMA DoneIsRebuilt == TransferInv => WorldIsRebuilt
<1> SUFFICES ASSUME TransferInv, transfer.pc = "done" PROVE WorldIsRebuilt
  BY DEF TransferInv, ExportInv, WorldIsRebuilt
<1> DEFINE Copied(id) == IF id \in DOMAIN File.entities \cup Owned \cup File.templates
                         THEN New(id[2]) ELSE id
<1>0. EntitiesInv /\ EdgesInv /\ FilesInv /\ TextsInv /\ IsProject(File)
  BY DEF TransferInv, ImportInv, TransferShaped
<1>1. /\ DOMAIN transfer.entityMap = DOMAIN File.entities
      /\ \A e \in DOMAIN File.entities : transfer.entityMap[e] = NewId(e)
      /\ DOMAIN copy.entities = {NewId(e) : e \in DOMAIN File.entities}
  BY <1>0 DEF EntitiesInv, Importing
<1>2. /\ DOMAIN transfer.attachmentMap = Owned
      /\ \A a \in Owned : transfer.attachmentMap[a] = NewId(a)
      /\ copy.attachments = [i \in {NewId(a) : a \in Owned} |-> NewId(File.attachments[Old(i[2])])]
  BY <1>0 DEF FilesInv
<1>3. \A id \in DOMAIN File.entities \cup Owned \cup File.templates : Copied(id) = NewId(id)
  BY DEF NewId
<1>4. DOMAIN copy.entities = {Copied(e) : e \in DOMAIN File.entities}
  BY <1>1, <1>3
<1>5. copy.edges = {<<Copied(x[1]), Copied(x[2])>> : x \in File.edges}
  <2>1. /\ copy.edges = {Ends(x) : x \in File.edges}
        /\ File.edges \subseteq (DOMAIN File.entities) \X (DOMAIN File.entities)
    BY <1>0 DEF EdgesInv
  <2>2. \A x \in File.edges : x[1] \in DOMAIN File.entities /\ x[2] \in DOMAIN File.entities
    BY <2>1
  <2>3. \A x \in File.edges : Ends(x) = <<Copied(x[1]), Copied(x[2])>>
    BY <1>3, <2>2 DEF Ends
  <2> HIDE DEF Copied
  <2> QED BY <2>1, <2>3
<1>6. copy.attachments = [a \in {Copied(b) : b \in Owned} |-> Copied(File.attachments[Old(a[2])])]
  <2>1. {Copied(b) : b \in Owned} = {NewId(a) : a \in Owned}
    BY <1>3
  <2>2. \A i \in {NewId(a) : a \in Owned} :
          NewId(File.attachments[Old(i[2])]) = Copied(File.attachments[Old(i[2])])
    <3>1. \A a \in Owned : Old(NewId(a)[2]) = a /\ File.attachments[a] \in DOMAIN File.entities
      BY <1>0, OldIds, Kinds DEF Owned
    <3> QED BY <3>1, <1>3
  <2> HIDE DEF Copied
  <2> QED BY <1>2, <2>1, <2>2
<1>7. ASSUME NEW e \in DOMAIN File.entities
      PROVE  LET old == File.entities[e]
                 new == copy.entities[Copied(e)]
             IN  /\ new.template = Copied(old.template)
                 /\ new.link = Copied(old.link) /\ new.playerLink = Copied(old.playerLink)
                 /\ new.seen = old.seen /\ new.picture = Copied(old.picture)
                 /\ new.icon = IF old.icon \in Owned THEN Copied(old.icon) ELSE NoId
  <2> DEFINE old == File.entities[e]
  <2>1. copy.entities[Copied(e)] = UpdateEntity(e)
    BY <1>0, <1>3 DEF TextsInv
  <2>2. IsEntity(old)
    BY <1>0 DEF IsProject
  <2>3. /\ DOMAIN File.entities \subseteq EntityIds /\ Owned \subseteq FileIds
        /\ File.templates \subseteq TemplateIds
    BY <1>0 DEF IsProject, Owned
  <2>4. /\ MappedTemplate(old.template) = Copied(old.template)
        /\ Mapped(transfer.entityMap, old.link) = Copied(old.link)
        /\ Mapped(transfer.entityMap, old.playerLink) = Copied(old.playerLink)
        /\ Mapped(transfer.attachmentMap, old.picture) = Copied(old.picture)
    BY <1>1, <1>2, <1>3, <2>2, <2>3 DEF IsEntity, Mapped, MappedTemplate, NewId
  <2>5. (IF old.icon \in DOMAIN transfer.attachmentMap THEN transfer.attachmentMap[old.icon] ELSE NoId)
          = IF old.icon \in Owned THEN Copied(old.icon) ELSE NoId
    BY <1>2, <1>3
  <2>6. Copied(NoId) = NoId
    BY <2>3, OldIds DEF AllIds
  <2> HIDE DEF Copied
  <2>7. UpdateEntity(e) =
          [template |-> Copied(old.template),
           icon |-> IF old.icon \in Owned THEN Copied(old.icon) ELSE NoId,
           link |-> Copied(old.link), picture |-> Copied(old.picture), file |-> old.file,
           seen |-> old.seen, playerLink |-> Copied(old.playerLink)]
    <3>1. (IF old.seen \/ old.playerLink # NoId THEN Mapped(transfer.entityMap, old.playerLink) ELSE NoId)
            = Copied(old.playerLink)
      BY <2>4, <2>6
    <3>2. UpdateEntity(e) = Updated(old)
      BY <2>2, UpdatedRow
    <3> HIDE DEF old
    <3> QED BY <2>4, <2>5, <3>1, <3>2 DEF Updated
  <2> QED BY <2>1, <2>7
<1> HIDE DEF Copied
<1>9. transfer.pc # "failed"
  OBVIOUS
<1> QED BY <1>4, <1>5, <1>6, <1>7, <1>9, Zenon DEF WorldIsRebuilt, Copied, Owned

-----------------------------------------------------------------------------
(* Steps *)

(* A transfer moves on; the version of its file is what it was.             *)
Moves(at, file, rest, entityMap, attachmentMap, suspect) ==
  transfer' = [pc |-> at, file |-> file, version |-> transfer.version, left |-> rest,
               entityMap |-> entityMap, attachmentMap |-> attachmentMap, suspect |-> suspect]
Creates(entities, related, attachments, templates) ==
  copy' = [entities |-> entities, edges |-> related, attachments |-> attachments, templates |-> templates]

LEMMA InitTransfer == TransferInit => TransferInv
<1> SUFFICES ASSUME TransferInit PROVE TransferInv
  OBVIOUS
<1> DEFINE nothing == [i \in {} |-> NoId]
<1>1. IsProject(EmptyProject) /\ IsLinked(EmptyProject)
  BY DEF IsProject, IsLinked, EmptyProject
<1>2. /\ DOMAIN nothing = {}
      /\ EmptyProject = [entities |-> nothing, edges |-> {}, attachments |-> nothing, templates |-> {}]
  BY DEF EmptyProject
<1> DEFINE Begins(at, file, version, suspect) ==
        /\ transfer = [pc |-> at, file |-> file, version |-> version, left |-> {},
                       entityMap |-> nothing, attachmentMap |-> nothing, suspect |-> suspect]
        /\ IsProject(file) /\ IsProject(original) /\ IsLinked(original)
        /\ suspect \/ (file = EmptyProject /\ version = FormatVersion)
        /\ at = "export" => file = EmptyProject
<1>3. PICK at, file, version, suspect :
        at \in {"export", "project"} /\ suspect \in BOOLEAN /\ Begins(at, file, version, suspect)
  <2>1. CASE original \in Worlds /\ transfer = NotStarted
    <3>1. Begins("export", EmptyProject, FormatVersion, FALSE)
      BY <1>1, <2>1, TransferAssumption DEF NotStarted
    <3> HIDE DEF Begins
    <3> QED BY <3>1
  <2>2. ASSUME original = EmptyProject, NEW file \in HandMade, NEW version,
               transfer = [NotStarted EXCEPT !.pc = "project", !.file = file, !.version = version,
                                             !.suspect = TRUE]
        PROVE  Begins("project", file, version, TRUE)
    <3>1. transfer = [pc |-> "project", file |-> file, version |-> version, left |-> {},
                      entityMap |-> nothing, attachmentMap |-> nothing, suspect |-> TRUE]
      BY <2>2 DEF NotStarted
    <3> QED BY <1>1, <2>2, <3>1, TransferAssumption
  <2>3. \/ original \in Worlds /\ transfer = NotStarted
        \/ /\ original = EmptyProject
           /\ \E file \in HandMade : \E version :
                transfer = [NotStarted EXCEPT !.pc = "project", !.file = file, !.version = version,
                                              !.suspect = TRUE]
    BY DEF TransferInit
  <2> HIDE DEF Begins
  <2> QED BY <2>1, <2>2, <2>3
<1> HIDE DEF nothing
<1>4. copy = [entities |-> nothing, edges |-> {}, attachments |-> nothing, templates |-> {}]
  BY <1>2 DEF TransferInit
<1>5. TransferShaped
  BY <1>3, <1>4 DEF TransferShaped, File
<1>6. ExportInv
  BY <1>2, <1>3 DEF ExportInv, File
<1>7. EntitiesInv /\ EdgesInv /\ TextsInv /\ LeftInv
  BY <1>2, <1>3, <1>4 DEF EntitiesInv, EdgesInv, TextsInv, LeftInv, Importing
<1>8. FilesInv
  <2>1. DOMAIN transfer.attachmentMap = {} /\ copy.attachments = nothing
    BY <1>2, <1>3, <1>4
  <2>2. nothing = [i \in {NewId(a) : a \in {}} |-> NewId(File.attachments[Old(i[2])])]
    BY DEF nothing
  <2> QED BY <1>3, <2>1, <2>2 DEF FilesInv
<1> QED BY <1>5, <1>6, <1>7, <1>8 DEF TransferInv, ImportInv

(* What is said of an import says nothing of the project exported.          *)
LEMMA SameImport ==
  ASSUME ImportInv, transfer'.pc = transfer.pc, File' = File, transfer'.left = transfer.left,
         transfer'.entityMap = transfer.entityMap, transfer'.attachmentMap = transfer.attachmentMap,
         copy' = copy
  PROVE  ImportInv'
<1> SUFFICES ASSUME transfer.pc # "failed" PROVE ImportInv'
  BY DEF ImportInv
<1>1. EntitiesInv' /\ EdgesInv' /\ LeftInv'
  BY DEF ImportInv, EntitiesInv, EdgesInv, LeftInv
<1>2. Owned' = Owned
  BY DEF Owned
<1>3. FilesInv'
  BY <1>2 DEF ImportInv, FilesInv
<1>4. \A e : UpdateEntity(e)' = UpdateEntity(e)
  BY DEF UpdateEntity, Rewritten, Mapped, MappedTemplate
<1>5. TextsInv'
  BY <1>4 DEF ImportInv, TextsInv
<1> QED BY <1>1, <1>3, <1>5 DEF ImportInv

-----------------------------------------------------------------------------
(* Others at work *)

LEMMA OthersStep ==
  ASSUME TransferInv, NEW suspect \in BOOLEAN, transfer' = [transfer EXCEPT !.suspect = suspect],
         suspect \/ (~ transfer.suspect /\ ~ Exporting), UNCHANGED copy,
         IsProject(original'), IsLinked(original')
  PROVE  TransferInv'
<1>1. Moves(transfer.pc, File, transfer.left, transfer.entityMap, transfer.attachmentMap, suspect)
  BY DEF TransferInv, TransferShaped, Moves, File
<1>2. TransferShaped'
  BY <1>1 DEF TransferInv, TransferShaped, Moves, File
<1>3. ImportInv'
  BY <1>1, SameImport DEF TransferInv, Moves, File
<1>4. ExportInv'
  BY <1>1 DEF TransferInv, ExportInv, Moves, File, Exporting
<1> QED BY <1>2, <1>3, <1>4 DEF TransferInv

LEMMA CreateLinkedStep ==
  ASSUME TransferInv, NEW n \in EntityIds, NEW e \in DOMAIN original.entities, CreateLinked(n, e)
  PROVE  TransferInv'
<1> DEFINE row == original.entities[e]
           new == [row EXCEPT !.icon = NoId, !.picture = NoId, !.file = NoId]
           entities == [i \in (DOMAIN original.entities) \cup {n} |->
                          IF i = n THEN new ELSE original.entities[i]]
           related == original.edges \cup {<<n, e>>}
<1>1. IsProject(original) /\ IsLinked(original) /\ IsEntity(row)
  BY DEF TransferInv, TransferShaped, IsProject
<1>2. IsEntity(new)
  <2>1. new = [template |-> row.template, icon |-> NoId, link |-> row.link, picture |-> NoId,
               file |-> NoId, seen |-> row.seen, playerLink |-> row.playerLink]
    <3>1. row = [template |-> row.template, icon |-> row.icon, link |-> row.link, picture |-> row.picture,
                 file |-> row.file, seen |-> row.seen, playerLink |-> row.playerLink]
      BY <1>1 DEF IsEntity
    <3> HIDE DEF row
    <3>2. new = [row EXCEPT !.icon = NoId, !.picture = NoId, !.file = NoId]
      BY DEF row
    <3> HIDE DEF new
    <3> QED BY <3>1, <3>2
  <2> HIDE DEF row, new
  <2> QED BY <1>1, <2>1, OldIds DEF IsEntity, AllIds
<1>3. original' = [entities |-> entities, edges |-> related, attachments |-> original.attachments,
                   templates |-> original.templates]
  <2>1. original' = [original EXCEPT !.entities = entities, !.edges = related]
    BY DEF CreateLinked
  <2> HIDE DEF entities, related
  <2> QED BY <1>1, <2>1 DEF IsProject
<1>4. IsProject(original')
  <2> HIDE DEF new, row
  <2>1. e \in EntityIds
    BY <1>1 DEF IsProject
  <2> QED BY <1>1, <1>2, <1>3, <2>1 DEF IsProject
<1>5. IsLinked(original')
  <2> HIDE DEF new, row
  <2> QED BY <1>1, <1>3 DEF IsLinked
<1>6. transfer' = [transfer EXCEPT !.suspect = transfer.suspect \/ Exporting] /\ UNCHANGED copy
  BY DEF CreateLinked
<1> QED BY <1>4, <1>5, <1>6, OthersStep DEF TransferInv, TransferShaped, Exporting

LEMMA RemoveEntityStep ==
  ASSUME TransferInv, NEW e \in DOMAIN original.entities, RemoveEntity(e)
  PROVE  TransferInv'
<1> DEFINE entities == [i \in (DOMAIN original.entities) \ {e} |-> original.entities[i]]
           related == {x \in original.edges : e \notin {x[1], x[2]}}
           kept == {b \in DOMAIN original.attachments : original.attachments[b] # e}
           attachments == [a \in kept |-> original.attachments[a]]
<1>1. IsProject(original) /\ IsLinked(original)
  BY DEF TransferInv, TransferShaped
<1>2. original' = [entities |-> entities, edges |-> related, attachments |-> attachments,
                   templates |-> original.templates]
  <2>1. original' = [original EXCEPT !.entities = entities, !.edges = related, !.attachments = attachments]
    BY DEF RemoveEntity
  <2> HIDE DEF entities, related, attachments
  <2> QED BY <1>1, <2>1 DEF IsProject
<1>3. IsProject(original')
  BY <1>1, <1>2 DEF IsProject
<1>4. IsLinked(original')
  BY <1>1, <1>2 DEF IsLinked
<1>5. transfer' = [transfer EXCEPT !.suspect = transfer.suspect \/ Exporting] /\ UNCHANGED copy
  BY DEF RemoveEntity
<1> QED BY <1>3, <1>4, <1>5, OthersStep DEF TransferInv, TransferShaped, Exporting

(* A transfer that fails for what others did, or for its file.              *)
LEMMA FailsStep ==
  ASSUME TransferInv, transfer' = [transfer EXCEPT !.pc = "failed", !.suspect = TRUE], UNCHANGED copy,
         IsProject(original'), IsLinked(original')
  PROVE  TransferInv'
<1>1. Moves("failed", File, transfer.left, transfer.entityMap, transfer.attachmentMap, TRUE)
  BY DEF TransferInv, TransferShaped, Moves, File
<1>2. TransferShaped'
  BY <1>1 DEF TransferInv, TransferShaped, Moves, File
<1>3. ExportInv' /\ ImportInv'
  BY <1>1 DEF ExportInv, ImportInv, Moves
<1> QED BY <1>2, <1>3 DEF TransferInv

LEMMA DeletedBeforeReadStep ==
  ASSUME TransferInv, NEW a \in DOMAIN original.attachments, DeletedBeforeRead(a)
  PROVE  TransferInv'
<1> DEFINE attachments == [b \in (DOMAIN original.attachments) \ {a} |-> original.attachments[b]]
<1>1. IsProject(original) /\ IsLinked(original)
  BY DEF TransferInv, TransferShaped
<1>2. original' = [entities |-> original.entities, edges |-> original.edges, attachments |-> attachments,
                   templates |-> original.templates]
  <2>1. original' = [original EXCEPT !.attachments = attachments]
    BY DEF DeletedBeforeRead
  <2> HIDE DEF attachments
  <2> QED BY <1>1, <2>1 DEF IsProject
<1>3. IsProject(original') /\ IsLinked(original')
  BY <1>1, <1>2 DEF IsProject, IsLinked
<1> QED BY <1>3, FailsStep DEF DeletedBeforeRead

-----------------------------------------------------------------------------
(* The export *)

LEMMA ExportStep ==
  ASSUME TransferInv, Exporting \/ transfer.pc = "export",
         NEW at \in {"edges", "templates", "attachments", "project"}, NEW file, NEW rest,
         Moves(at, file, rest, transfer.entityMap, transfer.attachmentMap, transfer.suspect),
         UNCHANGED <<original, copy>>, IsProject(file), rest \subseteq DOMAIN file.entities,
         at = "edges" => file.edges = {} /\ file.entities = original.entities,
         ~ transfer.suspect => file.edges \subseteq (DOMAIN file.entities) \X (DOMAIN file.entities)
  PROVE  TransferInv'
<1>1. File' = file
  BY DEF Moves, File
<1>2. TransferShaped'
  BY <1>1 DEF TransferInv, TransferShaped, Moves
<1>3. ExportInv'
  BY <1>1 DEF TransferInv, ExportInv, Moves
<1>4. /\ DOMAIN transfer.entityMap = {} /\ DOMAIN copy.entities = {} /\ copy.edges = {}
      /\ DOMAIN transfer.attachmentMap = {}
      /\ copy.attachments = [i \in {NewId(a) : a \in {}} |-> NewId(File.attachments[Old(i[2])])]
  BY DEF TransferInv, ImportInv, EntitiesInv, EdgesInv, FilesInv, Exporting, Importing
<1>5. EntitiesInv' /\ EdgesInv' /\ TextsInv' /\ LeftInv'
  BY <1>1, <1>4 DEF EntitiesInv, EdgesInv, TextsInv, LeftInv, Moves, Importing
<1>6. FilesInv'
  <2>1. [i \in {NewId(a) : a \in {}} |-> NewId(File.attachments[Old(i[2])])]
          = [i \in {NewId(a) : a \in {}} |-> NewId(file.attachments[Old(i[2])])]
    OBVIOUS
  <2>2. /\ DOMAIN transfer'.attachmentMap = {}
        /\ transfer'.pc \in {"edges", "templates", "attachments", "project"}
        /\ copy'.attachments = [i \in {NewId(a) : a \in {}} |-> NewId(file.attachments[Old(i[2])])]
    BY <1>4, <2>1 DEF Moves
  <2> QED BY <1>1, <2>2 DEF FilesInv
<1> QED BY <1>2, <1>3, <1>5, <1>6 DEF TransferInv, ImportInv

LEMMA FileParts ==
  ASSUME TransferInv
  PROVE  /\ File = [entities |-> File.entities, edges |-> File.edges, attachments |-> File.attachments,
                    templates |-> File.templates]
         /\ IsProject(File) /\ IsProject(original) /\ IsLinked(original)
BY DEF TransferInv, TransferShaped, IsProject

LEMMA ReadEntitiesStep ==
  ASSUME TransferInv, ReadEntities
  PROVE  TransferInv'
<1> DEFINE file == [entities |-> original.entities, edges |-> {}, attachments |-> File.attachments,
                    templates |-> File.templates]
<1>1. File.edges = {}
  BY DEF ReadEntities, TransferInv, ExportInv
<1>2. [File EXCEPT !.entities = original.entities] = file
  BY <1>1, FileParts
<1>3. transfer' = [transfer EXCEPT !.pc = "edges", !.file = file, !.left = DOMAIN original.entities]
  BY <1>2 DEF ReadEntities, File
<1>4. IsProject(file)
  BY FileParts DEF IsProject
<1>5. Moves("edges", file, DOMAIN original.entities, transfer.entityMap,
            transfer.attachmentMap, transfer.suspect)
  <2> HIDE DEF file
  <2> QED BY <1>3 DEF TransferInv, TransferShaped, Moves
<1> QED BY <1>4, <1>5, ExportStep DEF ReadEntities

LEMMA ReadEdgesStep ==
  ASSUME TransferInv, ReadEdges
  PROVE  TransferInv'
<1> DEFINE file == [entities |-> File.entities, edges |-> original.edges, attachments |-> File.attachments,
                    templates |-> File.templates]
<1>1. [File EXCEPT !.edges = original.edges] = file
  BY FileParts
<1>2. transfer' = [transfer EXCEPT !.pc = "templates", !.file = file]
  BY <1>1 DEF ReadEdges, File
<1>3. IsProject(file)
  BY FileParts DEF IsProject
<1>4. Moves("templates", file, transfer.left, transfer.entityMap, transfer.attachmentMap, transfer.suspect)
  <2> HIDE DEF file
  <2> QED BY <1>2 DEF TransferInv, TransferShaped, Moves
<1>5. ~ transfer.suspect => file.edges \subseteq (DOMAIN file.entities) \X (DOMAIN file.entities)
  BY FileParts DEF ReadEdges, TransferInv, ExportInv, IsLinked
<1>6. transfer.left \subseteq DOMAIN file.entities
  BY DEF ReadEdges, TransferInv, ImportInv, LeftInv
<1> QED BY <1>3, <1>4, <1>5, <1>6, ExportStep DEF ReadEdges, Exporting

LEMMA ReadTemplatesStep ==
  ASSUME TransferInv, ReadTemplates
  PROVE  TransferInv'
<1> DEFINE file == [entities |-> File.entities, edges |-> File.edges, attachments |-> File.attachments,
                    templates |-> original.templates]
<1>1. [File EXCEPT !.templates = original.templates] = file
  BY FileParts
<1>2. transfer' = [transfer EXCEPT !.pc = "attachments", !.file = file]
  BY <1>1 DEF ReadTemplates, File
<1>3. IsProject(file)
  BY FileParts DEF IsProject
<1>4. Moves("attachments", file, transfer.left, transfer.entityMap, transfer.attachmentMap, transfer.suspect)
  <2> HIDE DEF file
  <2> QED BY <1>2 DEF TransferInv, TransferShaped, Moves
<1>5. ~ transfer.suspect => file.edges \subseteq (DOMAIN file.entities) \X (DOMAIN file.entities)
  BY DEF TransferInv, ExportInv
<1>6. transfer.left \subseteq DOMAIN file.entities
  BY DEF ReadTemplates, TransferInv, ImportInv, LeftInv
<1> QED BY <1>3, <1>4, <1>5, <1>6, ExportStep DEF ReadTemplates, Exporting

LEMMA ReadAttachmentsStep ==
  ASSUME TransferInv, NEW e \in transfer.left, ReadAttachments(e)
  PROVE  TransferInv'
<1> DEFINE own == {a \in DOMAIN original.attachments : original.attachments[a] = e}
           attachments == [a \in (DOMAIN File.attachments) \cup own |->
                             IF a \in own THEN e ELSE File.attachments[a]]
           file == [entities |-> File.entities, edges |-> File.edges, attachments |-> attachments,
                    templates |-> File.templates]
           rest == transfer.left \ {e}
<1>1. [File EXCEPT !.attachments = attachments] = file
  <2> HIDE DEF attachments
  <2> QED BY FileParts
<1>2. transfer' = [transfer EXCEPT !.left = rest, !.file = [File EXCEPT !.attachments = attachments]]
  BY DEF ReadAttachments, File
<1>3. IsProject(file)
  BY FileParts DEF IsProject
<1>4. Moves("attachments", file, rest, transfer.entityMap, transfer.attachmentMap, transfer.suspect)
  <2>1. transfer' = [transfer EXCEPT !.left = rest, !.file = file] /\ transfer.pc = "attachments"
    BY <1>1, <1>2 DEF ReadAttachments
  <2> HIDE DEF file, rest
  <2> QED BY <2>1 DEF TransferInv, TransferShaped, Moves
<1>5. ~ transfer.suspect => file.edges \subseteq (DOMAIN file.entities) \X (DOMAIN file.entities)
  BY DEF TransferInv, ExportInv
<1>6. rest \subseteq DOMAIN file.entities
  BY DEF ReadAttachments, TransferInv, ImportInv, LeftInv
<1>7. Exporting /\ UNCHANGED <<original, copy>>
  BY DEF ReadAttachments, Exporting
<1> HIDE DEF file, rest
<1> QED BY <1>3, <1>4, <1>5, <1>6, <1>7, ExportStep

LEMMA FileIsWrittenStep ==
  ASSUME TransferInv, FileIsWritten
  PROVE  TransferInv'
<1>1. Moves("project", File, transfer.left, transfer.entityMap, transfer.attachmentMap, transfer.suspect)
  BY DEF FileIsWritten, TransferInv, TransferShaped, Moves, File
<1>2. ~ transfer.suspect => File.edges \subseteq (DOMAIN File.entities) \X (DOMAIN File.entities)
  BY DEF TransferInv, ExportInv
<1> QED BY <1>1, <1>2, FileParts, ExportStep DEF FileIsWritten, Exporting

LEMMA RefuseFileStep ==
  ASSUME TransferInv, RefuseFile
  PROVE  TransferInv'
<1>1. transfer.suspect = TRUE
  BY DEF RefuseFile, TransferInv, TransferShaped, ExportInv
<1>2. transfer' = [transfer EXCEPT !.pc = "failed", !.suspect = TRUE]
  BY <1>1 DEF RefuseFile, TransferInv, TransferShaped
<1> QED BY <1>2, FileParts, FailsStep DEF RefuseFile

-----------------------------------------------------------------------------
(* The import *)

LEMMA ImportFrame ==
  ASSUME TransferInv, transfer.pc \in Importing \cup {"project"}, NEW at \in Importing, NEW rest,
         NEW entityMap, NEW attachmentMap, NEW entities, NEW related, NEW attachments, NEW templates,
         Moves(at, File, rest, entityMap, attachmentMap, transfer.suspect),
         Creates(entities, related, attachments, templates), UNCHANGED original
  PROVE  TransferShaped' /\ ExportInv' /\ File' = File /\ Owned' = Owned
<1>1. File' = File
  BY DEF Moves, File
<1>2. TransferShaped'
  BY <1>1 DEF TransferInv, TransferShaped, Moves, Creates
<1>3. ExportInv'
  BY <1>1 DEF TransferInv, ExportInv, Moves, Importing
<1> QED BY <1>1, <1>2, <1>3 DEF Owned

(* The import as it is, of which a step changes a part.                     *)
LEMMA ImportParts ==
  ASSUME TransferInv
  PROVE  /\ transfer = [pc |-> transfer.pc, file |-> File, version |-> transfer.version,
                        left |-> transfer.left, entityMap |-> transfer.entityMap,
                        attachmentMap |-> transfer.attachmentMap, suspect |-> transfer.suspect]
         /\ copy = [entities |-> copy.entities, edges |-> copy.edges, attachments |-> copy.attachments,
                    templates |-> copy.templates]
         /\ DOMAIN File.entities \subseteq AllIds /\ DOMAIN File.attachments \subseteq AllIds
         /\ transfer.pc # "failed" => EntitiesInv /\ EdgesInv /\ FilesInv /\ TextsInv /\ LeftInv
BY FileParts, Kinds DEF TransferInv, TransferShaped, ImportInv, File

LEMMA CreateProjectStep ==
  ASSUME TransferInv, CreateProject
  PROVE  TransferInv'
<1> DEFINE templates == {New(t[2]) : t \in File.templates}
           nothing == [i \in {} |-> NoId]
<1>1. Creates(nothing, {}, nothing, templates)
  BY DEF CreateProject, EmptyProject, Creates
<1>2. Moves("entities", File, DOMAIN File.entities, transfer.entityMap,
            transfer.attachmentMap, transfer.suspect)
  <2> DEFINE rest == DOMAIN File.entities
  <2>1. transfer' = [transfer EXCEPT !.pc = "entities", !.left = rest]
    BY DEF CreateProject
  <2> HIDE DEF rest
  <2>2. Moves("entities", File, rest, transfer.entityMap, transfer.attachmentMap, transfer.suspect)
    BY <2>1 DEF TransferInv, TransferShaped, Moves, File
  <2> QED BY <2>2 DEF rest
<1>3. TransferShaped' /\ ExportInv' /\ File' = File
  <2> HIDE DEF nothing, templates
  <2> QED BY <1>1, <1>2, ImportFrame DEF CreateProject, Importing
<1>4. /\ DOMAIN transfer.entityMap = {} /\ DOMAIN transfer.attachmentMap = {}
  BY ImportParts DEF CreateProject, EntitiesInv, FilesInv, Importing
<1>5. DOMAIN nothing = {} /\ nothing = [i \in {NewId(a) : a \in {}} |-> NewId(File.attachments[Old(i[2])])]
  OBVIOUS
<1> HIDE DEF nothing, templates
<1>6. EntitiesInv' /\ EdgesInv' /\ TextsInv' /\ LeftInv'
  BY <1>1, <1>2, <1>3, <1>4, <1>5 DEF EntitiesInv, EdgesInv, TextsInv, LeftInv, Moves, Creates
<1>7. FilesInv'
  <2>1. transfer'.pc = "entities" /\ DOMAIN transfer'.attachmentMap = {} /\ copy'.attachments = nothing
    BY <1>1, <1>2, <1>4 DEF Moves, Creates
  <2> QED BY <1>3, <1>5, <2>1 DEF FilesInv
<1> QED BY <1>3, <1>6, <1>7 DEF TransferInv, ImportInv

LEMMA ImportEntityStep ==
  ASSUME TransferInv, NEW e \in transfer.left, ImportEntity(e)
  PROVE  TransferInv'
<1> DEFINE id == New(e[2])
           row == [File.entities[e] EXCEPT !.template = MappedTemplate(@), !.icon = NoId,
                                           !.seen = FALSE, !.playerLink = NoId]
           entities == [i \in (DOMAIN copy.entities) \cup {id} |-> IF i = id THEN row ELSE copy.entities[i]]
           entityMap == [i \in (DOMAIN transfer.entityMap) \cup {e} |->
                           IF i = e THEN id ELSE transfer.entityMap[i]]
           rest == transfer.left \ {e}
<1> HIDE DEF row
<1>0. transfer.pc = "entities" /\ e \in DOMAIN File.entities /\ EntitiesInv /\ EdgesInv /\ FilesInv /\ LeftInv
  BY ImportParts DEF ImportEntity, LeftInv
<1>1. Creates(entities, copy.edges, copy.attachments, copy.templates)
  <2>1. copy' = [copy EXCEPT !.entities = entities]
    BY DEF ImportEntity, row
  <2> HIDE DEF entities
  <2> QED BY <2>1, ImportParts DEF Creates
<1>2. Moves("entities", File, rest, entityMap, transfer.attachmentMap, transfer.suspect)
  <2>1. transfer' = [transfer EXCEPT !.left = rest, !.entityMap = entityMap]
    BY DEF ImportEntity
  <2>2. transfer.pc = "entities"
    BY <1>0
  <2> HIDE DEF rest, entityMap
  <2> QED BY <2>1, <2>2 DEF TransferInv, TransferShaped, Moves, File
<1>3. TransferShaped' /\ ExportInv' /\ File' = File /\ Owned' = Owned
  <2> HIDE DEF entities, entityMap, rest
  <2> QED BY <1>0, <1>1, <1>2, ImportFrame DEF ImportEntity, Importing
<1>4. EntitiesInv'
  <2>1. id = NewId(e)
    BY DEF NewId
  <2> HIDE DEF id
  <2> QED BY <1>0, <1>1, <1>2, <1>3, <2>1 DEF EntitiesInv, Moves, Creates
<1> HIDE DEF entities, entityMap, rest
<1>5. EdgesInv' /\ TextsInv' /\ FilesInv'
  BY <1>0, <1>1, <1>2, <1>3 DEF EdgesInv, TextsInv, FilesInv, Moves, Creates
<1>6. LeftInv'
  BY <1>0, <1>2, <1>3 DEF LeftInv, Moves, rest
<1> QED BY <1>3, <1>4, <1>5, <1>6 DEF TransferInv, ImportInv

LEMMA EntitiesCreatedStep ==
  ASSUME TransferInv, EntitiesCreated
  PROVE  TransferInv'
<1>0. transfer.pc = "entities" /\ transfer.left = {} /\ EntitiesInv /\ EdgesInv /\ FilesInv
  BY ImportParts DEF EntitiesCreated
<1>1. Creates(copy.entities, copy.edges, copy.attachments, copy.templates)
  BY ImportParts DEF EntitiesCreated, Creates
<1>2. Moves("relations", File, File.edges, transfer.entityMap, transfer.attachmentMap, transfer.suspect)
  <2> DEFINE rest == File.edges
  <2>1. transfer' = [transfer EXCEPT !.pc = "relations", !.left = rest]
    BY DEF EntitiesCreated
  <2> HIDE DEF rest
  <2>2. Moves("relations", File, rest, transfer.entityMap, transfer.attachmentMap, transfer.suspect)
    BY <2>1 DEF TransferInv, TransferShaped, Moves, File
  <2> QED BY <2>2 DEF rest
<1>3. TransferShaped' /\ ExportInv' /\ File' = File /\ Owned' = Owned
  BY <1>0, <1>1, <1>2, ImportFrame DEF EntitiesCreated, Importing
<1>4. EntitiesInv'
  BY <1>0, <1>1, <1>2, <1>3 DEF EntitiesInv, Moves, Creates, Importing
<1>5. EdgesInv' /\ TextsInv' /\ FilesInv' /\ LeftInv'
  BY <1>0, <1>1, <1>2, <1>3 DEF EdgesInv, TextsInv, FilesInv, LeftInv, Moves, Creates
<1> QED BY <1>3, <1>4, <1>5 DEF TransferInv, ImportInv

LEMMA CreateEdgeStep ==
  ASSUME TransferInv, NEW x \in transfer.left, CreateEdge(x)
  PROVE  TransferInv'
<1>0. /\ transfer.pc = "relations" /\ x \in File.edges /\ EntitiesInv /\ EdgesInv /\ FilesInv /\ LeftInv
      /\ UNCHANGED original
  BY ImportParts DEF CreateEdge, LeftInv
<1>a. /\ DOMAIN transfer.entityMap = DOMAIN File.entities
      /\ \A e \in DOMAIN File.entities : transfer.entityMap[e] = NewId(e)
  BY <1>0 DEF EntitiesInv, Importing
<1>b. x \in EntityIds \X EntityIds
  BY <1>0, FileParts DEF IsProject
<1>1. CASE {x[1], x[2]} \subseteq DOMAIN transfer.entityMap
  <2> DEFINE related == copy.edges \cup {<<transfer.entityMap[x[1]], transfer.entityMap[x[2]]>>}
             rest == transfer.left \ {x}
  <2>1. related = copy.edges \cup {Ends(x)} /\ x \in (DOMAIN File.entities) \X (DOMAIN File.entities)
    BY <1>1, <1>a, <1>b DEF Ends
  <2> HIDE DEF related
  <2>2. Creates(copy.entities, related, copy.attachments, copy.templates)
    BY <1>1, ImportParts DEF CreateEdge, Creates, related
  <2>3. Moves("relations", File, rest, transfer.entityMap, transfer.attachmentMap, transfer.suspect)
    <3>1. transfer' = [transfer EXCEPT !.left = rest]
      BY <1>1 DEF CreateEdge
    <3> HIDE DEF rest
    <3> QED BY <1>0, <3>1, ImportParts DEF Moves
  <2>4. TransferShaped' /\ ExportInv' /\ File' = File /\ Owned' = Owned
    <3> HIDE DEF rest
    <3> QED BY <1>0, <2>2, <2>3, ImportFrame DEF Importing
  <2>5. EntitiesInv' /\ FilesInv' /\ TextsInv' /\ LeftInv'
    BY <1>0, <2>2, <2>3, <2>4 DEF EntitiesInv, TextsInv, FilesInv, LeftInv, Moves, Creates
  <2>6. EdgesInv'
    <3>1. File.edges \ rest = (File.edges \ transfer.left) \cup {x}
      BY <1>0
    <3> QED BY <1>0, <2>1, <2>2, <2>3, <2>4, <3>1 DEF EdgesInv, Moves, Creates
  <2> QED BY <2>4, <2>5, <2>6 DEF TransferInv, ImportInv
<1>2. CASE ~ {x[1], x[2]} \subseteq DOMAIN transfer.entityMap
  <2>1. transfer.suspect = TRUE
    <3>1. ~ {x[1], x[2]} \subseteq DOMAIN File.entities
      BY <1>2, <1>a
    <3> QED BY <1>0, <1>b, <3>1 DEF TransferInv, TransferShaped, ExportInv
  <2>2. transfer' = [transfer EXCEPT !.pc = "failed", !.suspect = TRUE] /\ UNCHANGED copy
    BY <1>2, <2>1, ImportParts DEF CreateEdge
  <2> QED BY <1>0, <2>2, FileParts, FailsStep
<1> QED BY <1>1, <1>2

LEMMA EdgesCreatedStep ==
  ASSUME TransferInv, EdgesCreated
  PROVE  TransferInv'
<1>0. transfer.pc = "relations" /\ transfer.left = {} /\ EntitiesInv /\ EdgesInv /\ FilesInv
  BY ImportParts DEF EdgesCreated
<1>1. Creates(copy.entities, copy.edges, copy.attachments, copy.templates)
  BY ImportParts DEF EdgesCreated, Creates
<1>2. Moves("files", File, DOMAIN File.attachments, transfer.entityMap,
            transfer.attachmentMap, transfer.suspect)
  <2> DEFINE rest == DOMAIN File.attachments
  <2>1. transfer' = [transfer EXCEPT !.pc = "files", !.left = rest]
    BY DEF EdgesCreated
  <2> HIDE DEF rest
  <2>2. Moves("files", File, rest, transfer.entityMap, transfer.attachmentMap, transfer.suspect)
    BY <2>1 DEF TransferInv, TransferShaped, Moves, File
  <2> QED BY <2>2 DEF rest
<1>3. TransferShaped' /\ ExportInv' /\ File' = File /\ Owned' = Owned
  BY <1>0, <1>1, <1>2, ImportFrame DEF EdgesCreated, Importing
<1>4. EntitiesInv'
  BY <1>0, <1>1, <1>2, <1>3 DEF EntitiesInv, Moves, Creates, Importing
<1>5. EdgesInv' /\ TextsInv' /\ LeftInv'
  BY <1>0, <1>1, <1>2, <1>3 DEF EdgesInv, TextsInv, LeftInv, Moves, Creates
<1>6. FilesInv'
  <2>1. Owned \ DOMAIN File.attachments = {}
    BY DEF Owned
  <2> QED BY <1>0, <1>1, <1>2, <1>3, <2>1 DEF FilesInv, Moves, Creates
<1> QED BY <1>3, <1>4, <1>5, <1>6 DEF TransferInv, ImportInv

LEMMA CreateAttachmentStep ==
  ASSUME TransferInv, NEW a \in transfer.left, CreateAttachment(a)
  PROVE  TransferInv'
<1> DEFINE rest == transfer.left \ {a}
           id == New(a[2])
<1>0. /\ transfer.pc = "files" /\ a \in DOMAIN File.attachments /\ DOMAIN File.attachments \subseteq AllIds
      /\ EntitiesInv /\ EdgesInv /\ FilesInv /\ LeftInv /\ UNCHANGED original
  BY ImportParts DEF CreateAttachment, LeftInv
<1>a. /\ DOMAIN transfer.entityMap = DOMAIN File.entities
      /\ \A e \in DOMAIN File.entities : transfer.entityMap[e] = NewId(e)
  BY <1>0 DEF EntitiesInv, Importing
<1>1. CASE a \in Owned
  <2> DEFINE owner == transfer.entityMap[File.attachments[a]]
             attachments == [i \in (DOMAIN copy.attachments) \cup {id} |->
                               IF i = id THEN owner ELSE copy.attachments[i]]
             attachmentMap == [i \in (DOMAIN transfer.attachmentMap) \cup {a} |->
                                 IF i = a THEN id ELSE transfer.attachmentMap[i]]
  <2>0. File.attachments[a] \in DOMAIN transfer.entityMap
    BY <1>1, <1>a DEF Owned
  <2>1. Creates(copy.entities, copy.edges, attachments, copy.templates)
    <3>1. copy' = [copy EXCEPT !.attachments = attachments]
      BY <2>0 DEF CreateAttachment
    <3> HIDE DEF attachments
    <3> QED BY <3>1 DEF TransferInv, TransferShaped, Creates
  <2>2. Moves("files", File, rest, transfer.entityMap, attachmentMap, transfer.suspect)
    <3>1. transfer' = [transfer EXCEPT !.left = rest, !.attachmentMap = attachmentMap]
      BY <2>0 DEF CreateAttachment
    <3>2. transfer.pc = "files"
      BY <1>0
    <3> HIDE DEF rest, attachmentMap
    <3> QED BY <3>1, <3>2 DEF TransferInv, TransferShaped, Moves, File
  <2>3. TransferShaped' /\ ExportInv' /\ File' = File /\ Owned' = Owned
    <3> HIDE DEF rest, attachments, attachmentMap
    <3> QED BY <1>0, <2>1, <2>2, ImportFrame DEF Importing
  <2>4. EntitiesInv' /\ EdgesInv' /\ TextsInv' /\ LeftInv'
    <3> HIDE DEF attachments, attachmentMap
    <3> QED BY <1>0, <2>1, <2>2, <2>3 DEF EntitiesInv, EdgesInv, TextsInv, LeftInv, Moves, Creates
  <2>5. FilesInv'
    <3> DEFINE Of(i) == NewId(File.attachments[Old(i[2])])
               done == DOMAIN transfer.attachmentMap
    <3>1. id = NewId(a) /\ Old(id[2]) = a /\ owner = Of(id)
      BY <1>0, <1>1, <1>a, OldIds DEF NewId, Owned
    <3>2. Owned \ rest = (Owned \ transfer.left) \cup {a} /\ done = Owned \ transfer.left
      BY <1>0, <1>1 DEF FilesInv
    <3>3. /\ DOMAIN attachmentMap = done \cup {a}
          /\ \A b \in done \cup {a} : attachmentMap[b] = NewId(b)
      BY <1>0, <3>1 DEF FilesInv
    <3>4. copy.attachments = [i \in {NewId(b) : b \in done} |-> Of(i)]
      BY <1>0 DEF FilesInv
    <3>5. {NewId(b) : b \in done} \cup {id} = {NewId(b) : b \in done \cup {a}}
      BY <3>1
    <3> HIDE DEF Of, id, owner, done, attachmentMap
    <3>6. attachments = [i \in {NewId(b) : b \in done \cup {a}} |-> Of(i)]
      BY <3>1, <3>4, <3>5
    <3>7. /\ transfer'.pc = "files" /\ transfer'.left = rest /\ transfer'.attachmentMap = attachmentMap
          /\ copy'.attachments = attachments
      <4> HIDE DEF rest, attachments
      <4> QED BY <2>1, <2>2 DEF Moves, Creates
    <3> HIDE DEF rest, attachments
    <3> QED BY <2>3, <3>2, <3>3, <3>6, <3>7 DEF FilesInv, Of
  <2> QED BY <2>3, <2>4, <2>5 DEF TransferInv, ImportInv
<1>2. CASE a \notin Owned
  <2>0. File.attachments[a] \notin DOMAIN transfer.entityMap
    BY <1>0, <1>2, <1>a DEF Owned
  <2>1. Creates(copy.entities, copy.edges, copy.attachments, copy.templates)
    BY <2>0 DEF CreateAttachment, TransferInv, TransferShaped, Creates
  <2>2. Moves("files", File, rest, transfer.entityMap, transfer.attachmentMap, transfer.suspect)
    <3>1. transfer' = [transfer EXCEPT !.left = rest]
      BY <2>0 DEF CreateAttachment
    <3>2. transfer.pc = "files"
      BY <1>0
    <3> HIDE DEF rest
    <3> QED BY <3>1, <3>2 DEF TransferInv, TransferShaped, Moves, File
  <2>3. TransferShaped' /\ ExportInv' /\ File' = File /\ Owned' = Owned
    <3> HIDE DEF rest
    <3> QED BY <1>0, <2>1, <2>2, ImportFrame DEF Importing
  <2>4. EntitiesInv' /\ EdgesInv' /\ TextsInv' /\ LeftInv'
    BY <1>0, <2>1, <2>2, <2>3 DEF EntitiesInv, EdgesInv, TextsInv, LeftInv, Moves, Creates
  <2>5. FilesInv'
    <3>1. Owned \ rest = Owned \ transfer.left
      BY <1>2
    <3> QED BY <1>0, <2>1, <2>2, <2>3, <3>1 DEF FilesInv, Moves, Creates
  <2> QED BY <2>3, <2>4, <2>5 DEF TransferInv, ImportInv
<1> QED BY <1>1, <1>2

LEMMA FilesCreatedStep ==
  ASSUME TransferInv, FilesCreated
  PROVE  TransferInv'
<1>0. transfer.pc = "files" /\ transfer.left = {} /\ EntitiesInv /\ EdgesInv /\ FilesInv
  BY ImportParts DEF FilesCreated
<1>1. Creates(copy.entities, copy.edges, copy.attachments, copy.templates)
  BY DEF FilesCreated, TransferInv, TransferShaped, Creates
<1>2. Moves("texts", File, DOMAIN File.entities, transfer.entityMap, transfer.attachmentMap, transfer.suspect)
  <2> DEFINE rest == DOMAIN File.entities
  <2>1. transfer' = [transfer EXCEPT !.pc = "texts", !.left = rest]
    BY DEF FilesCreated
  <2> HIDE DEF rest
  <2>2. Moves("texts", File, rest, transfer.entityMap, transfer.attachmentMap, transfer.suspect)
    BY <2>1 DEF TransferInv, TransferShaped, Moves, File
  <2> QED BY <2>2 DEF rest
<1>3. TransferShaped' /\ ExportInv' /\ File' = File /\ Owned' = Owned
  BY <1>0, <1>1, <1>2, ImportFrame DEF FilesCreated, Importing
<1>4. EntitiesInv'
  BY <1>0, <1>1, <1>2, <1>3 DEF EntitiesInv, Moves, Creates, Importing
<1>5. EdgesInv' /\ TextsInv' /\ LeftInv'
  BY <1>0, <1>1, <1>2, <1>3 DEF EdgesInv, TextsInv, LeftInv, Moves, Creates
<1>6. FilesInv'
  BY <1>0, <1>1, <1>2, <1>3 DEF FilesInv, Moves, Creates
<1> QED BY <1>3, <1>4, <1>5, <1>6 DEF TransferInv, ImportInv

(* What an update writes depends on the file and on the maps of its ids.    *)
LEMMA SameUpdate ==
  ASSUME File' = File, transfer'.entityMap = transfer.entityMap,
         transfer'.attachmentMap = transfer.attachmentMap
  PROVE  \A e : UpdateEntity(e)' = UpdateEntity(e)
BY DEF UpdateEntity, Rewritten, Mapped, MappedTemplate

LEMMA FinishEntityStep ==
  ASSUME TransferInv, NEW e \in transfer.left, FinishEntity(e)
  PROVE  TransferInv'
<1> DEFINE rest == transfer.left \ {e}
           entities == [copy.entities EXCEPT ![transfer.entityMap[e]] = UpdateEntity(e)]
<1>0. /\ transfer.pc = "texts" /\ e \in DOMAIN File.entities /\ DOMAIN File.entities \subseteq AllIds
      /\ EntitiesInv /\ EdgesInv /\ FilesInv /\ TextsInv /\ LeftInv /\ UNCHANGED original
  BY ImportParts DEF FinishEntity, LeftInv
<1>a. /\ transfer.entityMap[e] = NewId(e)
      /\ DOMAIN copy.entities = {NewId(f) : f \in DOMAIN File.entities}
  BY <1>0 DEF EntitiesInv, Importing
<1>1. Creates(entities, copy.edges, copy.attachments, copy.templates)
  <2>1. copy' = [copy EXCEPT !.entities = entities]
    BY DEF FinishEntity
  <2> HIDE DEF entities
  <2> QED BY <2>1 DEF TransferInv, TransferShaped, Creates
<1>2. Moves("texts", File, rest, transfer.entityMap, transfer.attachmentMap, transfer.suspect)
  <2>1. transfer' = [transfer EXCEPT !.left = rest]
    BY DEF FinishEntity
  <2>2. transfer.pc = "texts"
    BY <1>0
  <2> HIDE DEF rest
  <2> QED BY <2>1, <2>2 DEF TransferInv, TransferShaped, Moves, File
<1>3. TransferShaped' /\ ExportInv' /\ File' = File /\ Owned' = Owned
  <2> HIDE DEF rest, entities
  <2> QED BY <1>0, <1>1, <1>2, ImportFrame DEF Importing
<1>4. /\ DOMAIN entities = DOMAIN copy.entities /\ entities[NewId(e)] = UpdateEntity(e)
      /\ \A f \in DOMAIN File.entities \ {e} : entities[NewId(f)] = copy.entities[NewId(f)]
  BY <1>0, <1>a, OldIds
<1> HIDE DEF entities
<1>5. EntitiesInv' /\ EdgesInv' /\ FilesInv' /\ LeftInv'
  BY <1>0, <1>1, <1>2, <1>3, <1>4 DEF EntitiesInv, EdgesInv, FilesInv, LeftInv, Moves, Creates, Importing
<1>6. TextsInv'
  <2>1. \A f : UpdateEntity(f)' = UpdateEntity(f)
    BY <1>2, <1>3, SameUpdate DEF Moves
  <2>2. \A f \in DOMAIN File.entities \ rest : entities[NewId(f)] = UpdateEntity(f)
    BY <1>0, <1>4 DEF TextsInv
  <2>3. transfer'.pc = "texts" /\ transfer'.left = rest /\ copy'.entities = entities
    BY <1>1, <1>2 DEF Moves, Creates
  <2> HIDE DEF rest
  <2> QED BY <1>3, <2>1, <2>2, <2>3 DEF TextsInv
<1> QED BY <1>3, <1>5, <1>6 DEF TransferInv, ImportInv

LEMMA ImportEndsStep ==
  ASSUME TransferInv, ImportEnds
  PROVE  TransferInv'
<1>0. transfer.pc = "texts" /\ transfer.left = {} /\ EntitiesInv /\ EdgesInv /\ FilesInv /\ TextsInv
  BY ImportParts DEF ImportEnds
<1>1. Creates(copy.entities, copy.edges, copy.attachments, copy.templates)
  BY DEF ImportEnds, TransferInv, TransferShaped, Creates
<1>2. Moves("done", File, transfer.left, transfer.entityMap, transfer.attachmentMap, transfer.suspect)
  BY DEF ImportEnds, TransferInv, TransferShaped, Moves, File
<1>3. TransferShaped' /\ ExportInv' /\ File' = File /\ Owned' = Owned
  BY <1>0, <1>1, <1>2, ImportFrame DEF ImportEnds, Importing
<1>4. EntitiesInv' /\ EdgesInv' /\ FilesInv' /\ LeftInv'
  BY <1>0, <1>1, <1>2, <1>3 DEF EntitiesInv, EdgesInv, FilesInv, LeftInv, Moves, Creates, Importing
<1>5. TextsInv'
  <2>1. \A f : UpdateEntity(f)' = UpdateEntity(f)
    BY <1>2, <1>3, SameUpdate DEF Moves
  <2> QED BY <1>0, <1>1, <1>2, <1>3, <2>1 DEF TextsInv, Moves, Creates
<1> QED BY <1>3, <1>4, <1>5 DEF TransferInv, ImportInv

-----------------------------------------------------------------------------
LEMMA TransferStep == TransferInv /\ [TransferNext]_transfers => TransferInv'
<1> SUFFICES ASSUME TransferInv, [TransferNext]_transfers PROVE TransferInv'
  OBVIOUS
<1>1. CASE UNCHANGED transfers
  <2>1. original' = original /\ transfer' = transfer /\ copy' = copy
    BY <1>1 DEF transfers
  <2>2. TransferShaped' /\ ExportInv'
    BY <2>1 DEF TransferInv, TransferShaped, ExportInv, File
  <2> QED BY <2>1, <2>2, SameImport DEF TransferInv, File
<1>2. CASE TransferNext
  BY <1>2, CreateLinkedStep, RemoveEntityStep, ReadEntitiesStep, ReadEdgesStep, ReadTemplatesStep,
     FileIsWrittenStep, ReadAttachmentsStep, DeletedBeforeReadStep, RefuseFileStep, CreateProjectStep,
     ImportEntityStep, EntitiesCreatedStep, CreateEdgeStep, EdgesCreatedStep, CreateAttachmentStep,
     FilesCreatedStep, FinishEntityStep, ImportEndsStep DEF TransferNext
<1> QED BY <1>1, <1>2

(* An import that ends has created the world of its file, under new ids,    *)
(* with every reference leading to the copy of what it led to; and a        *)
(* transfer fails only if the project changed while it was exported or if   *)
(* no export wrote the file (services/project_transfer.py).                *)
THEOREM Rebuilt == TransferSpec => []WorldIsRebuilt
BY InitTransfer, TransferStep, DoneIsRebuilt, PTL DEF TransferSpec
=============================================================================
