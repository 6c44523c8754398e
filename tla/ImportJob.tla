------------------------------ MODULE ImportJob ------------------------------
(***************************************************************************)
(* Bulk imports into one project: the job rows, the checkpoint of each     *)
(* job's graph, the requests that start an import or decide a page, and    *)
(* the part of the canon they write.                                       *)
(*                                                                         *)
(* A job is named by the request that started it.  A request's turn loads  *)
(* the job's checkpoint, works on its own copy (mem) and saves one after   *)
(* every node; every action is one piece between two awaits.  A turn ends  *)
(* by an interrupt at the review of a page, at the end of the graph, in an *)
(* exception, or nowhere (the client leaves at a yield, the process dies). *)
(***************************************************************************)
EXTENDS ImportMerge

CONSTANTS
  Imports,    \* requests that start an import
  Decisions,  \* requests that decide a page
  Documents,  \* what the windows of a source hold
  PAGE,       \* REVIEW_SLICE_SIZE
  MaxActive,  \* requests in flight at once
  MaxFaults   \* turns lost with their client, crashes, and imported entities
              \* the game master deletes meanwhile

ASSUME PageAssumption == PAGE \in Nat \ {0}

ASSUME RequestsAssumption == Imports \cap Decisions = {}

VARIABLES
  job,      \* row of each job
  ckpt,     \* latest checkpoint of each job's graph
  pc,       \* where each request is
  ask,      \* the document of an import, the job, page and content decided
  mem,      \* each turn's copy of the graph state
  batch,    \* entities the page being committed has created so far
  canon,    \* imported entities in the world
  edges,    \* imported relationships in the world
  (* History *)
  decided,  \* decisions taken at the gate
  overlap,  \* jobs that have had two turns at once
  cut,      \* entities whose turn was cut off while it wrote its page
  left,     \* turns lost with their client or process
  deleted   \* entities the game master deleted

vars == <<job, ckpt, pc, ask, mem, batch, canon, edges, decided, overlap,
          cut, left, deleted>>

world == <<canon, edges, decided, cut, deleted>>
-----------------------------------------------------------------------------
Requests == Imports \cup Decisions

JobOf(r) == IF r \in Imports THEN r ELSE ask[r].job

(* "planning" is the status a row is created with; no code writes the       *)
(* status "committing".                                                     *)
ActiveStatuses == {"planning", "extracting", "awaiting_review", "committing"}

Statuses == ActiveStatuses \cup {"absent", "committed", "failed"}

Nodes == {"plan_windows", "build_registry", "extract_windows",
          "merge_extractions", "paginate_review", "review_slice",
          "commit_slice", "advance_slice", "commit_relationships", "END"}

(* The graph state: kept and links are the outcome of the merge, pages the  *)
(* new entities of each page, ids the rows they became.                     *)
Fresh ==
  [node |-> "plan_windows", interrupted |-> FALSE, writer |-> None,
   registry |-> <<>>, drafts |-> {}, kept |-> <<>>, links |-> <<>>,
   pages |-> <<>>, page |-> 1, action |-> "none", ids |-> <<>>,
   committed |-> {}]

NoRow == [status |-> "absent", review |-> {}, committed |-> {}]

NoAsk == [job |-> None, action |-> "none", content |-> None]

Working == {"resuming", "turn", "writing"}

(* From the stream's first step to its end, which comes after the last      *)
(* checkpoint: the ceiling and the handlers enclose it all.                 *)
InStream == Working \cup {"starting", "finalizing"}
Serving == InStream \cup {"reconciled"}
Active == Serving \cup {"guarded", "created", "posted", "checked"}

TypeOK ==
  /\ \A j \in Imports :
       /\ job[j].status \in Statuses
       /\ job[j].review \subseteq Nat
       /\ job[j].committed \subseteq [job : {j}, ref : Nat, by : Requests,
                                      title : STRING]
       /\ ckpt[j].node \in Nodes
       /\ ckpt[j].page \in 1 .. Len(ckpt[j].pages) + 1
  /\ pc \in [Requests -> {"new", "ended", "refused", "lost"} \cup Active]
  /\ \A r \in Requests : batch[r] # {} => pc[r] = "writing"
  /\ \A e \in edges : {e.source, e.target} \subseteq canon

Init ==
  /\ job = [j \in Imports |-> NoRow]
  /\ ckpt = [j \in Imports |-> Fresh]
  /\ pc = [r \in Requests |-> "new"]
  /\ ask = [r \in Requests |-> NoAsk]
  /\ mem = [r \in Requests |-> Fresh]
  /\ batch = [r \in Requests |-> {}]
  /\ canon = {} /\ edges = {} /\ decided = {}
  /\ overlap = {} /\ cut = {} /\ left = {} /\ deleted = {}
-----------------------------------------------------------------------------
(* Starting an import, deciding a page *)

Goto(r, label) == pc' = [pc EXCEPT ![r] = label]

(* A request is over; its turn's own state goes with it. *)
Leave(r, label) ==
  /\ Goto(r, label)
  /\ ask' = IF r \in Decisions /\ label # "lost"
            THEN [ask EXCEPT ![r] = NoAsk] ELSE ask
  /\ mem' = [mem EXCEPT ![r] = Fresh]
  /\ batch' = [batch EXCEPT ![r] = {}]

InFlight == {r \in Requests : pc[r] \in Active}

ActiveJobs == {j \in Imports : job[j].status \in ActiveStatuses}

(* The guard of both ways to start: no other job of the project is active.  *)
StartGuard(s) ==
  /\ pc[s] = "new"
  /\ Cardinality(InFlight) < MaxActive
  /\ \E d \in Documents : ask' = [ask EXCEPT ![s] = d]
  /\ Goto(s, IF ActiveJobs = {} THEN "guarded" ELSE "refused")
  /\ UNCHANGED <<job, ckpt, mem, batch, overlap, left, world>>

CreateJob(s) ==
  /\ pc[s] = "guarded"
  /\ job' = [job EXCEPT ![s].status = "planning"]
  /\ Goto(s, "created")
  /\ UNCHANGED <<ckpt, ask, mem, batch, overlap, left, world>>

(* The game master decides the page the job row shows, as it is or edited.  *)
PostDecision(d) ==
  /\ pc[d] = "new"
  /\ Cardinality(InFlight) < MaxActive
  /\ \E j \in Imports :
       /\ job[j].status = "awaiting_review"
       /\ \E action \in {"approve", "reject", "approve_all"},
             content \in {None} \cup SUBSET job[j].review :
            /\ action = "reject" \/ content = job[j].review
                 => content = None
            /\ ask' = [ask EXCEPT ![d] = [job |-> j, action |-> action,
                                          content |-> content]]
  /\ Goto(d, "posted")
  /\ UNCHANGED <<job, ckpt, mem, batch, overlap, left, world>>

(* The router asks only that the job exists; the runner reads its status.   *)
CheckReview(d) ==
  /\ pc[d] = "posted"
  /\ IF job[ask[d].job].status = "awaiting_review"
     THEN Goto(d, "checked") /\ UNCHANGED <<ask, mem, batch>>
     ELSE Leave(d, "refused")
  /\ UNCHANGED <<job, ckpt, overlap, left, world>>

BeginTurn(r) ==
  LET j == JobOf(r)
  IN  /\ pc[r] \in {"created", "checked"}
      /\ job' = [job EXCEPT ![j].status = "extracting"]
      /\ overlap' = overlap \cup
           {k \in {j} : \E q \in InFlight \ {r} :
                          pc[q] \in Serving /\ JobOf(q) = j}
      /\ Goto(r, "starting")
      /\ UNCHANGED <<ckpt, ask, mem, batch, left, world>>

(* A new thread starts at the first node; a resumed one where it stopped.   *)
LoadThread(r) ==
  LET v == [IF r \in Imports THEN Fresh ELSE ckpt[JobOf(r)]
              EXCEPT !.interrupted = FALSE]
  IN  /\ pc[r] = "starting"
      /\ mem' = [mem EXCEPT ![r] = v]
      /\ Goto(r, IF r \in Imports THEN "turn"
                 ELSE IF v.node = "END" THEN "finalizing" ELSE "resuming")
      /\ UNCHANGED <<job, ckpt, ask, batch, overlap, left, world>>
-----------------------------------------------------------------------------
(* The nodes of the graph *)

At(r, n) == pc[r] \in {"resuming", "turn"} /\ mem[r].node = n

(* A node returned: its update is merged and saved.  *)
Superstep(r, v) ==
  /\ mem' = [mem EXCEPT ![r] = v]
  /\ ckpt' = [ckpt EXCEPT ![JobOf(r)] = [v EXCEPT !.writer = r]]
  /\ Goto(r, IF v.node = "END" THEN "finalizing" ELSE "turn")
  /\ UNCHANGED <<job, ask, overlap, left>>

NoWrite == UNCHANGED <<batch, world>>

Windows(r) == DOMAIN ask[JobOf(r)].windows

PlanWindows(r) ==
  /\ At(r, "plan_windows")
  /\ Superstep(r, [mem[r] EXCEPT !.node = "build_registry"])
  /\ NoWrite

(* A window whose generation fails has no entries; the job goes on.         *)
RegistryPass(r, ok) ==
  [w \in Windows(r) |->
     IF w \in ok THEN ask[JobOf(r)].windows[w].registry ELSE <<>>]

CanonSeq == SetToSeq({[id |-> x, title |-> x.title] : x \in canon})

(* What the windows named is merged in the order in which they answered.    *)
BuildRegistryNode(r) ==
  /\ At(r, "build_registry")
  /\ \E ok \in SUBSET Windows(r), order \in SetToSeqs(Windows(r)) :
       LET pass == RegistryPass(r, ok)
           drafts == [i \in DOMAIN order |-> pass[order[i]]]
       IN  Superstep(r, [mem[r] EXCEPT !.node = "extract_windows",
                           !.registry = BuildRegistry(drafts, CanonSeq)])
  /\ NoWrite

ExtractWindows(r) ==
  /\ At(r, "extract_windows")
  /\ \E ok \in SUBSET Windows(r) :
       Superstep(r, [mem[r] EXCEPT !.node = "merge_extractions",
                                   !.drafts = ok])
  /\ NoWrite

(* What the windows that succeeded extracted, in window order. *)
Extracted(r, part(_)) ==
  FlattenSeq([w \in Windows(r) |->
                IF w \in mem[r].drafts THEN part(ask[JobOf(r)].windows[w])
                                       ELSE <<>>])

(* Neither the registry nor the extractions are read again. *)
MergeExtractionsNode(r) ==
  LET merged == MergeExtractions(Extracted(r, LAMBDA w : w.entities),
                                 Extracted(r, LAMBDA w : w.relationships),
                                 mem[r].registry, CanonSeq)
  IN  /\ At(r, "merge_extractions")
      /\ Superstep(r, [mem[r] EXCEPT !.node = "paginate_review",
                                     !.kept = merged.kept,
                                     !.links = merged.links,
                                     !.registry = <<>>, !.drafts = {}])
      /\ NoWrite

(* New entity number k has the ref m(k-1), hence pages of numbers from 0;   *)
(* with nothing to review there is one empty page.                          *)
PageOf(k) == k \div PAGE + 1

Pages(n) ==
  [p \in {1} \cup {PageOf(k) : k \in 0 .. n - 1} |->
     {k \in 0 .. n - 1 : PageOf(k) = p}]

PaginateReview(r) ==
  /\ At(r, "paginate_review")
  /\ Superstep(r, [mem[r] EXCEPT !.node = "review_slice", !.page = 1,
                                 !.pages = Pages(Len(mem[r].kept))])
  /\ NoWrite

(* The gate: the run stops.  The interrupt is stored with the checkpoint    *)
(* this turn saved last.                                                    *)
Interrupt(r) ==
  LET j == JobOf(r)
  IN  /\ pc[r] = "turn"
      /\ mem[r].node = "review_slice"
      /\ ckpt' = [ckpt EXCEPT ![j].interrupted = @ \/ ckpt[j].writer = r]
      /\ Goto(r, "finalizing")
      /\ UNCHANGED <<job, ask, mem, overlap, left>>
      /\ NoWrite

RouteAfterSliceReview(action) ==
  IF action \in {"approve", "approve_all"} THEN "commit_slice"
                                           ELSE "advance_slice"

(* The gate, resumed: edited content replaces the page the thread is at.    *)
ReviewSlice(r) ==
  LET a == ask[r]
      v == mem[r]
      content == IF a.content = None THEN v.pages[v.page] ELSE a.content
  IN  /\ pc[r] = "resuming"
      /\ v.node = "review_slice"
      /\ Superstep(r, [v EXCEPT !.action = a.action,
                                !.pages[v.page] = content,
                                !.node = RouteAfterSliceReview(a.action)])
      /\ decided' = decided \cup
           {[job |-> a.job, action |-> a.action, page |-> v.page,
             content |-> content]}
      /\ UNCHANGED <<batch, canon, edges, cut, deleted>>

Unwritten(r) ==
  {k \in mem[r].pages[mem[r].page] : \A x \in batch[r] : x.ref # k}

NewEntity(r) ==
  [job |-> JobOf(r), ref |-> Min(Unwritten(r)), by |-> r,
   title |-> mem[r].kept[Min(Unwritten(r)) + 1]]

(* Entities are created, and committed to the database, one by one. *)
CreateEntity(r) ==
  /\ At(r, "commit_slice") \/ pc[r] = "writing"
  /\ Unwritten(r) # {}
  /\ canon' = canon \cup {NewEntity(r)}
  /\ batch' = [batch EXCEPT ![r] = @ \cup {NewEntity(r)}]
  /\ Goto(r, "writing")
  /\ UNCHANGED <<job, ckpt, ask, mem, overlap, left, edges, decided, cut,
                 deleted>>

(* Variant, to test LinksAreWritten: the ids of the pages before are lost.   *)
CommitSlice_OwnIds(r) ==
  LET new == batch[r]
      v == mem[r]
  IN  /\ At(r, "commit_slice") \/ pc[r] = "writing"
      /\ Unwritten(r) = {}
      /\ Superstep(r,
           [v EXCEPT !.node = "advance_slice",
                     !.committed = @ \cup new,
                     !.ids = [k \in {x.ref : x \in new} |->
                                CHOOSE x \in new : x.ref = k]])
      /\ batch' = [batch EXCEPT ![r] = {}]
      /\ UNCHANGED world

(* The page is done: its ids join those of the pages before it. *)
CommitSlice(r) ==
  LET new == batch[r]
      refs == {x.ref : x \in new}
      v == mem[r]
  IN  /\ At(r, "commit_slice") \/ pc[r] = "writing"
      /\ Unwritten(r) = {}
      /\ Superstep(r,
           [v EXCEPT !.node = "advance_slice",
                     !.committed = @ \cup new,
                     !.ids = [k \in DOMAIN v.ids \cup refs |->
                                IF k \in refs
                                THEN CHOOSE x \in new : x.ref = k
                                ELSE v.ids[k]]])
      /\ batch' = [batch EXCEPT ![r] = {}]
      /\ UNCHANGED world

(* Variant, to test OnlyDecidedPages: one approval stands for all.           *)
RouteAfterAdvance_AnyApproval(v) ==
  IF v.page \notin DOMAIN v.pages THEN "commit_relationships"
  ELSE IF v.action \in {"approve", "approve_all"} THEN "commit_slice"
  ELSE "review_slice"

RouteAfterAdvance(v) ==
  IF v.page \notin DOMAIN v.pages THEN "commit_relationships"
  ELSE IF v.action = "approve_all" THEN "commit_slice"
  ELSE "review_slice"

AdvanceSlice(r) ==
  LET v == [mem[r] EXCEPT !.page = @ + 1]
  IN  /\ At(r, "advance_slice")
      /\ Superstep(r, [v EXCEPT !.node = RouteAfterAdvance(v)])
      /\ NoWrite

(* The row at an end of a link; a ref no page committed is passed on as it  *)
(* is, and is no entity's id.                                               *)
End(v, final) ==
  IF final[1] = "id" THEN final[2]
  ELSE IF final[2] \in DOMAIN v.ids THEN v.ids[final[2]] ELSE None

(* An edge needs both its ends; without them it is given up with a warning. *)
EdgesOf(v, links) ==
  {e \in {[source |-> End(v, l[1]), target |-> End(v, l[2])] : l \in links} :
     {e.source, e.target} \subseteq canon}

(* They are written one after the other, and the turn may end among them.   *)
WriteEdges(r) ==
  /\ At(r, "commit_relationships")
  /\ \E i \in DOMAIN mem[r].links :
       edges' = edges \cup EdgesOf(mem[r], ToSet(SubSeq(mem[r].links, 1, i)))
  /\ UNCHANGED <<job, ckpt, pc, ask, mem, batch, canon, decided, overlap,
                 cut, left, deleted>>

CommitRelationships(r) ==
  /\ At(r, "commit_relationships")
  /\ edges' = edges \cup EdgesOf(mem[r], ToSet(mem[r].links))
  /\ Superstep(r, [mem[r] EXCEPT !.node = "END"])
  /\ UNCHANGED <<batch, canon, decided, cut, deleted>>
-----------------------------------------------------------------------------
(* The end of a turn *)

(* The first of the two reads of _finalize. *)
ReadState(r) ==
  /\ pc[r] = "finalizing"
  /\ mem' = [mem EXCEPT ![r] = ckpt[JobOf(r)]]
  /\ Goto(r, "reconciled")
  /\ UNCHANGED <<job, ckpt, ask, batch, overlap, left, world>>

(* The second read finds an interrupt or not. *)
Finalize(r) ==
  LET j == JobOf(r)
      v == mem[r]
  IN  /\ pc[r] = "reconciled"
      /\ IF ckpt[j].interrupted
         THEN /\ v.page \in DOMAIN v.pages
              /\ job' = [job EXCEPT ![j] = [status |-> "awaiting_review",
                                            review |-> v.pages[v.page],
                                            committed |-> v.committed]]
         ELSE job' = [job EXCEPT ![j] = [status |-> "committed",
                                         review |-> {},
                                         committed |-> v.committed]]
      /\ Leave(r, "ended")
      /\ UNCHANGED <<ckpt, overlap, left, world>>

(* Overlapping turns: the state was read past the last page and the         *)
(* interrupt of another turn is found.  The payload cannot be built, and no *)
(* handler encloses this.                                                   *)
FinalizeRaises(r) ==
  /\ pc[r] = "reconciled"
  /\ ckpt[JobOf(r)].interrupted
  /\ mem[r].page \notin DOMAIN mem[r].pages
  /\ Leave(r, "lost")
  /\ left' = left \cup {r}
  /\ UNCHANGED <<job, ckpt, overlap, world>>

(* Variant, to test JobsTellTheTruth: what the page created stays.           *)
RollbackCreated_Skipped(r) == canon

(* The compensation deletes the entities the page has created so far. *)
RollbackCreated(r) == canon \ batch[r]

Remaining(kept) == {e \in edges : {e.source, e.target} \subseteq kept}

(* Variant, to test JobSettles: the handlers leave the row alone.            *)
Fail_LeavesStatus(r, rows) ==
  /\ canon' = rows
  /\ edges' = Remaining(rows)
  /\ Leave(r, "ended")
  /\ UNCHANGED <<job, ckpt, overlap, left, decided, deleted>>

(* A node raises or is cancelled: commit_slice compensates, the handlers of *)
(* the runner set the job failed, and the checkpoint stays where it was.    *)
(* So does a stream that fails after its last checkpoint.                   *)
Fail(r, rows) ==
  /\ canon' = rows
  /\ edges' = Remaining(rows)
  /\ job' = [job EXCEPT ![JobOf(r)].status = "failed"]
  /\ Leave(r, "ended")
  /\ UNCHANGED <<ckpt, overlap, left, decided, deleted>>

NodeError(r) ==
  /\ pc[r] \in InStream
  /\ Fail(r, RollbackCreated(r))
  /\ UNCHANGED cut

(* The wall-clock ceiling, or the client going away while the turn waits.   *)
(* Cut off between the commit of a row and its indexing, that row is not    *)
(* among those the compensation knows.                                      *)
Cancelled(r) ==
  \/ NodeError(r)
  \/ /\ pc[r] = "writing" \/ At(r, "commit_slice")
     /\ Unwritten(r) # {}
     /\ Fail(r, RollbackCreated(r) \cup {NewEntity(r)})
     /\ cut' = cut \cup {NewEntity(r)}

Faults == Cardinality(left) + Cardinality(deleted)

(* The client leaves while its stream is suspended at a yield, or anywhere  *)
(* else outside the handlers; or the handler's own update is cancelled.     *)
Abandon(r) ==
  /\ pc[r] \in Active
  /\ Faults < MaxFaults
  /\ left' = left \cup {r}
  /\ cut' = cut \cup batch[r]
  /\ Leave(r, "lost")
  /\ UNCHANGED <<job, ckpt, overlap, canon, edges, decided, deleted>>

(* The process dies; nothing at startup looks at jobs. *)
Crash ==
  /\ InFlight # {}
  /\ Faults < MaxFaults
  /\ left' = left \cup InFlight
  /\ cut' = cut \cup UNION {batch[r] : r \in Requests}
  /\ pc' = [r \in Requests |-> IF r \in InFlight THEN "lost" ELSE pc[r]]
  /\ mem' = [r \in Requests |-> Fresh]
  /\ batch' = [r \in Requests |-> {}]
  /\ UNCHANGED <<job, ckpt, ask, overlap, canon, edges, decided, deleted>>

(* The game master deletes an imported entity, and with it its edges.       *)
DeleteEntity ==
  /\ Faults < MaxFaults
  /\ \E x \in canon :
       /\ canon' = canon \ {x}
       /\ edges' = Remaining(canon \ {x})
       /\ deleted' = deleted \cup {x}
  /\ UNCHANGED <<job, ckpt, pc, ask, mem, batch, overlap, left, decided, cut>>

Quiet ==
  /\ \A r \in Requests :
       \/ pc[r] \in {"ended", "refused", "lost"}
       \/ /\ r \in Decisions /\ pc[r] = "new"
          /\ \A j \in Imports : job[j].status # "awaiting_review"
  /\ UNCHANGED vars
-----------------------------------------------------------------------------
GraphStep(r) ==
  \/ PlanWindows(r) \/ BuildRegistryNode(r) \/ ExtractWindows(r)
  \/ MergeExtractionsNode(r) \/ PaginateReview(r) \/ Interrupt(r)
  \/ ReviewSlice(r) \/ CreateEntity(r) \/ CommitSlice(r)
  \/ AdvanceSlice(r) \/ WriteEdges(r) \/ CommitRelationships(r)

RunnerStep(r) ==
  \/ BeginTurn(r) \/ LoadThread(r) \/ ReadState(r) \/ Finalize(r)
  \/ FinalizeRaises(r)

Next ==
  \/ \E s \in Imports : StartGuard(s) \/ CreateJob(s)
  \/ \E d \in Decisions : PostDecision(d) \/ CheckReview(d)
  \/ \E r \in Requests :
       RunnerStep(r) \/ GraphStep(r) \/ NodeError(r) \/ Cancelled(r)
         \/ Abandon(r)
  \/ Crash
  \/ DeleteEntity
  \/ Quiet

Spec == Init /\ [][Next]_vars

(* The event loop runs what is ready, and the ceiling on a turn is reached  *)
(* if the graph run does not end before.                                    *)
FairSpec ==
  /\ Spec
  /\ \A r \in Requests : WF_vars(RunnerStep(r)) /\ WF_vars(Cancelled(r))
-----------------------------------------------------------------------------
(* Properties *)

(* The human gate of an import: an entity is in canon only if the page it   *)
(* came from was approved as the game master left it, or follows a page     *)
(* approved together with all that remain, however decisions overlap        *)
(* (review_slice, route_after_slice_review, route_after_advance).           *)
OnlyDecidedPages ==
  \A x \in canon : \E d \in decided :
    /\ d.job = x.job
    /\ \/ d.action \in {"approve", "approve_all"} /\ x.ref \in d.content
       \/ d.action = "approve_all" /\ PageOf(x.ref) > d.page

(* The turns of a job did not overlap. *)
Orderly(j) == j \notin overlap

Busy(j) == \E r \in InFlight : JobOf(r) = j /\ pc[r] \in Serving

(* A page is written whole or not at all: when no turn is running, whatever *)
(* a job has in canon is known to its checkpoint, however its turns ended,  *)
(* except what a client or process that went away left half done            *)
(* (commit_slice and _rollback_created).                                    *)
PagesAreWhole ==
  \A j \in Imports : Orderly(j) /\ ~Busy(j) =>
    {x \in canon : x.job = j} \subseteq ckpt[j].committed \cup cut

(* Between turns the row shows what the thread waits for: a job awaiting    *)
(* review shows the page its graph stopped at, a committed one has resolved *)
(* every page, and either lists what it committed (_finalize).              *)
RowMatchesThread ==
  \A j \in Imports : Orderly(j) /\ ~Busy(j) =>
    /\ job[j].status = "awaiting_review" =>
         ckpt[j].interrupted /\ job[j].review = ckpt[j].pages[ckpt[j].page]
    /\ job[j].status = "committed" => ckpt[j].node = "END"
    /\ job[j].status \in {"awaiting_review", "committed"} =>
         job[j].committed = ckpt[j].committed

(* What the game master is shown of a job is what its thread holds, and     *)
(* what its thread holds is what it left in the world, whichever pages      *)
(* fail, are skipped, or are cut short.                                     *)
JobsTellTheTruth == RowMatchesThread /\ PagesAreWhole

(* No entity was approved on two pages.  A decision may carry content that  *)
(* was edited for an earlier page: it is applied to the page the thread is  *)
(* at by then, whose own entities are never written.                        *)
ApprovedOnce(j) ==
  \A d, e \in {x \in decided : x.job = j /\ x.action # "reject"} :
    d.page # e.page => d.content \cap e.content = {}

(* Entity x is what a final reference of job j's merge stands for. *)
IsEnd(x, final, j) ==
  \/ final = <<"id", x>>
  \/ final[1] = "m" /\ x.job = j /\ x.ref = final[2] /\ x \notin cut

PastLastPage(v) == v.page \notin DOMAIN v.pages

(* Relationships come last so that a link between pages finds both its      *)
(* ends: when a job is through, every link of the document whose entities   *)
(* are in canon is in the world, and whatever is there was put there by a   *)
(* job past its last page (commit_relationships, ref_to_id).                *)
LinksAreWritten ==
  /\ \A j \in Imports :
       /\ Orderly(j) /\ ~Busy(j) /\ ApprovedOnce(j)
       /\ job[j].status = "committed"
       => \A l \in ToSet(ckpt[j].links), x \in canon, y \in canon :
            IsEnd(x, l[1], j) /\ IsEnd(y, l[2], j)
              => [source |-> x, target |-> y] \in edges
  /\ \A e \in edges : \E j \in Imports :
       \/ ~Orderly(j)
       \/ /\ PastLastPage(ckpt[j])
          /\ \E l \in ToSet(ckpt[j].links) :
               e = [source |-> End(ckpt[j], l[1]), target |-> End(ckpt[j], l[2])]

(* A job does not stay in extracting: the ceiling and the handlers bring it *)
(* to a page or an end, unless a turn of it was lost with its client or     *)
(* process (_stream_turn).                                                  *)
JobSettles ==
  \A j \in Imports :
    job[j].status = "extracting" ~>
      \/ job[j].status # "extracting"
      \/ \E r \in left : JobOf(r) = j
-----------------------------------------------------------------------------
(* What a comment says and the code does not keep. *)

(* A project has at most one active bulk import at a time.                  *)
OneActiveImport == Cardinality(ActiveJobs) <= 1

(* What the game master edits belongs to the page the decision was made on: *)
(* every draft that was applied is of the page it was applied to (comment   *)
(* on ImportReviewDecision.draft).                                          *)
EditsAreOfTheirPage == \A d \in decided : \A k \in d.content : PageOf(k) = d.page
=============================================================================
