----------------------------- MODULE CommitBatch -----------------------------
(***************************************************************************)
(* One run of the commit node: the approved proposal is checked against    *)
(* the world, then applied entity by entity, patch by patch and            *)
(* relationship by relationship, each store call committing on its own.    *)
(* Meanwhile the game master edits the same world from the browser, and    *)
(* the turn may be cancelled.  A write that fails half-way is compensated  *)
(* by deleting the entities created so far.                                *)
(*                                                                         *)
(* A service call reads before it writes, with an await in between: the    *)
(* read and the write of one call are two actions.  An entity is its       *)
(* title, case folded; a relationship is its two ends.                     *)
(***************************************************************************)
EXTENDS Naturals, Sequences, FiniteSets, Functions

CONSTANTS
  Ids,       \* entity ids, in the world or still to be drawn
  EdgeIds,   \* relationship ids, likewise
  Titles,    \* entity titles
  Refs,      \* names a proposal gives to the entities it creates
  Unborn,    \* an id not drawn yet
  Gone,      \* an id whose row was deleted
  Proposals, \* the approved proposals considered
  Standing,  \* entities in the world at the start, with their titles
  Standings, \* relationships in the world at the start, with their ends
  DmEdits,   \* how many edits the game master makes
  Cancels    \* whether the turn can be cancelled

Ends == [source : Ids, target : Ids]

(* A relationship operation: the ends of a create are refs of the proposal  *)
(* or ids; update and delete name a relationship.                           *)
Operations ==
  [op : {"create"}, source : Refs \cup Ids, target : Refs \cup Ids]
    \cup [op : {"update"}, edge : EdgeIds, reverse : BOOLEAN]
    \cup [op : {"delete"}, edge : EdgeIds]

ASSUME ProposalAssumption ==
  Proposals \subseteq [entities : Seq([ref : Refs, title : Titles]),
                       patches : Seq(Ids), relationships : Seq(Operations)]
ASSUME AbsentAssumption ==
  /\ Unborn # Gone /\ {Unborn, Gone} \cap (Ids \cup Titles \cup Ends) = {}
  /\ Refs \cap Ids = {}
ASSUME StandingAssumption ==
  /\ DOMAIN Standing \subseteq Ids
  /\ \A id \in DOMAIN Standing : Standing[id] \in Titles
  /\ DOMAIN Standings \subseteq EdgeIds
  /\ \A e \in DOMAIN Standings :
       Standings[e] \in [source : DOMAIN Standing, target : DOMAIN Standing]
ASSUME BoundAssumption == DmEdits \in Nat /\ Cancels \in BOOLEAN

VARIABLES
  title,      \* the entity rows
  edge,       \* the relationship rows
  draft,      \* the approved proposal
  pc,         \* where the node is
  i,          \* the item of the stage it is at
  tried,      \* relationship operations carried out or given up
  listed,     \* the ids the preflight saw in the world
  stale,      \* whether the preflight has found a problem
  drawn,      \* the id of the row just created
  ref_to_id,  \* ids of the created entities, by ref
  patched,    \* ids patched so far
  skipped,    \* relationship operations given up with a warning
  usable,     \* whether the request's database session still works
  todo,       \* created ids the compensation still has to delete
  edits,      \* edits the game master made
  (* History, for stating properties. *)
  created,    \* ids of the rows the node inserted
  destroyed,  \* relationships the node deleted
  committed,  \* ids the finished node reports
  moved,      \* whether the world changed under the node since its preflight
  cancelled   \* whether the turn was cancelled

world == <<title, edge>>
progress == <<tried, listed, stale, drawn, ref_to_id, patched, skipped, usable, todo>>
history == <<created, destroyed, committed>>
vars == <<title, edge, draft, pc, i, tried, listed, stale, drawn, ref_to_id, patched,
          skipped, usable, todo, edits, created, destroyed, committed, moved,
          cancelled>>
-----------------------------------------------------------------------------
Live == {id \in Ids : title[id] \in Titles}
LiveEdges == {e \in EdgeIds : edge[e] \in Ends}

(* The relationship operations of the proposal, and the order they are      *)
(* applied in: what cannot be undone goes last.                             *)
Operation(k) == draft.relationships[k]
Positions == DOMAIN draft.relationships
Rank == [create |-> 1, update |-> 2, delete |-> 3]
Before(j, k) ==
  \/ Rank[Operation(j).op] < Rank[Operation(k).op]
  \/ Operation(j).op = Operation(k).op /\ j < k

(* Variant, to test FailureDestroysNothing: operations in proposal order. *)
Turn_AsProposed(k) ==
  k \in Positions \ tried /\ \A j \in Positions \ tried : k <= j

(* The creates, then the updates, then the deletes, each in proposal order. *)
Turn(k) ==
  k \in Positions \ tried /\ \A j \in Positions \ (tried \cup {k}) : Before(k, j)

Stages == {"list", "check", "create", "indexing", "patch", "patching",
           "relate", "writing"}
Ended == {"done", "stale", "failed"}

TypeOK ==
  /\ title \in [Ids -> Titles \cup {Unborn, Gone}]
  /\ edge \in [EdgeIds -> Ends \cup {Unborn, Gone}]
  /\ draft \in Proposals
  /\ pc \in Stages \cup {"rollback"} \cup Ended
  /\ i \in Nat \ {0}
  /\ tried \subseteq Positions
  /\ listed \subseteq Ids
  /\ stale \in BOOLEAN
  /\ drawn \in Ids \cup {Unborn}
  /\ ref_to_id \in [Refs -> Ids \cup {Unborn}]
  /\ patched \subseteq Ids
  /\ skipped \subseteq tried
  /\ usable \in BOOLEAN
  /\ todo \subseteq Ids
  /\ edits \in 0 .. DmEdits
  /\ created \subseteq Ids
  /\ destroyed \subseteq EdgeIds
  /\ committed \subseteq Ids
  /\ moved \in BOOLEAN
  /\ cancelled \in BOOLEAN

Init ==
  /\ title = [id \in Ids |-> IF id \in DOMAIN Standing THEN Standing[id]
                                                       ELSE Unborn]
  /\ edge = [e \in EdgeIds |-> IF e \in DOMAIN Standings THEN Standings[e]
                                                         ELSE Unborn]
  /\ draft \in Proposals
  /\ pc = "list" /\ i = 1 /\ tried = {}
  /\ listed = {} /\ stale = FALSE
  /\ drawn = Unborn
  /\ ref_to_id = [r \in Refs |-> Unborn]
  /\ patched = {} /\ skipped = {}
  /\ usable = TRUE
  /\ todo = {}
  /\ edits = 0
  /\ created = {} /\ destroyed = {} /\ committed = {}
  /\ moved = FALSE /\ cancelled = FALSE

(* Deleting an entity takes its relationships with it (ON DELETE CASCADE). *)
DeleteRow(id) ==
  /\ title' = [title EXCEPT ![id] = Gone]
  /\ edge' = [e \in EdgeIds |->
                IF e \in LiveEdges /\ id \in {edge[e].source, edge[e].target}
                THEN Gone ELSE edge[e]]
-----------------------------------------------------------------------------
(* The preflight *)

StalePatch == \E k \in DOMAIN draft.patches : draft.patches[k] \notin Live

Namesake ==
  \E k \in DOMAIN draft.entities, id \in Live :
    title[id] = draft.entities[k].title

ListWorld ==
  /\ pc = "list"
  /\ listed' = Live
  /\ stale' = (StalePatch \/ Namesake)
  /\ pc' = "check"
  /\ UNCHANGED <<world, draft, i, tried, drawn, ref_to_id, patched, skipped, usable,
                 todo, edits, history, moved, cancelled>>

DraftRefs == {draft.entities[k].ref : k \in DOMAIN draft.entities}

(* Variant, to test PreflightSuffices: ends of new links are not looked at. *)
Outdated_EdgesOnly(o) == o.op # "create" /\ o.edge \notin LiveEdges

(* Ends are compared with the ids listed before, relationships looked up.  *)
Outdated(o) ==
  IF o.op = "create"
  THEN ~({o.source, o.target} \subseteq DraftRefs \cup listed)
  ELSE o.edge \notin LiveEdges

CheckRelationship ==
  /\ pc = "check"
  /\ i <= Len(draft.relationships)
  /\ stale' = (stale \/ Outdated(Operation(i)))
  /\ i' = i + 1
  /\ UNCHANGED <<world, draft, pc, tried, listed, drawn, ref_to_id, patched,
                 skipped, usable, todo, edits, history, moved, cancelled>>

Enter(stage) == pc' = stage /\ i' = 1

Preflighted ==
  /\ pc = "check"
  /\ i > Len(draft.relationships)
  /\ Enter(IF stale THEN "stale" ELSE "create")
  /\ UNCHANGED <<world, draft, progress, edits, history, moved, cancelled>>
-----------------------------------------------------------------------------
(* Leaving the try block with an exception: compensate what is recorded. *)
Raise(works) ==
  /\ usable' = works
  /\ todo' = Range(ref_to_id) \ {Unborn}
  /\ pc' = "rollback"
  /\ UNCHANGED <<world, draft, i, tried, listed, stale, drawn, ref_to_id, patched,
                 skipped, edits, history, moved>>

(* Applying: the entities *)

(* The row is committed before the call goes on to index it. *)
CreateRow ==
  /\ pc = "create"
  /\ i <= Len(draft.entities)
  /\ \E id \in Ids :
       /\ title[id] = Unborn
       /\ title' = [title EXCEPT ![id] = draft.entities[i].title]
       /\ drawn' = id
       /\ created' = created \cup {id}
  /\ pc' = "indexing"
  /\ UNCHANGED <<edge, draft, i, tried, listed, stale, ref_to_id, patched,
                 skipped, usable, todo, edits, destroyed, committed, moved, cancelled>>

(* Only when the call returns is the id recorded, under the draft's ref. *)
CreateReturns ==
  /\ pc = "indexing"
  /\ ref_to_id' = [ref_to_id EXCEPT ![draft.entities[i].ref] = drawn]
  /\ i' = i + 1
  /\ pc' = "create"
  /\ UNCHANGED <<world, draft, tried, listed, stale, drawn, patched, skipped,
                 usable, todo, edits, history, moved, cancelled>>

Created ==
  /\ pc = "create"
  /\ i > Len(draft.entities)
  /\ Enter("patch")
  /\ UNCHANGED <<world, draft, progress, edits, history, moved, cancelled>>

(* Applying: the patches *)

PatchRead ==
  /\ pc = "patch"
  /\ i <= Len(draft.patches)
  /\ draft.patches[i] \in Live
  /\ pc' = "patching"
  /\ UNCHANGED <<world, draft, i, progress, edits, history, moved, cancelled>>

(* Variants: to test CompensatedIfUsable, a missing target ends the commit   *)
(* without compensation; to test NothingSilentlyDropped, it is passed over. *)
PatchMissing_Uncompensated ==
  /\ pc = "patch"
  /\ i <= Len(draft.patches)
  /\ draft.patches[i] \notin Live
  /\ pc' = "failed"
  /\ UNCHANGED <<world, draft, i, progress, edits, history, moved, cancelled>>

PatchMissing_Ignored ==
  /\ pc = "patch"
  /\ i <= Len(draft.patches)
  /\ draft.patches[i] \notin Live
  /\ i' = i + 1
  /\ UNCHANGED <<world, draft, pc, progress, edits, history, moved, cancelled>>

PatchMissing ==
  /\ pc = "patch"
  /\ i <= Len(draft.patches)
  /\ draft.patches[i] \notin Live
  /\ Raise(usable)
  /\ UNCHANGED cancelled

PatchWrite ==
  /\ pc = "patching"
  /\ draft.patches[i] \in Live
  /\ patched' = patched \cup {draft.patches[i]}
  /\ i' = i + 1
  /\ pc' = "patch"
  /\ UNCHANGED <<world, draft, tried, listed, stale, drawn, ref_to_id, skipped,
                 usable, todo, edits, history, moved, cancelled>>

(* The row vanished between the read and the write: the flush fails, and    *)
(* nobody rolls the session back.                                           *)
PatchLost ==
  /\ pc = "patching"
  /\ draft.patches[i] \notin Live
  /\ Raise(FALSE)
  /\ UNCHANGED cancelled

Patched ==
  /\ pc = "patch"
  /\ i > Len(draft.patches)
  /\ Enter("relate")
  /\ UNCHANGED <<world, draft, progress, edits, history, moved, cancelled>>
-----------------------------------------------------------------------------
(* Applying: the relationship operations *)

(* The id a ref stands for; what is no ref of this proposal stands for      *)
(* itself.                                                                  *)
Resolve(ref) ==
  IF ref \in Refs /\ ref_to_id[ref] # Unborn THEN ref_to_id[ref] ELSE ref

EndsOf(o) == [source |-> Resolve(o.source), target |-> Resolve(o.target)]

Addresses(o) ==
  IF o.op = "create" THEN {EndsOf(o).source, EndsOf(o).target} \subseteq Live
                     ELSE o.edge \in LiveEdges

RelateRead ==
  /\ pc = "relate"
  /\ \E k \in Positions : Turn(k) /\ Addresses(Operation(k)) /\ i' = k
  /\ pc' = "writing"
  /\ UNCHANGED <<world, draft, progress, edits, history, moved, cancelled>>

(* A bad operation is tolerated, with a warning. *)
RelateSkip ==
  /\ pc = "relate"
  /\ \E k \in Positions :
       /\ Turn(k) /\ ~Addresses(Operation(k))
       /\ skipped' = skipped \cup {k}
       /\ tried' = tried \cup {k}
  /\ UNCHANGED <<world, draft, pc, i, listed, stale, drawn, ref_to_id, patched,
                 usable, todo, edits, history, moved, cancelled>>

RelateNext ==
  /\ tried' = tried \cup {i}
  /\ Enter("relate")
  /\ UNCHANGED <<title, draft, listed, stale, drawn, ref_to_id, patched,
                 skipped, usable, todo, edits, created, committed, moved,
                 cancelled>>

LinkWrite ==
  /\ pc = "writing"
  /\ Operation(i).op = "create"
  /\ Addresses(Operation(i))
  /\ \E e \in EdgeIds :
       /\ edge[e] = Unborn
       /\ edge' = [edge EXCEPT ![e] = EndsOf(Operation(i))]
  /\ RelateNext
  /\ UNCHANGED destroyed

RelinkWrite ==
  /\ pc = "writing"
  /\ Operation(i).op = "update"
  /\ Addresses(Operation(i))
  /\ edge' = [edge EXCEPT ![Operation(i).edge] =
                IF Operation(i).reverse
                THEN [source |-> @.target, target |-> @.source]
                ELSE @]
  /\ RelateNext
  /\ UNCHANGED destroyed

(* A row deleted meanwhile leaves the DELETE nothing to do. *)
UnlinkWrite ==
  /\ pc = "writing"
  /\ Operation(i).op = "delete"
  /\ edge' = [edge EXCEPT ![Operation(i).edge] = Gone]
  /\ destroyed' = destroyed \cup {Operation(i).edge}
  /\ RelateNext

(* An end or the row vanished between the read and the write: the flush    *)
(* fails (foreign key, stale row), which is no error the loop tolerates.   *)
RelateLost ==
  /\ pc = "writing"
  /\ Operation(i).op # "delete"
  /\ ~Addresses(Operation(i))
  /\ Raise(FALSE)
  /\ UNCHANGED cancelled

Committed ==
  /\ pc = "relate"
  /\ tried = Positions
  /\ committed' = (Range(ref_to_id) \ {Unborn}) \cup patched
  /\ pc' = "done"
  /\ UNCHANGED <<world, draft, i, progress, edits, created, destroyed, moved,
                 cancelled>>
-----------------------------------------------------------------------------
(* Compensation and cancellation *)

(* Deleting what was created; a failure to delete is only logged, and after *)
(* a failed flush every call on the session fails.                          *)
RollbackOne ==
  /\ pc = "rollback"
  /\ \E id \in todo :
       /\ todo' = todo \ {id}
       /\ IF usable /\ id \in Live THEN DeleteRow(id) ELSE UNCHANGED world
  /\ UNCHANGED <<draft, pc, i, tried, listed, stale, drawn, ref_to_id, patched,
                 skipped, usable, edits, history, moved, cancelled>>

RolledBack ==
  /\ pc = "rollback"
  /\ todo = {}
  /\ pc' = "failed"
  /\ UNCHANGED <<world, draft, i, progress, edits, history, moved, cancelled>>

(* The turn times out or its client disconnects.  Inside the try block the  *)
(* compensation runs, on a session the cancelled flush may have broken.     *)
Cancel ==
  /\ Cancels
  /\ cancelled' = TRUE
  /\ \/ pc \in Stages \ {"list", "check"} /\ Raise(usable)
     \/ pc \in {"create", "patching", "writing"} /\ Raise(FALSE)
     \/ /\ pc \in {"list", "check", "rollback"}
        /\ pc' = "failed"
        /\ UNCHANGED <<world, draft, i, progress, edits, history, moved>>
-----------------------------------------------------------------------------
(* The game master, in other requests *)

DmMoves ==
  /\ pc \notin Ended
  /\ edits < DmEdits
  /\ edits' = edits + 1
  /\ moved' = (moved \/ pc # "list")
  /\ UNCHANGED <<draft, pc, i, progress, history, cancelled>>

DmDeletes ==
  /\ \E id \in Live : DeleteRow(id)
  /\ DmMoves

(* Creates an entity, or renames one. *)
DmWrites ==
  /\ \E id \in Ids, t \in Titles :
       title[id] # Gone /\ title' = [title EXCEPT ![id] = t]
  /\ UNCHANGED edge
  /\ DmMoves

DmUnlinks ==
  /\ \E e \in LiveEdges : edge' = [edge EXCEPT ![e] = Gone]
  /\ UNCHANGED title
  /\ DmMoves

Finished == pc \in Ended /\ UNCHANGED vars

Next ==
  \/ ListWorld \/ CheckRelationship \/ Preflighted
  \/ CreateRow \/ CreateReturns \/ Created
  \/ PatchRead \/ PatchMissing \/ PatchWrite \/ PatchLost \/ Patched
  \/ RelateRead \/ RelateSkip \/ LinkWrite \/ RelinkWrite \/ UnlinkWrite
  \/ RelateLost \/ Committed
  \/ RollbackOne \/ RolledBack \/ Cancel
  \/ DmDeletes \/ DmWrites \/ DmUnlinks
  \/ Finished

Spec == Init /\ [][Next]_vars
-----------------------------------------------------------------------------
(* Properties *)

(* The preflight is complete: if the world stands still from then on, an    *)
(* uncancelled commit does not fail, and gives up no relationship but the   *)
(* deletion of one that the proposal deletes twice.                         *)
DeletedTwice(k) ==
  \E j \in Positions \ {k} : Operation(j) = Operation(k) /\ Operation(k).op = "delete"

PreflightSuffices ==
  ~moved /\ ~cancelled =>
    pc \notin {"rollback", "failed"} /\ \A k \in skipped : DeletedTwice(k)

(* Nothing keeps a proposal from giving one ref to two entities; the first  *)
(* is then forgotten.                                                       *)
RefsDiffer ==
  \A j, k \in DOMAIN draft.entities :
    draft.entities[j].ref = draft.entities[k].ref => j = k

(* A commit that fails on a session that still works leaves none of the     *)
(* entities it created in the world, unless it was cancelled; of those that *)
(* had one ref, not the last.                                               *)
CompensatedIfUsable ==
  pc = "failed" /\ usable /\ ~cancelled =>
    /\ Range(ref_to_id) \cap Live = {}
    /\ RefsDiffer => created \cap Live = {}

(* Whatever fails, fails before the first relationship is deleted, since a  *)
(* deleted relationship cannot be restored; only a cancellation can come    *)
(* later.                                                                   *)
FailureDestroysNothing ==
  pc \in {"rollback", "failed"} /\ ~cancelled => destroyed = {}

(* The finished commit did everything that was approved: each entity, each  *)
(* patch, and each relationship operation unless it was given up aloud; and *)
(* it reports every entity it created or patched, of those that had one ref *)
(* the last.                                                                *)
NothingSilentlyDropped ==
  LET applied == Positions \ skipped
      links == {k \in applied : Operation(k).op = "create"}
      drawnEdges == {e \in EdgeIds \ DOMAIN Standings : edge[e] # Unborn}
  IN  pc = "done" =>
        /\ Cardinality(created) = Len(draft.entities)
        /\ patched = Range(draft.patches)
        /\ patched \subseteq committed
        /\ RefsDiffer => created \subseteq committed
        /\ Cardinality(drawnEdges) = Cardinality(links)
        /\ \A k \in applied :
             Operation(k).op = "delete" => Operation(k).edge \in destroyed

(* What commit's docstring says: if a write fails, the entities created so  *)
(* far are rolled back.                                                     *)
CreatesCompensated == pc = "failed" => created \cap Live = {}
=============================================================================
