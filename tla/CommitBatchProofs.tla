-------------------------- MODULE CommitBatchProofs --------------------------
(***************************************************************************)
(* Theorems about CommitBatch, for any proposal, any world and any number  *)
(* of edits by the game master, with or without a cancellation.            *)
(***************************************************************************)
EXTENDS CommitBatch, FiniteSetTheorems, TLAPS

(* Where the node can be, in the order it gets there. *)
Opening == {"list", "check", "stale"}
Making == {"create", "indexing"}
Patching == {"patch", "patching"}
Relating == {"relate", "writing"}
Applying == Making \cup Patching \cup Relating
Failing == {"rollback", "failed"}

Recorded == Range(ref_to_id) \ {Unborn}
IsA(k, op) == Operation(k).op = op

PlaceInv ==
  /\ pc = "list" => i = 1
  /\ pc = "create" => i <= Len(draft.entities) + 1
  /\ pc = "indexing" => i <= Len(draft.entities)
  /\ pc = "patch" => i <= Len(draft.patches) + 1
  /\ pc = "patching" => i <= Len(draft.patches)
  /\ pc = "writing" => Turn(i)
  /\ pc = "done" => tried = Positions
  /\ pc \in Opening \cup Making \cup Patching => tried = {} /\ destroyed = {}
  /\ cancelled => pc \in Failing

(* What was created is recorded, or in flight. *)
CreatedInv ==
  /\ pc \in Opening => created = {}
  /\ \A id \in created : title[id] # Unborn
  /\ Recorded \subseteq created
  /\ pc = "indexing" => drawn \in created
  /\ pc \in Making => \A r \in Refs : ref_to_id[r] # Unborn =>
       \E k \in DOMAIN draft.entities : k < i /\ draft.entities[k].ref = r
  /\ RefsDiffer /\ ~cancelled =>
       created \subseteq Recorded \cup (IF pc = "indexing" THEN {drawn} ELSE {})
  /\ usable /\ ~cancelled =>
       /\ pc = "rollback" => Recorded \cap Live \subseteq todo
       /\ pc = "failed" => Recorded \cap Live = {}

(* What was tried comes before what was not, so deletions come last. *)
OrderInv ==
  /\ \A j \in tried, k \in Positions \ tried : Before(j, k)
  /\ destroyed # {} => \E j \in tried : IsA(j, "delete")
  /\ pc \in Failing /\ ~cancelled => destroyed = {}

(* What is left of the preflight while the world stands still. *)
UpToDate(k) ==
  IF IsA(k, "create")
  THEN {Operation(k).source, Operation(k).target} \subseteq DraftRefs \cup listed
  ELSE \/ Operation(k).edge \in LiveEdges
       \/ \E j \in tried : IsA(j, "delete") /\ Operation(j).edge = Operation(k).edge
PatchesLive == \A k \in DOMAIN draft.patches : draft.patches[k] \in Live
Ready ==
  /\ PatchesLive
  /\ Recorded \subseteq Live
  /\ \A k \in Positions : UpToDate(k)
Named(k) == ref_to_id[draft.entities[k].ref] # Unborn
Still ==
  /\ pc \notin Failing
  /\ pc \in {"check"} \cup Applying => listed \subseteq Live
  /\ pc = "check" /\ ~stale =>
       PatchesLive /\ \A k \in Positions : k < i => UpToDate(k)
  /\ pc \in Applying => Ready
  /\ pc \in Making => \A k \in DOMAIN draft.entities : k < i => Named(k)
  /\ pc \in Patching \cup Relating => \A k \in DOMAIN draft.entities : Named(k)
  /\ pc = "indexing" => drawn \in Live
  /\ pc = "writing" => Addresses(Operation(i))
  /\ \A k \in skipped : DeletedTwice(k)
StillInv == ~moved /\ ~cancelled => Still

(* What has been done is counted. *)
Linked == {k \in tried \ skipped : IsA(k, "create")}
DrawnEdges == {e \in EdgeIds \ DOMAIN Standings : edge[e] # Unborn}
EntityCount ==
  /\ IsFiniteSet(created)
  /\ pc = "create" => Cardinality(created) = i - 1
  /\ pc = "indexing" => Cardinality(created) = i
  /\ pc \in Patching \cup Relating \cup {"done"} =>
       Cardinality(created) = Len(draft.entities)
PatchCount ==
  /\ pc \in Opening \cup Making => patched = {}
  /\ pc \in Patching => patched = {draft.patches[k] : k \in 1 .. i - 1}
  /\ pc \in Relating \cup {"done"} => patched = Range(draft.patches)
  /\ pc = "done" => committed = Recorded \cup patched
EdgeCount ==
  /\ \A e \in DOMAIN Standings : edge[e] # Unborn
  /\ pc = "writing" /\ ~IsA(i, "create") => edge[Operation(i).edge] # Unborn
  /\ IsFiniteSet(DrawnEdges) /\ Cardinality(DrawnEdges) = Cardinality(Linked)
DeletionsDone ==
  \A k \in tried \ skipped : IsA(k, "delete") => Operation(k).edge \in destroyed
CountInv == EntityCount /\ PatchCount /\ EdgeCount /\ DeletionsDone

-----------------------------------------------------------------------------
(* Types *)

(* The parts of a proposal have the types the generator gives them. *)
LEMMA DraftTypes ==
  ASSUME draft \in Proposals
  PROVE  /\ draft.entities \in Seq([ref : Refs, title : Titles])
         /\ draft.patches \in Seq(Ids)
         /\ draft.relationships \in Seq(Operations)
         /\ Positions = 1 .. Len(draft.relationships)
<1>1. draft \in [entities : Seq([ref : Refs, title : Titles]),
                patches : Seq(Ids), relationships : Seq(Operations)]
  BY ProposalAssumption
<1>2. /\ draft.entities \in Seq([ref : Refs, title : Titles])
      /\ draft.patches \in Seq(Ids)
      /\ draft.relationships \in Seq(Operations)
  BY <1>1, Zenon
<1>3. DOMAIN draft.relationships = 1 .. Len(draft.relationships)
  BY <1>2
<1> QED BY <1>2, <1>3 DEF Positions

(* The drafted entities, each with its ref and its title. *)
LEMMA EntityTypes ==
  ASSUME draft \in Proposals
  PROVE  /\ Len(draft.entities) \in Nat
         /\ DOMAIN draft.entities = 1 .. Len(draft.entities)
         /\ \A k \in 1 .. Len(draft.entities) :
              draft.entities[k].ref \in Refs /\ draft.entities[k].title \in Titles
<1> DEFINE entities == draft.entities
           Entity == [ref : Refs, title : Titles]
<1>1. entities \in Seq(Entity)
  BY DraftTypes
<1>2. ASSUME NEW entity \in Entity PROVE entity.ref \in Refs /\ entity.title \in Titles
  BY <1>2
<1> HIDE DEF entities, Entity
<1>3. /\ Len(entities) \in Nat /\ DOMAIN entities = 1 .. Len(entities)
      /\ \A k \in 1 .. Len(entities) : entities[k] \in Entity
  BY <1>1
<1>4. \A k \in 1 .. Len(entities) : entities[k].ref \in Refs /\ entities[k].title \in Titles
  BY <1>2, <1>3
<1> QED BY <1>3, <1>4 DEF entities

(* An operation is a create with two ends, or names a relationship. *)
LEMMA OperationTypes ==
  ASSUME draft \in Proposals, NEW k \in Positions
  PROVE  /\ Operation(k) \in Operations
         /\ Operation(k).op \in {"create", "update", "delete"}
         /\ Operation(k).op # "create" => Operation(k).edge \in EdgeIds
         /\ Operation(k).op = "create" =>
              Operation(k).source \in Refs \cup Ids /\ Operation(k).target \in Refs \cup Ids
         /\ Operation(k).op = "update" => Operation(k).reverse \in BOOLEAN
<1>1. Operation(k) \in Operations
  BY DraftTypes DEF Operation
<1> QED BY <1>1 DEF Operations

LEMMA InitTypes == Init => TypeOK /\ PlaceInv
<1> SUFFICES ASSUME Init PROVE TypeOK /\ PlaceInv
  OBVIOUS
<1>1. title \in [Ids -> Titles \cup {Unborn, Gone}]
  BY StandingAssumption DEF Init
<1>2. edge \in [EdgeIds -> Ends \cup {Unborn, Gone}]
  <2> SUFFICES ASSUME NEW e \in DOMAIN Standings PROVE Standings[e] \in Ends
    BY DEF Init
  <2> QED BY StandingAssumption DEF Ends
<1>3. TypeOK
  <2>1. ref_to_id \in [Refs -> Ids \cup {Unborn}]
    BY DEF Init
  <2>2. pc \in Stages /\ i \in Nat \ {0} /\ edits \in 0 .. DmEdits
    BY BoundAssumption DEF Init, Stages
  <2> QED BY <1>1, <1>2, <2>1, <2>2 DEF Init, TypeOK
<1>4. PlaceInv
  BY DEF Init, PlaceInv, Opening, Making, Patching, Failing
<1> QED BY <1>3, <1>4

LEMMA DeleteRowTypes ==
  ASSUME TypeOK, NEW id \in Ids, DeleteRow(id)
  PROVE  /\ title' \in [Ids -> Titles \cup {Unborn, Gone}]
         /\ edge' \in [EdgeIds -> Ends \cup {Unborn, Gone}]
  BY DEF TypeOK, DeleteRow

LEMMA RaiseTypes ==
  ASSUME TypeOK, NEW works \in BOOLEAN, Raise(works), cancelled' \in BOOLEAN
  PROVE  TypeOK'
<1>1. Range(ref_to_id) \ {Unborn} \subseteq Ids
  BY DEF TypeOK, Range
<1> QED BY <1>1 DEF Raise, TypeOK, world, history, Positions, Stages, Ended

LEMMA DmTypes ==
  ASSUME TypeOK, DmMoves,
         title' \in [Ids -> Titles \cup {Unborn, Gone}],
         edge' \in [EdgeIds -> Ends \cup {Unborn, Gone}]
  PROVE  TypeOK'
  BY BoundAssumption DEF TypeOK, DmMoves, progress, history, Positions

LEMMA TypeStep ==
  ASSUME TypeOK, PlaceInv, [Next]_vars
  PROVE  TypeOK'
<1> USE DEF Positions
<1>1. CASE ListWorld
  BY <1>1 DEF ListWorld, Live, StalePatch, Namesake, TypeOK, world, progress, history, Stages, Ended
<1>2. CASE CheckRelationship
  BY <1>2 DEF CheckRelationship, Outdated, TypeOK, world, progress, history, Stages, Ended
<1>3. CASE Preflighted
  BY <1>3 DEF Preflighted, Enter, TypeOK, world, progress, history, Stages, Ended
<1>4. CASE CreateRow
  <2>1. draft.entities[i].title \in Titles
    BY <1>4, EntityTypes DEF CreateRow, TypeOK
  <2>2. title' \in [Ids -> Titles \cup {Unborn, Gone}]
    BY <1>4, <2>1 DEF CreateRow, TypeOK
  <2> QED BY <1>4, <2>2 DEF CreateRow, TypeOK, world, progress, history, Stages, Ended
<1>5. CASE CreateReturns
  <2>1. ref_to_id' \in [Refs -> Ids \cup {Unborn}]
    BY <1>5 DEF CreateReturns, TypeOK
  <2> QED BY <1>5, <2>1 DEF CreateReturns, TypeOK, world, progress, history, Stages, Ended
<1>6. CASE Created
  BY <1>6 DEF Created, Enter, TypeOK, world, progress, history, Stages, Ended
<1>7. CASE PatchRead
  BY <1>7 DEF PatchRead, TypeOK, world, progress, history, Stages, Ended
<1>8. CASE PatchMissing
  BY <1>8, RaiseTypes DEF PatchMissing, TypeOK
<1>9. CASE PatchWrite
  BY <1>9 DEF PatchWrite, Live, TypeOK, world, progress, history, Stages, Ended
<1>10. CASE PatchLost
  BY <1>10, RaiseTypes DEF PatchLost, TypeOK
<1>11. CASE Patched
  BY <1>11 DEF Patched, Enter, TypeOK, world, progress, history, Stages, Ended
<1>12. CASE RelateRead
  BY <1>12, DraftTypes DEF RelateRead, TypeOK, world, progress, history, Stages, Ended
<1>13. CASE RelateSkip
  BY <1>13 DEF RelateSkip, TypeOK, world, progress, history, Stages, Ended
<1>14. CASE LinkWrite
  <2>1. i \in Positions
    BY <1>14 DEF LinkWrite, PlaceInv, Turn
  <2>2. EndsOf(Operation(i)) \in Ends
    BY <1>14 DEF LinkWrite, Addresses, EndsOf, Ends, Live
  <2> QED BY <1>14, <2>1, <2>2 DEF LinkWrite, RelateNext, Enter, TypeOK, world, progress, history, Stages, Ended
<1>15. CASE RelinkWrite
  <2>1. i \in Positions
    BY <1>15 DEF RelinkWrite, PlaceInv, Turn
  <2>2. edge[Operation(i).edge] \in Ends
    BY <1>15 DEF RelinkWrite, Addresses, LiveEdges
  <2>3. edge' \in [EdgeIds -> Ends \cup {Unborn, Gone}]
    <3> DEFINE e == Operation(i).edge
               new == IF Operation(i).reverse
                      THEN [source |-> edge[e].target, target |-> edge[e].source]
                      ELSE edge[e]
    <3>1. new \in Ends
      BY <2>2 DEF Ends
    <3>2. edge' = [edge EXCEPT ![e] = new]
      BY <1>15 DEF RelinkWrite
    <3> HIDE DEF new
    <3> QED BY <3>1, <3>2 DEF TypeOK
  <2> QED BY <1>15, <2>1, <2>3 DEF RelinkWrite, RelateNext, Enter, TypeOK, world, progress, history, Stages, Ended
<1>16. CASE UnlinkWrite
  <2>1. i \in Positions
    BY <1>16 DEF UnlinkWrite, PlaceInv, Turn
  <2>2. Operation(i).edge \in EdgeIds
    BY <1>16, <2>1, OperationTypes DEF UnlinkWrite, TypeOK
  <2> QED BY <1>16, <2>1, <2>2 DEF UnlinkWrite, RelateNext, Enter, TypeOK, world, progress, history, Stages, Ended
<1>17. CASE RelateLost
  BY <1>17, RaiseTypes DEF RelateLost, TypeOK
<1>18. CASE Committed
  BY <1>18 DEF Committed, Range, TypeOK, world, progress, history, Stages, Ended
<1>19. CASE RollbackOne
  <2>1. PICK id \in todo :
          /\ todo' = todo \ {id}
          /\ IF usable /\ id \in Live THEN DeleteRow(id) ELSE UNCHANGED world
    BY <1>19 DEF RollbackOne
  <2>2. /\ title' \in [Ids -> Titles \cup {Unborn, Gone}]
        /\ edge' \in [EdgeIds -> Ends \cup {Unborn, Gone}]
    BY <2>1, DeleteRowTypes DEF TypeOK, world
  <2> QED BY <1>19, <2>1, <2>2 DEF RollbackOne, TypeOK, world, progress, history, Stages, Ended
<1>20. CASE RolledBack
  BY <1>20 DEF RolledBack, TypeOK, world, progress, history, Stages, Ended
<1>21. CASE Cancel
  <2>1. CASE \E works \in BOOLEAN : Raise(works)
    BY <1>21, <2>1, RaiseTypes DEF Cancel
  <2>2. CASE pc \in {"list", "check", "rollback"} /\ pc' = "failed"
             /\ UNCHANGED <<world, draft, i, progress, edits, history, moved>>
    BY <1>21, <2>2 DEF Cancel, TypeOK, world, progress, history, Stages, Ended
  <2> QED BY <1>21, <2>1, <2>2 DEF Cancel, TypeOK
<1>22. CASE DmDeletes
  BY <1>22, DmTypes, DeleteRowTypes DEF DmDeletes, Live
<1>23. CASE DmWrites
  <2>1. title' \in [Ids -> Titles \cup {Unborn, Gone}]
    BY <1>23 DEF DmWrites, TypeOK
  <2> QED BY <1>23, <2>1, DmTypes DEF DmWrites, TypeOK
<1>24. CASE DmUnlinks
  <2>1. edge' \in [EdgeIds -> Ends \cup {Unborn, Gone}]
    BY <1>24 DEF DmUnlinks, TypeOK
  <2> QED BY <1>24, <2>1, DmTypes DEF DmUnlinks, TypeOK
<1>25. CASE Finished
  BY <1>25 DEF Finished, vars, TypeOK, world, progress, history, Stages, Ended
<1>26. CASE UNCHANGED vars
  BY <1>26 DEF vars, TypeOK
<1> QED
  BY <1>1, <1>2, <1>3, <1>4, <1>5, <1>6, <1>7, <1>8, <1>9, <1>10, <1>11, <1>12, <1>13, <1>14, <1>15, <1>16, <1>17, <1>18, <1>19, <1>20, <1>21, <1>22, <1>23, <1>24, <1>25, <1>26 DEF Next

-----------------------------------------------------------------------------
(* Where the node is *)

LEMMA SameTurn ==
  ASSUME UNCHANGED <<draft, tried, i>>
  PROVE  /\ Positions' = Positions
         /\ Turn(i)' = Turn(i)
  BY DEF Turn, Before, Operation, Positions

LEMMA PlaceStep ==
  ASSUME TypeOK, PlaceInv, [Next]_vars
  PROVE  PlaceInv'
<1>0. /\ Len(draft.entities) \in Nat /\ Len(draft.patches) \in Nat
      /\ i \in Nat \ {0} /\ draft \in Proposals
  BY EntityTypes, DraftTypes DEF TypeOK
<1> USE DEF Opening, Making, Patching, Failing, Stages, Ended
<1>1. CASE ListWorld
  BY <1>1, <1>0, SameTurn DEF ListWorld, PlaceInv, world, progress, history
<1>2. CASE CheckRelationship
  BY <1>2, <1>0, SameTurn DEF CheckRelationship, PlaceInv, world, progress, history
<1>3. CASE Preflighted
  BY <1>3, <1>0, SameTurn DEF Preflighted, Enter, PlaceInv, world, progress, history
<1>4. CASE CreateRow
  BY <1>4, <1>0, SameTurn DEF CreateRow, PlaceInv, world, progress, history
<1>5. CASE CreateReturns
  BY <1>5, <1>0, SameTurn DEF CreateReturns, PlaceInv, world, progress, history
<1>6. CASE Created
  BY <1>6, <1>0, SameTurn DEF Created, Enter, PlaceInv, world, progress, history
<1>7. CASE PatchRead
  BY <1>7, <1>0, SameTurn DEF PatchRead, PlaceInv, world, progress, history
<1>8. CASE PatchMissing
  BY <1>8, <1>0, SameTurn DEF PatchMissing, Raise, PlaceInv, world, progress, history
<1>9. CASE PatchWrite
  BY <1>9, <1>0, SameTurn DEF PatchWrite, PlaceInv, world, progress, history
<1>10. CASE PatchLost
  BY <1>10, <1>0, SameTurn DEF PatchLost, Raise, PlaceInv, world, progress, history
<1>11. CASE Patched
  BY <1>11, <1>0, SameTurn DEF Patched, Enter, PlaceInv, world, progress, history
<1>12. CASE RelateRead
  <2>1. PICK k \in Positions : Turn(k) /\ i' = k
    BY <1>12 DEF RelateRead
  <2>2. Turn(i)'
    BY <1>12, <2>1 DEF RelateRead, progress, Turn, Before, Operation, Positions
  <2> QED BY <1>12, <2>2 DEF RelateRead, PlaceInv, world, progress, history
<1>13. CASE RelateSkip
  BY <1>13, <1>0, SameTurn DEF RelateSkip, PlaceInv, world, progress, history
<1>14. CASE LinkWrite
  BY <1>14, <1>0, SameTurn DEF LinkWrite, RelateNext, Enter, PlaceInv, world, progress, history
<1>15. CASE RelinkWrite
  BY <1>15, <1>0, SameTurn DEF RelinkWrite, RelateNext, Enter, PlaceInv, world, progress, history
<1>16. CASE UnlinkWrite
  BY <1>16, <1>0, SameTurn DEF UnlinkWrite, RelateNext, Enter, PlaceInv, world, progress, history
<1>17. CASE RelateLost
  BY <1>17, <1>0, SameTurn DEF RelateLost, Raise, PlaceInv, world, progress, history
<1>18. CASE Committed
  <2>1. Positions' = Positions
    BY <1>18 DEF Committed, Positions
  <2> QED BY <1>18, <2>1 DEF Committed, PlaceInv, world, progress, history
<1>19. CASE RollbackOne
  BY <1>19, <1>0, SameTurn DEF RollbackOne, PlaceInv, world, progress, history
<1>20. CASE RolledBack
  BY <1>20, <1>0, SameTurn DEF RolledBack, PlaceInv, world, progress, history
<1>21. CASE Cancel
  BY <1>21, <1>0, SameTurn DEF Cancel, Raise, PlaceInv, world, progress, history
<1>22. CASE DmDeletes
  BY <1>22, <1>0, SameTurn DEF DmDeletes, DmMoves, PlaceInv, world, progress, history
<1>23. CASE DmWrites
  BY <1>23, <1>0, SameTurn DEF DmWrites, DmMoves, PlaceInv, world, progress, history
<1>24. CASE DmUnlinks
  BY <1>24, <1>0, SameTurn DEF DmUnlinks, DmMoves, PlaceInv, world, progress, history
<1>25. CASE Finished
  BY <1>25, <1>0, SameTurn DEF Finished, vars, PlaceInv, world, progress, history
<1>26. CASE UNCHANGED vars
  BY <1>26, <1>0, SameTurn DEF vars, PlaceInv, world, progress, history
<1> QED
  BY <1>1, <1>2, <1>3, <1>4, <1>5, <1>6, <1>7, <1>8, <1>9, <1>10, <1>11, <1>12, <1>13,
     <1>14, <1>15, <1>16, <1>17, <1>18, <1>19, <1>20, <1>21, <1>22, <1>23, <1>24, <1>25, <1>26 DEF Next

(* The state of a commit run is well formed, and the node is where its item
   number says: an operation being written is the one whose turn it is,
   nothing is tried before the relationship stage, and a cancelled run is
   failing or has failed. *)
THEOREM TypeAndPlace == Spec => [](TypeOK /\ PlaceInv)
<1>1. Init => TypeOK /\ PlaceInv
  BY InitTypes
<1>2. TypeOK /\ PlaceInv /\ [Next]_vars => (TypeOK /\ PlaceInv)'
  BY TypeStep, PlaceStep
<1> QED BY <1>1, <1>2, PTL DEF Spec
-----------------------------------------------------------------------------
(* What comes last *)

LEMMA SameOrder ==
  ASSUME UNCHANGED draft
  PROVE  /\ Positions' = Positions
         /\ \A j, k : Before(j, k)' = Before(j, k)
         /\ \A k, op : IsA(k, op)' = IsA(k, op)
  BY DEF Before, Operation, Positions, IsA

(* Carrying out, or giving up, the operation whose turn it is. *)
LEMMA TurnTaken ==
  ASSUME UNCHANGED draft, NEW k, Turn(k), tried' = tried \cup {k},
         \A j \in tried, n \in Positions \ tried : Before(j, n)
  PROVE  \A j \in tried', n \in (Positions \ tried)' : Before(j, n)'
  BY SameOrder DEF Turn

(* Before a deletion was tried, none was carried out; and once it was, only *)
(* deletions are left.                                                      *)
LEMMA NoneDeleted ==
  ASSUME TypeOK, PlaceInv, OrderInv, pc = "writing", ~IsA(i, "delete")
  PROVE  destroyed = {}
<1> SUFFICES ASSUME NEW j \in tried, IsA(j, "delete") PROVE FALSE
  BY DEF OrderInv
<1>1. i \in Positions \ tried /\ j \in Positions
  BY DEF PlaceInv, Turn, TypeOK
<1>2. Before(j, i)
  BY <1>1 DEF OrderInv
<1>3. Operation(i).op \in {"create", "update"} /\ Operation(j).op = "delete"
  BY <1>1, OperationTypes DEF TypeOK, IsA
<1> QED BY <1>2, <1>3 DEF Before, Rank

LEMMA OrderStep ==
  ASSUME TypeOK, PlaceInv, OrderInv, [Next]_vars
  PROVE  OrderInv'
<1>0. \A j \in tried, n \in Positions \ tried : Before(j, n)
  BY DEF OrderInv
<1> USE DEF Opening, Making, Patching, Failing, Stages, Ended
<1>1. CASE ListWorld
  BY <1>1, SameOrder DEF ListWorld, OrderInv, world, progress, history
<1>2. CASE CheckRelationship
  BY <1>2, SameOrder DEF CheckRelationship, OrderInv, world, progress, history
<1>3. CASE Preflighted
  BY <1>3, SameOrder DEF Preflighted, Enter, OrderInv, world, progress, history
<1>4. CASE CreateRow
  BY <1>4, SameOrder DEF CreateRow, OrderInv, world, progress, history
<1>5. CASE CreateReturns
  BY <1>5, SameOrder DEF CreateReturns, OrderInv, world, progress, history
<1>6. CASE Created
  BY <1>6, SameOrder DEF Created, Enter, OrderInv, world, progress, history
<1>7. CASE PatchRead
  BY <1>7, SameOrder DEF PatchRead, OrderInv, world, progress, history
<1>8. CASE PatchMissing
  <2>1. destroyed = {}
    BY <1>8 DEF PatchMissing, PlaceInv
  <2> QED BY <1>8, <2>1, SameOrder DEF PatchMissing, Raise, OrderInv, history
<1>9. CASE PatchWrite
  BY <1>9, SameOrder DEF PatchWrite, OrderInv, world, progress, history
<1>10. CASE PatchLost
  <2>1. destroyed = {}
    BY <1>10 DEF PatchLost, PlaceInv
  <2> QED BY <1>10, <2>1, SameOrder DEF PatchLost, Raise, OrderInv, history
<1>11. CASE Patched
  BY <1>11, SameOrder DEF Patched, Enter, OrderInv, world, progress, history
<1>12. CASE RelateRead
  BY <1>12, SameOrder DEF RelateRead, OrderInv, world, progress, history
<1>13. CASE RelateSkip
  <2>1. \A j \in tried', n \in (Positions \ tried)' : Before(j, n)'
    BY <1>13, TurnTaken DEF RelateSkip, OrderInv
  <2> QED BY <1>13, <2>1, SameOrder DEF RelateSkip, OrderInv, history
<1>14. CASE LinkWrite
  <2>1. Turn(i) /\ UNCHANGED draft /\ tried' = tried \cup {i}
    BY <1>14 DEF LinkWrite, RelateNext, PlaceInv
  <2>2. \A j \in tried', n \in (Positions \ tried)' : Before(j, n)'
    BY <1>0, <2>1, TurnTaken, Zenon
  <2>3. pc' = "relate" /\ UNCHANGED <<destroyed, cancelled>>
    BY <1>14 DEF LinkWrite, RelateNext, Enter
  <2> QED BY <2>1, <2>2, <2>3, SameOrder DEF OrderInv
<1>15. CASE RelinkWrite
  <2>1. Turn(i) /\ UNCHANGED draft /\ tried' = tried \cup {i}
    BY <1>15 DEF RelinkWrite, RelateNext, PlaceInv
  <2>2. \A j \in tried', n \in (Positions \ tried)' : Before(j, n)'
    BY <1>0, <2>1, TurnTaken, Zenon
  <2> QED BY <1>15, <2>1, <2>2, SameOrder DEF RelinkWrite, RelateNext, Enter, OrderInv, IsA
<1>16. CASE UnlinkWrite
  <2>1. Turn(i) /\ UNCHANGED draft /\ tried' = tried \cup {i}
    BY <1>16 DEF UnlinkWrite, RelateNext, PlaceInv
  <2>2. \A j \in tried', n \in (Positions \ tried)' : Before(j, n)'
    BY <1>0, <2>1, TurnTaken, Zenon
  <2> QED BY <1>16, <2>1, <2>2, SameOrder DEF UnlinkWrite, RelateNext, Enter, OrderInv, IsA
<1>17. CASE RelateLost
  <2>1. destroyed = {}
    BY <1>17, NoneDeleted DEF RelateLost, IsA
  <2> QED BY <1>17, <2>1, SameOrder DEF RelateLost, Raise, OrderInv, history
<1>18. CASE Committed
  BY <1>18, SameOrder DEF Committed, OrderInv, world, progress, history
<1>19. CASE RollbackOne
  BY <1>19, SameOrder DEF RollbackOne, OrderInv, world, progress, history
<1>20. CASE RolledBack
  BY <1>20, SameOrder DEF RolledBack, OrderInv, world, progress, history
<1>21. CASE Cancel
  BY <1>21, SameOrder DEF Cancel, Raise, OrderInv, world, progress, history
<1>22. CASE DmDeletes
  BY <1>22, SameOrder DEF DmDeletes, DmMoves, OrderInv, world, progress, history
<1>23. CASE DmWrites
  BY <1>23, SameOrder DEF DmWrites, DmMoves, OrderInv, world, progress, history
<1>24. CASE DmUnlinks
  BY <1>24, SameOrder DEF DmUnlinks, DmMoves, OrderInv, world, progress, history
<1>25. CASE Finished
  BY <1>25, SameOrder DEF Finished, vars, OrderInv, world, progress, history
<1>26. CASE UNCHANGED vars
  BY <1>26, SameOrder DEF vars, OrderInv, world, progress, history
<1> QED
  BY <1>1, <1>2, <1>3, <1>4, <1>5, <1>6, <1>7, <1>8, <1>9, <1>10, <1>11, <1>12, <1>13,
     <1>14, <1>15, <1>16, <1>17, <1>18, <1>19, <1>20, <1>21, <1>22, <1>23, <1>24, <1>25, <1>26 DEF Next

(* Relationship operations are tried in their order, deletions last, so a
   failure finds none carried out. *)
THEOREM Order == Spec => []OrderInv
<1>1. Init => OrderInv
  BY DEF Init, OrderInv, Failing
<1>2. TypeOK /\ PlaceInv /\ OrderInv /\ [Next]_vars => OrderInv'
  BY OrderStep
<1> QED BY <1>1, <1>2, TypeAndPlace, PTL DEF Spec

(* FailureDestroysNothing: a commit that fails without being cancelled has
   deleted no relationship (the three loops of apply_relationship_ops). *)
THEOREM NoFailureDestroys == Spec => []FailureDestroysNothing
<1>1. OrderInv => FailureDestroysNothing
  BY DEF OrderInv, FailureDestroysNothing, Failing
<1> QED BY <1>1, Order, PTL
-----------------------------------------------------------------------------
(* Rows age *)

(* A row that was drawn stays drawn, and one that was deleted stays deleted. *)
Aged ==
  /\ \A id \in Ids :
       /\ title[id] # Unborn => title'[id] # Unborn
       /\ id \in Live' => id \in Live \/ title[id] = Unborn
  /\ \A e \in EdgeIds : edge[e] # Unborn => edge'[e] # Unborn

LEMMA DeleteRowAges ==
  ASSUME TypeOK, NEW id \in Ids, DeleteRow(id)
  PROVE  Aged /\ Live' = Live \ {id}
<1>1. \A n \in Ids : title'[n] = IF n = id THEN Gone ELSE title[n]
  BY DEF DeleteRow, TypeOK
<1>2. \A e \in EdgeIds : edge'[e] = edge[e] \/ edge'[e] = Gone
  BY DEF DeleteRow
<1> QED BY <1>1, <1>2, AbsentAssumption DEF Aged, Live

LEMMA WorldStands ==
  ASSUME UNCHANGED world
  PROVE  Aged /\ Live' = Live /\ LiveEdges' = LiveEdges
  BY DEF world, Aged, Live, LiveEdges

LEMMA RowsAge ==
  ASSUME TypeOK, PlaceInv, [Next]_vars
  PROVE  Aged
<1>0. /\ Unborn # Gone /\ Unborn \notin Titles /\ Gone \notin Titles
      /\ Unborn \notin Ends /\ Gone \notin Ends
  BY AbsentAssumption
<1>1. CASE ListWorld
  BY <1>1, WorldStands DEF ListWorld, world
<1>2. CASE CheckRelationship
  BY <1>2, WorldStands DEF CheckRelationship, world
<1>3. CASE Preflighted
  BY <1>3, WorldStands DEF Preflighted, Enter, world
<1>4. CASE CreateRow
  <2>1. PICK id \in Ids :
          title[id] = Unborn /\ title' = [title EXCEPT ![id] = draft.entities[i].title]
    BY <1>4 DEF CreateRow
  <2>2. draft.entities[i].title \in Titles
    BY <1>4, EntityTypes DEF CreateRow, TypeOK
  <2>3. UNCHANGED edge
    BY <1>4 DEF CreateRow
  <2> QED BY <1>0, <2>1, <2>2, <2>3 DEF Aged, Live, TypeOK
<1>5. CASE CreateReturns
  BY <1>5, WorldStands DEF CreateReturns, world
<1>6. CASE Created
  BY <1>6, WorldStands DEF Created, Enter, world
<1>7. CASE PatchRead
  BY <1>7, WorldStands DEF PatchRead, world
<1>8. CASE PatchMissing
  BY <1>8, WorldStands DEF PatchMissing, Raise, world
<1>9. CASE PatchWrite
  BY <1>9, WorldStands DEF PatchWrite, world
<1>10. CASE PatchLost
  BY <1>10, WorldStands DEF PatchLost, Raise, world
<1>11. CASE Patched
  BY <1>11, WorldStands DEF Patched, Enter, world
<1>12. CASE RelateRead
  BY <1>12, WorldStands DEF RelateRead, world
<1>13. CASE RelateSkip
  BY <1>13, WorldStands DEF RelateSkip, world
<1>14. CASE LinkWrite
  <2>1. PICK e \in EdgeIds : edge' = [edge EXCEPT ![e] = EndsOf(Operation(i))]
    BY <1>14 DEF LinkWrite
  <2>2. EndsOf(Operation(i)) \in Ends
    BY <1>14 DEF LinkWrite, Addresses, EndsOf, Ends, Live
  <2>3. UNCHANGED title
    BY <1>14 DEF LinkWrite, RelateNext
  <2> QED BY <1>0, <2>1, <2>2, <2>3 DEF Aged, Live, TypeOK
<1>15. CASE RelinkWrite
  <2> DEFINE e == Operation(i).edge
  <2>1. edge[e] \in Ends /\ e \in EdgeIds
    BY <1>15 DEF RelinkWrite, Addresses, LiveEdges
  <2>2. \/ UNCHANGED edge
        \/ edge' = [edge EXCEPT ![e] =
                     [source |-> edge[e].target, target |-> edge[e].source]]
    BY <1>15 DEF RelinkWrite, TypeOK
  <2>3. [source |-> edge[e].target, target |-> edge[e].source] \in Ends
    BY <2>1 DEF Ends
  <2>4. UNCHANGED title
    BY <1>15 DEF RelinkWrite, RelateNext
  <2> HIDE DEF e
  <2> QED BY <1>0, <2>2, <2>3, <2>4 DEF Aged, Live, TypeOK
<1>16. CASE UnlinkWrite
  <2>1. edge' = [edge EXCEPT ![Operation(i).edge] = Gone] /\ UNCHANGED title
    BY <1>16 DEF UnlinkWrite, RelateNext
  <2> QED BY <1>0, <2>1 DEF Aged, Live, TypeOK
<1>17. CASE RelateLost
  BY <1>17, WorldStands DEF RelateLost, Raise, world
<1>18. CASE Committed
  BY <1>18, WorldStands DEF Committed, world
<1>19. CASE RollbackOne
  <2>1. PICK id \in todo : IF usable /\ id \in Live THEN DeleteRow(id) ELSE UNCHANGED world
    BY <1>19 DEF RollbackOne
  <2> QED BY <2>1, DeleteRowAges, WorldStands DEF TypeOK
<1>20. CASE RolledBack
  BY <1>20, WorldStands DEF RolledBack, world
<1>21. CASE Cancel
  BY <1>21, WorldStands DEF Cancel, Raise
<1>22. CASE DmDeletes
  BY <1>22, DeleteRowAges DEF DmDeletes, Live
<1>23. CASE DmWrites
  BY <1>23, <1>0 DEF DmWrites, Aged, Live, TypeOK
<1>24. CASE DmUnlinks
  BY <1>24, <1>0 DEF DmUnlinks, Aged, Live, TypeOK
<1>25. CASE Finished
  BY <1>25, WorldStands DEF Finished, vars, world
<1>26. CASE UNCHANGED vars
  BY <1>26, WorldStands DEF vars, world
<1> QED
  BY <1>1, <1>2, <1>3, <1>4, <1>5, <1>6, <1>7, <1>8, <1>9, <1>10, <1>11, <1>12, <1>13,
     <1>14, <1>15, <1>16, <1>17, <1>18, <1>19, <1>20, <1>21, <1>22, <1>23, <1>24, <1>25, <1>26 DEF Next

-----------------------------------------------------------------------------
(* What was created *)

LEMMA SameRecords ==
  ASSUME UNCHANGED <<draft, ref_to_id>>
  PROVE  /\ Recorded' = Recorded
         /\ RefsDiffer' = RefsDiffer
         /\ draft'.entities = draft.entities
  BY DEF Recorded, RefsDiffer, Range

(* A recorded entity is one that was created, which is not drawn again. *)
LEMMA RecordedTypes ==
  ASSUME TypeOK
  PROVE  Recorded \subseteq Ids
  BY DEF TypeOK, Recorded, Range

(* The step leaves the records alone: what it says about them stands if the *)
(* place of the node is no new one.                                         *)
LEMMA CreatedStands ==
  ASSUME TypeOK, CreatedInv, Aged,
         UNCHANGED <<draft, ref_to_id, created, drawn>>,
         pc' \in Opening => pc \in Opening,
         pc' \in Making => pc \in Making /\ i' = i,
         pc' = "indexing" => pc = "indexing",
         ~cancelled' => ~cancelled /\ (pc = "indexing" => pc' = "indexing"),
         usable' /\ ~cancelled' =>
           /\ pc' = "rollback" => Recorded \cap Live' \subseteq todo'
           /\ pc' = "failed" => Recorded \cap Live' = {}
  PROVE  CreatedInv'
<1>1. \A id \in created' : title'[id] # Unborn
  BY DEF CreatedInv, Aged, TypeOK
<1>2. pc' \in Making => \A r \in Refs : ref_to_id'[r] # Unborn =>
        \E k \in DOMAIN draft'.entities : k < i' /\ draft'.entities[k].ref = r
  BY DEF CreatedInv
<1>3. RefsDiffer' /\ ~cancelled' =>
        created' \subseteq Recorded' \cup (IF pc' = "indexing" THEN {drawn'} ELSE {})
  BY SameRecords DEF CreatedInv
<1> QED BY <1>1, <1>2, <1>3, SameRecords DEF CreatedInv

(* The compensation starts with everything that is recorded. *)
LEMMA CreatedRaise ==
  ASSUME TypeOK, CreatedInv, Aged, NEW works, Raise(works),
         pc = "indexing" => cancelled', cancelled => cancelled'
  PROVE  CreatedInv'
<1>1. todo' = Recorded /\ pc' = "rollback"
  BY DEF Raise, Recorded
<1> QED BY <1>1, CreatedStands DEF Raise, Opening, Making, history, progress

LEMMA CreatedStep ==
  ASSUME TypeOK, PlaceInv, CreatedInv, [Next]_vars
  PROVE  CreatedInv'
<1>0. Aged
  BY RowsAge
<1>b. Recorded \cap Live' \subseteq Recorded \cap Live
  BY <1>0, RecordedTypes DEF Aged, CreatedInv
<1>a. created \subseteq Ids /\ Recorded \subseteq created /\ i \in Nat
  BY DEF TypeOK, CreatedInv
<1>26. CASE UNCHANGED vars
  BY <1>26, SameRecords DEF vars, CreatedInv, Live
<1>1. CASE ListWorld
  BY <1>1, <1>0, CreatedStands DEF ListWorld, Opening, Making, progress, history
<1>2. CASE CheckRelationship
  BY <1>2, <1>0, CreatedStands DEF CheckRelationship, Opening, Making, progress, history
<1>3. CASE Preflighted
  <2>1. ASSUME NEW r \in Refs PROVE ref_to_id[r] = Unborn
    <3>1. Recorded = {}
      BY <1>3 DEF Preflighted, CreatedInv, Opening
    <3> QED BY <3>1 DEF Recorded, Range, TypeOK
  <2>2. created = {} /\ Recorded = {}
    BY <1>3 DEF Preflighted, CreatedInv, Opening
  <2>3. /\ UNCHANGED <<ref_to_id, created, draft>> /\ pc' \in {"stale", "create"}
    BY <1>3 DEF Preflighted, Enter, progress, history
  <2> QED BY <2>1, <2>2, <2>3, SameRecords DEF CreatedInv, Opening, Making
<1>4. CASE CreateRow
  <2>1. PICK id \in Ids :
          /\ title[id] = Unborn /\ title' = [title EXCEPT ![id] = draft.entities[i].title]
          /\ drawn' = id /\ created' = created \cup {id}
    BY <1>4 DEF CreateRow
  <2>2. draft.entities[i].title # Unborn
    BY <1>4, EntityTypes, AbsentAssumption DEF CreateRow, TypeOK
  <2>3. \A n \in created' : title'[n] # Unborn
    BY <2>1, <2>2 DEF CreatedInv, TypeOK
  <2>4. pc = "create" /\ pc' = "indexing" /\ UNCHANGED <<draft, ref_to_id, i, cancelled>>
    BY <1>4 DEF CreateRow
  <2>5. RefsDiffer' /\ ~cancelled' => created' \subseteq Recorded' \cup {drawn'}
    BY <2>1, <2>4, SameRecords DEF CreatedInv
  <2> QED BY <2>1, <2>3, <2>4, <2>5, SameRecords DEF CreatedInv, Opening, Making
<1>5. CASE CreateReturns
  <2> DEFINE ref == draft.entities[i].ref
  <2>1. /\ pc = "indexing" /\ pc' = "create" /\ i' = i + 1
        /\ ref_to_id' = [ref_to_id EXCEPT ![ref] = drawn]
        /\ UNCHANGED <<title, draft, created, cancelled>>
    BY <1>5 DEF CreateReturns, world, history
  <2>2. i \in DOMAIN draft.entities /\ DOMAIN draft.entities \subseteq Nat /\ ref \in Refs
    BY <2>1, EntityTypes DEF PlaceInv, TypeOK
  <2>3. drawn \in created /\ drawn # Unborn
    BY <1>a, <2>1, AbsentAssumption DEF CreatedInv
  <2>4. \A r \in Refs : ref_to_id'[r] = IF r = ref THEN drawn ELSE ref_to_id[r]
    BY <2>1 DEF TypeOK
  <2>5. Recorded = {ref_to_id[r] : r \in Refs} \ {Unborn}
    BY DEF Recorded, Range, TypeOK
  <2>6. Recorded' = {ref_to_id'[r] : r \in Refs} \ {Unborn}
    BY <2>1 DEF Recorded, Range, TypeOK
  <2>7. Recorded' \subseteq created
    BY <1>a, <2>3, <2>4, <2>5, <2>6
  <2>8. \A r \in Refs : ref_to_id'[r] # Unborn =>
          \E k \in DOMAIN draft.entities : k < i' /\ draft.entities[k].ref = r
    <3> SUFFICES ASSUME NEW r \in Refs, ref_to_id'[r] # Unborn
                 PROVE  \E k \in DOMAIN draft.entities : k < i + 1 /\ draft.entities[k].ref = r
      BY <2>1
    <3>1. CASE r = ref
      BY <1>a, <2>2, <3>1
    <3>2. CASE r # ref
      <4>1. PICK k \in DOMAIN draft.entities : k < i /\ draft.entities[k].ref = r
        BY <2>1, <2>4, <3>2 DEF CreatedInv, Making
      <4> QED BY <1>a, <2>2, <4>1
    <3> QED BY <3>1, <3>2
  <2>9. RefsDiffer /\ ~cancelled => created \subseteq Recorded'
    <3> SUFFICES ASSUME RefsDiffer, ~cancelled PROVE created \subseteq Recorded'
      OBVIOUS
    <3>1. ref_to_id[ref] = Unborn
      <4> SUFFICES ASSUME ref_to_id[ref] # Unborn PROVE FALSE
        OBVIOUS
      <4>1. PICK k \in DOMAIN draft.entities : k < i /\ draft.entities[k].ref = ref
        BY <2>1, <2>2 DEF CreatedInv, Making
      <4>2. k = i
        BY <2>2, <4>1 DEF RefsDiffer
      <4> QED BY <1>a, <4>1, <4>2
    <3>2. Recorded \subseteq Recorded' /\ drawn \in Recorded'
      BY <2>2, <2>3, <2>4, <2>5, <2>6, <3>1
    <3>3. created \subseteq Recorded \cup {drawn}
      BY <2>1 DEF CreatedInv
    <3> QED BY <3>2, <3>3
  <2>10. \A id \in created' : title'[id] # Unborn
    BY <2>1 DEF CreatedInv
  <2>11. RefsDiffer' = RefsDiffer
    BY <2>1 DEF RefsDiffer
  <2> HIDE DEF ref
  <2> QED BY <2>1, <2>7, <2>8, <2>9, <2>10, <2>11 DEF CreatedInv, Opening, Making
<1>6. CASE Created
  BY <1>6, <1>0, CreatedStands DEF Created, Enter, Opening, Making, progress, history
<1>7. CASE PatchRead
  BY <1>7, <1>0, CreatedStands DEF PatchRead, Opening, Making, progress, history
<1>8. CASE PatchMissing
  BY <1>8, <1>0, CreatedRaise DEF PatchMissing
<1>9. CASE PatchWrite
  BY <1>9, <1>0, CreatedStands DEF PatchWrite, Opening, Making, progress, history
<1>10. CASE PatchLost
  BY <1>10, <1>0, CreatedRaise DEF PatchLost
<1>11. CASE Patched
  BY <1>11, <1>0, CreatedStands DEF Patched, Enter, Opening, Making, progress, history
<1>12. CASE RelateRead
  BY <1>12, <1>0, CreatedStands DEF RelateRead, Opening, Making, progress, history
<1>13. CASE RelateSkip
  BY <1>13, <1>0, CreatedStands DEF RelateSkip, Opening, Making, progress, history
<1>14. CASE LinkWrite
  BY <1>14, <1>0, CreatedStands DEF LinkWrite, RelateNext, Enter, Opening, Making, progress, history
<1>15. CASE RelinkWrite
  BY <1>15, <1>0, CreatedStands DEF RelinkWrite, RelateNext, Enter, Opening, Making, progress, history
<1>16. CASE UnlinkWrite
  BY <1>16, <1>0, CreatedStands DEF UnlinkWrite, RelateNext, Enter, Opening, Making, progress, history
<1>17. CASE RelateLost
  BY <1>17, <1>0, CreatedRaise DEF RelateLost
<1>18. CASE Committed
  BY <1>18, <1>0, CreatedStands DEF Committed, Opening, Making, progress, history
<1>19. CASE RollbackOne
  <2>1. PICK id \in todo : /\ todo' = todo \ {id}
                          /\ IF usable /\ id \in Live THEN DeleteRow(id) ELSE UNCHANGED world
    BY <1>19 DEF RollbackOne
  <2>2. /\ pc = "rollback" /\ UNCHANGED <<draft, pc, i, ref_to_id, created, drawn, usable, cancelled>>
    BY <1>19 DEF RollbackOne, history
  <2>3. usable /\ ~cancelled => Recorded \cap Live' \subseteq todo'
    <3> SUFFICES ASSUME usable, Recorded \cap Live \subseteq todo
                 PROVE  Recorded \cap Live' \subseteq todo'
      BY <2>2 DEF CreatedInv
    <3>1. Live' = Live \ {id}
      BY <2>1, DeleteRowAges, WorldStands DEF TypeOK
    <3> QED BY <2>1, <3>1
  <2> QED BY <1>0, <2>2, <2>3, CreatedStands DEF Opening, Making
<1>20. CASE RolledBack
  <2>1. Live' = Live
    BY <1>20, WorldStands DEF RolledBack
  <2>2. usable /\ ~cancelled => Recorded \cap Live = {}
    BY <1>20 DEF RolledBack, CreatedInv
  <2> QED BY <1>20, <1>0, <2>1, <2>2, CreatedStands DEF RolledBack, Opening, Making, history, progress
<1>21. CASE Cancel
  <2>1. CASE \E works \in BOOLEAN : Raise(works)
    BY <1>21, <1>0, <2>1, CreatedRaise DEF Cancel
  <2>2. CASE /\ pc' = "failed"
             /\ UNCHANGED <<world, draft, i, progress, edits, history, moved>>
    BY <1>21, <1>0, <2>2, CreatedStands DEF Cancel, Opening, Making, history, progress
  <2> QED BY <1>21, <2>1, <2>2 DEF Cancel, TypeOK
<1>22. CASE DmDeletes
  <2>1. /\ pc \notin Ended
        /\ UNCHANGED <<draft, pc, i, ref_to_id, created, drawn, usable, todo, cancelled>>
    BY <1>22 DEF DmDeletes, DmMoves, progress, history
  <2> QED BY <1>0, <1>a, <1>b, <2>1, CreatedStands DEF CreatedInv, Ended
<1>23. CASE DmWrites
  <2>1. /\ pc \notin Ended
        /\ UNCHANGED <<draft, pc, i, ref_to_id, created, drawn, usable, todo, cancelled>>
    BY <1>23 DEF DmWrites, DmMoves, progress, history
  <2> QED BY <1>0, <1>a, <1>b, <2>1, CreatedStands DEF CreatedInv, Ended
<1>24. CASE DmUnlinks
  <2>1. /\ pc \notin Ended
        /\ UNCHANGED <<draft, pc, i, ref_to_id, created, drawn, usable, todo, cancelled>>
    BY <1>24 DEF DmUnlinks, DmMoves, progress, history
  <2> QED BY <1>0, <1>a, <1>b, <2>1, CreatedStands DEF CreatedInv, Ended
<1>25. CASE Finished
  BY <1>25, <1>26 DEF Finished
<1> QED
  BY <1>1, <1>2, <1>3, <1>4, <1>5, <1>6, <1>7, <1>8, <1>9, <1>10, <1>11, <1>12, <1>13,
     <1>14, <1>15, <1>16, <1>17, <1>18, <1>19, <1>20, <1>21, <1>22, <1>23, <1>24, <1>25, <1>26 DEF Next

(* What the run created is what it recorded, and the one in flight; the
   compensation leaves none of what is recorded in the world. *)
THEOREM WhatWasCreated == Spec => []CreatedInv
<1>1. Init => CreatedInv
  BY DEF Init, CreatedInv, Recorded, Range, Opening, Making
<1>2. TypeOK /\ PlaceInv /\ CreatedInv /\ [Next]_vars => CreatedInv'
  BY CreatedStep
<1> QED BY <1>1, <1>2, TypeAndPlace, PTL DEF Spec

(* CompensatedIfUsable: the rollback of commit.py deletes every recorded
   entity as long as the session works, whatever the game master deletes
   or renames meanwhile. *)
THEOREM Compensated == Spec => []CompensatedIfUsable
<1>1. CreatedInv => CompensatedIfUsable
  <2> SUFFICES ASSUME CreatedInv, pc = "failed", usable, ~cancelled
               PROVE  /\ Range(ref_to_id) \cap Live = {}
                      /\ RefsDiffer => created \cap Live = {}
    BY DEF CompensatedIfUsable
  <2>1. Recorded \cap Live = {} /\ (RefsDiffer => created \subseteq Recorded)
    BY DEF CreatedInv
  <2>2. Unborn \notin Live
    BY AbsentAssumption DEF Live
  <2> QED BY <2>1, <2>2 DEF Recorded
<1> QED BY <1>1, WhatWasCreated, PTL
-----------------------------------------------------------------------------
(* While the world stands still *)

(* What the preflight saw stands if no row is lost but by a deletion of the *)
(* proposal that was tried.                                                 *)
LEMMA ReadyStands ==
  ASSUME Ready, listed \subseteq Live,
         UNCHANGED <<draft, listed, ref_to_id>>, tried \subseteq tried', Live \subseteq Live',
         \A e \in LiveEdges : \/ e \in LiveEdges'
                              \/ \E j \in tried' : IsA(j, "delete") /\ Operation(j).edge = e
  PROVE  Ready' /\ listed' \subseteq Live'
<1>1. \A k : Operation(k)' = Operation(k) /\ \A op : IsA(k, op)' = IsA(k, op)
  BY DEF Operation, IsA
<1>2. Positions' = Positions /\ DraftRefs' = DraftRefs /\ Recorded' = Recorded
  BY DEF Positions, DraftRefs, Recorded, Range
<1>3. PatchesLive'
  BY DEF Ready, PatchesLive
<1>4. ASSUME NEW k \in Positions PROVE UpToDate(k)'
  <2>1. UpToDate(k)
    BY DEF Ready
  <2>2. CASE IsA(k, "create")
    BY <1>1, <1>2, <2>1, <2>2 DEF UpToDate
  <2>3. CASE ~IsA(k, "create")
    BY <1>1, <2>1, <2>3 DEF UpToDate
  <2> QED BY <2>2, <2>3
<1> QED BY <1>2, <1>3, <1>4 DEF Ready

LEMMA ReadyWhileStanding ==
  ASSUME Ready, listed \subseteq Live, tried \subseteq tried',
         UNCHANGED <<world, draft, listed, ref_to_id>>
  PROVE  Ready' /\ listed' \subseteq Live'
  BY WorldStands, ReadyStands

LEMMA SameStill ==
  ASSUME UNCHANGED draft
  PROVE  /\ Positions' = Positions /\ DraftRefs' = DraftRefs
         /\ \A k : Operation(k)' = Operation(k)
         /\ \A k : DeletedTwice(k)' = DeletedTwice(k)
         /\ UNCHANGED ref_to_id => Recorded' = Recorded /\ \A k : Named(k)' = Named(k)
  BY DEF Positions, DraftRefs, Operation, DeletedTwice, Named, Recorded, Range

LEMMA SameAddresses ==
  ASSUME UNCHANGED <<world, draft, ref_to_id>>
  PROVE  \A k : Addresses(Operation(k))' = Addresses(Operation(k))
<1>1. Live' = Live /\ LiveEdges' = LiveEdges
  BY WorldStands
<1>2. \A k : Operation(k)' = Operation(k)
  BY DEF Operation
<1>3. \A k : EndsOf(Operation(k))' = EndsOf(Operation(k))
  BY <1>2 DEF EndsOf, Resolve
<1> QED BY <1>1, <1>2, <1>3 DEF Addresses

(* An operation the preflight passed is skipped only if the proposal deletes *)
(* the relationship twice: its refs are named, and updates go first.        *)
LEMMA SkipsTwice ==
  ASSUME TypeOK, OrderInv, Ready, listed \subseteq Live,
         \A k \in DOMAIN draft.entities : Named(k),
         NEW k, Turn(k), ~Addresses(Operation(k))
  PROVE  DeletedTwice(k)
<1>1. k \in Positions \ tried /\ UpToDate(k) /\ draft \in Proposals
  BY DEF Turn, Ready, TypeOK
<1>2. ~IsA(k, "create")
  <2> SUFFICES ASSUME IsA(k, "create") PROVE FALSE
    OBVIOUS
  <2>1. ASSUME NEW ref \in DraftRefs \cup listed PROVE Resolve(ref) \in Live
    <3>1. CASE ref \in Refs /\ ref_to_id[ref] # Unborn
      BY <3>1 DEF Resolve, Ready, Recorded, Range, TypeOK
    <3>2. CASE ref \in DraftRefs
      <4>1. PICK n \in DOMAIN draft.entities : ref = draft.entities[n].ref
        BY <3>2 DEF DraftRefs
      <4>2. ref \in Refs
        BY <1>1, <4>1, EntityTypes
      <4>3. ref_to_id[ref] # Unborn
        BY <4>1 DEF Named
      <4> QED BY <3>1, <4>2, <4>3
    <3>3. CASE ref \in listed /\ ~(ref \in Refs /\ ref_to_id[ref] # Unborn)
      BY <3>3 DEF Resolve
    <3> QED BY <2>1, <3>1, <3>2, <3>3
  <2>2. Operation(k).source \in DraftRefs \cup listed /\ Operation(k).target \in DraftRefs \cup listed
    BY <1>1 DEF UpToDate
  <2>3. {EndsOf(Operation(k)).source, EndsOf(Operation(k)).target} \subseteq Live
    BY <2>1, <2>2 DEF EndsOf
  <2> QED BY <2>3 DEF Addresses, IsA
<1>3. Operation(k).edge \notin LiveEdges
  BY <1>2 DEF Addresses, IsA
<1>4. PICK j \in tried : IsA(j, "delete") /\ Operation(j).edge = Operation(k).edge
  BY <1>1, <1>2, <1>3 DEF UpToDate
<1>5. j \in Positions /\ j # k /\ Before(j, k)
  BY <1>1, <1>4 DEF TypeOK, OrderInv
<1>6. Operation(k).op = "delete"
  BY <1>1, <1>2, <1>4, <1>5, OperationTypes DEF Before, Rank, IsA
<1>7. Operation(j) \in [op : {"delete"}, edge : EdgeIds]
      /\ Operation(k) \in [op : {"delete"}, edge : EdgeIds]
  BY <1>1, <1>4, <1>5, <1>6, OperationTypes DEF IsA, Operations
<1>8. Operation(j) = Operation(k)
  BY <1>4, <1>7
<1> QED BY <1>5, <1>6, <1>8 DEF DeletedTwice

LEMMA StillStep ==
  ASSUME TypeOK, PlaceInv, CreatedInv, OrderInv, StillInv, [Next]_vars
  PROVE  StillInv'
<1>0. SUFFICES ASSUME ~moved', ~cancelled' PROVE Still'
  BY DEF StillInv
<1>a. i \in Nat \ {0} /\ draft \in Proposals /\ created \subseteq Ids
  BY DEF TypeOK
<1>26. CASE UNCHANGED vars
  <2>1. UNCHANGED <<world, draft, ref_to_id, listed, tried, moved, cancelled, pc, i, stale, drawn, skipped>>
    BY <1>26 DEF vars, world
  <2>2. Still
    BY <1>0, <2>1 DEF StillInv
  <2>3. Live' = Live /\ LiveEdges' = LiveEdges
    BY <2>1, WorldStands
  <2>4. \A k : UpToDate(k)' = UpToDate(k)
    BY <2>1, <2>3 DEF UpToDate, IsA, Operation, DraftRefs
  <2>5. PatchesLive' = PatchesLive
    BY <2>1, <2>3 DEF PatchesLive
  <2>6. Ready' = Ready
    BY <2>1, <2>3, <2>4, <2>5, SameStill DEF Ready
  <2> QED BY <2>1, <2>2, <2>3, <2>4, <2>5, <2>6, SameStill, SameAddresses DEF Still
<1>1. CASE ListWorld
  <2>1. pc = "list" /\ pc' = "check" /\ i' = i /\ i = 1
        /\ listed' = Live /\ stale' = (StalePatch \/ Namesake)
        /\ UNCHANGED <<world, draft, skipped, tried>>
    BY <1>1 DEF ListWorld, PlaceInv
  <2>2. Live' = Live
    BY <2>1, WorldStands
  <2>3. ~stale' => PatchesLive'
    BY <2>1, <2>2 DEF StalePatch, PatchesLive
  <2>4. skipped = {}
    BY <2>1 DEF PlaceInv, Opening, TypeOK
  <2>5. ~ \E k \in Positions' : k < i'
    BY <1>a, <2>1, DraftTypes, SameStill
  <2> QED BY <2>1, <2>2, <2>3, <2>4, <2>5 DEF Still, Opening, Making, Patching, Relating, Applying, Failing
<1>2. CASE CheckRelationship
  <2>1. /\ pc = "check" /\ pc' = "check" /\ i' = i + 1 /\ i <= Len(draft.relationships)
        /\ stale' = (stale \/ Outdated(Operation(i)))
        /\ UNCHANGED <<world, listed, draft, ref_to_id, skipped, tried, moved, cancelled>>
    BY <1>2 DEF CheckRelationship
  <2>2. Still
    BY <1>0, <2>1 DEF StillInv
  <2>3. Live' = Live /\ LiveEdges' = LiveEdges
    BY <2>1, WorldStands
  <2>4. \A k : UpToDate(k)' = UpToDate(k)
    BY <2>1, <2>3 DEF UpToDate, IsA, Operation, DraftRefs
  <2>5. ASSUME ~stale' PROVE PatchesLive' /\ \A k \in Positions' : k < i' => UpToDate(k)'
    <3>1. UpToDate(i) /\ ~stale
      BY <2>1, <2>5 DEF Outdated, UpToDate, IsA
    <3>2. PatchesLive
      BY <2>1, <2>2, <3>1 DEF Still
    <3>3. \A k \in Positions : k < i => UpToDate(k)
      BY <2>1, <2>2, <3>1 DEF Still
    <3>4. \A k \in Positions : k < i + 1 => k < i \/ k = i
      BY <1>a, DraftTypes
    <3> QED BY <2>1, <2>3, <2>4, <3>1, <3>2, <3>3, <3>4, SameStill DEF PatchesLive
  <2> QED BY <2>1, <2>2, <2>3, <2>5, SameStill DEF Still, Opening, Making, Patching, Relating, Applying, Failing
<1>3. CASE Preflighted
  <2>1. /\ pc = "check" /\ pc' = (IF stale THEN "stale" ELSE "create")
        /\ i' = 1 /\ i > Len(draft.relationships)
        /\ UNCHANGED <<world, listed, draft, ref_to_id, skipped, tried, moved, cancelled>>
    BY <1>3 DEF Preflighted, Enter, progress
  <2>2. Still
    BY <1>0, <2>1 DEF StillInv
  <2>3. skipped = {} /\ Recorded = {}
    BY <2>1 DEF PlaceInv, CreatedInv, Opening, TypeOK
  <2>4. CASE stale
    BY <2>1, <2>3, <2>4 DEF Still, Opening, Making, Patching, Relating, Applying, Failing
  <2>5. CASE ~stale
    <3>1. \A k \in Positions : k < i
      BY <1>a, <2>1, DraftTypes
    <3>2. Ready /\ listed \subseteq Live
      BY <2>1, <2>2, <2>3, <2>5, <3>1 DEF Ready, Still
    <3>3. Ready' /\ listed' \subseteq Live'
      BY <2>1, <3>2, ReadyWhileStanding
    <3>4. ~ \E k \in DOMAIN draft'.entities : k < i'
      BY <1>a, <2>1, EntityTypes
    <3> QED BY <2>1, <2>3, <2>5, <3>3, <3>4 DEF Still, Opening, Making, Patching, Relating, Applying, Failing
  <2> QED BY <2>4, <2>5
<1>4. CASE CreateRow
  <2>1. PICK id \in Ids :
          /\ title[id] = Unborn /\ title' = [title EXCEPT ![id] = draft.entities[i].title]
          /\ drawn' = id
    BY <1>4 DEF CreateRow
  <2>2. /\ pc = "create" /\ pc' = "indexing" /\ i <= Len(draft.entities)
        /\ UNCHANGED <<i, edge, listed, draft, ref_to_id, skipped, tried, moved, cancelled>>
    BY <1>4 DEF CreateRow
  <2>3. Still
    BY <1>0, <2>2 DEF StillInv
  <2>4. draft.entities[i].title \in Titles
    BY <1>a, <2>2, EntityTypes
  <2>5. Live \subseteq Live' /\ id \in Live'
    BY <2>1, <2>4 DEF Live, TypeOK
  <2>6. LiveEdges' = LiveEdges
    BY <2>2 DEF LiveEdges
  <2>7. Ready /\ listed \subseteq Live
    BY <2>2, <2>3 DEF Still, Applying, Making
  <2>8. Ready' /\ listed' \subseteq Live'
    BY <2>2, <2>5, <2>6, <2>7, ReadyStands
  <2> QED BY <2>1, <2>2, <2>3, <2>5, <2>8, SameStill DEF Still, Opening, Making, Patching, Relating, Applying, Failing
<1>5. CASE CreateReturns
  <2> DEFINE ref == draft.entities[i].ref
  <2>1. /\ pc = "indexing" /\ pc' = "create" /\ i' = i + 1
        /\ ref_to_id' = [ref_to_id EXCEPT ![ref] = drawn]
        /\ UNCHANGED <<world, listed, draft, skipped, tried, moved, cancelled>>
    BY <1>5 DEF CreateReturns
  <2>2. Still
    BY <1>0, <2>1 DEF StillInv
  <2>3. ref \in Refs /\ drawn \in Ids /\ drawn # Unborn
    BY <1>a, <2>1, EntityTypes, AbsentAssumption DEF PlaceInv, CreatedInv
  <2>4. \A r \in Refs : ref_to_id'[r] = IF r = ref THEN drawn ELSE ref_to_id[r]
    BY <2>1 DEF TypeOK
  <2>5. Recorded' \subseteq Recorded \cup {drawn}
    BY <2>1, <2>4 DEF Recorded, Range, TypeOK
  <2>6. \A k \in DOMAIN draft'.entities : k < i' => Named(k)'
    <3> SUFFICES ASSUME NEW k \in DOMAIN draft.entities, k < i + 1 PROVE Named(k)'
      BY <2>1
    <3>1. k \in Nat /\ draft.entities[k].ref \in Refs
      BY <1>a, EntityTypes
    <3>2. CASE k = i
      BY <2>1, <2>3, <2>4, <3>2 DEF Named
    <3>3. CASE k < i
      <4>1. Named(k)
        BY <2>1, <2>2, <3>3 DEF Still, Making
      <4> QED BY <2>1, <2>3, <2>4, <3>1, <4>1 DEF Named
    <3> QED BY <1>a, <3>1, <3>2, <3>3
  <2>7. Live' = Live /\ LiveEdges' = LiveEdges
    BY <2>1, WorldStands
  <2>8. \A k : UpToDate(k)' = UpToDate(k)
    BY <2>1, <2>7 DEF UpToDate, IsA, Operation, DraftRefs
  <2>9. Ready /\ listed \subseteq Live /\ drawn \in Live
    BY <2>1, <2>2 DEF Still, Applying, Making
  <2>10. PatchesLive'
    BY <2>1, <2>7, <2>9 DEF Ready, PatchesLive
  <2>11. Ready'
    BY <2>1, <2>5, <2>7, <2>8, <2>9, <2>10, SameStill DEF Ready
  <2> HIDE DEF ref
  <2> QED BY <2>1, <2>2, <2>6, <2>7, <2>9, <2>11, SameStill DEF Still, Opening, Making, Patching, Relating, Applying, Failing
<1>6. CASE Created
  <2>1. /\ pc = "create" /\ pc' = "patch" /\ i > Len(draft.entities)
        /\ UNCHANGED <<world, listed, draft, ref_to_id, skipped, tried, moved, cancelled>>
    BY <1>6 DEF Created, Enter, progress
  <2>2. Still
    BY <1>0, <2>1 DEF StillInv
  <2>3. Ready /\ listed \subseteq Live
    BY <2>1, <2>2 DEF Still, Applying, Making, Patching, Relating
  <2>4. Ready' /\ listed' \subseteq Live'
    BY <2>1, <2>3, ReadyWhileStanding
  <2>5. \A k \in DOMAIN draft.entities : Named(k)
    BY <1>a, <2>1, <2>2, EntityTypes DEF Still, Making
  <2> QED BY <2>1, <2>2, <2>4, <2>5, SameStill DEF Still, Opening, Making, Patching, Relating, Applying, Failing
<1>7. CASE PatchRead
  <2>1. /\ pc = "patch" /\ pc' = "patching" /\ UNCHANGED i
        /\ UNCHANGED <<world, listed, draft, ref_to_id, skipped, tried, moved, cancelled>>
    BY <1>7 DEF PatchRead, Enter, progress
  <2>2. Still
    BY <1>0, <2>1 DEF StillInv
  <2>3. Ready /\ listed \subseteq Live
    BY <2>1, <2>2 DEF Still, Applying, Making, Patching, Relating
  <2>4. Ready' /\ listed' \subseteq Live'
    BY <2>1, <2>3, ReadyWhileStanding
  <2> QED BY <2>1, <2>2, <2>4, SameStill DEF Still, Opening, Making, Patching, Relating, Applying, Failing
<1>8. CASE PatchMissing
  <2>1. pc = "patch" /\ i <= Len(draft.patches) /\ draft.patches[i] \notin Live /\ UNCHANGED <<moved, cancelled>>
    BY <1>8 DEF PlaceInv, PatchMissing, Raise
  <2>2. Still
    BY <1>0, <2>1 DEF StillInv
  <2>3. PatchesLive
    BY <2>1, <2>2 DEF Still, Ready, Applying, Patching
  <2>4. i \in DOMAIN draft.patches
    BY <1>a, <2>1, DraftTypes
  <2> QED BY <2>1, <2>3, <2>4 DEF PatchesLive
<1>9. CASE PatchWrite
  <2>1. /\ pc = "patching" /\ pc' = "patch"
        /\ UNCHANGED <<world, listed, draft, ref_to_id, skipped, tried, moved, cancelled>>
    BY <1>9 DEF PatchWrite, Enter, progress
  <2>2. Still
    BY <1>0, <2>1 DEF StillInv
  <2>3. Ready /\ listed \subseteq Live
    BY <2>1, <2>2 DEF Still, Applying, Making, Patching, Relating
  <2>4. Ready' /\ listed' \subseteq Live'
    BY <2>1, <2>3, ReadyWhileStanding
  <2> QED BY <2>1, <2>2, <2>4, SameStill DEF Still, Opening, Making, Patching, Relating, Applying, Failing
<1>10. CASE PatchLost
  <2>1. pc = "patching" /\ i <= Len(draft.patches) /\ draft.patches[i] \notin Live /\ UNCHANGED <<moved, cancelled>>
    BY <1>10 DEF PlaceInv, PatchLost, Raise
  <2>2. Still
    BY <1>0, <2>1 DEF StillInv
  <2>3. PatchesLive
    BY <2>1, <2>2 DEF Still, Ready, Applying, Patching
  <2>4. i \in DOMAIN draft.patches
    BY <1>a, <2>1, DraftTypes
  <2> QED BY <2>1, <2>3, <2>4 DEF PatchesLive
<1>11. CASE Patched
  <2>1. /\ pc = "patch" /\ pc' = "relate"
        /\ UNCHANGED <<world, listed, draft, ref_to_id, skipped, tried, moved, cancelled>>
    BY <1>11 DEF Patched, Enter, progress
  <2>2. Still
    BY <1>0, <2>1 DEF StillInv
  <2>3. Ready /\ listed \subseteq Live
    BY <2>1, <2>2 DEF Still, Applying, Making, Patching, Relating
  <2>4. Ready' /\ listed' \subseteq Live'
    BY <2>1, <2>3, ReadyWhileStanding
  <2> QED BY <2>1, <2>2, <2>4, SameStill DEF Still, Opening, Making, Patching, Relating, Applying, Failing
<1>12. CASE RelateRead
  <2>0. PICK k \in Positions : Turn(k) /\ Addresses(Operation(k)) /\ i' = k
    BY <1>12 DEF RelateRead
  <2>1. /\ pc = "relate" /\ pc' = "writing"
        /\ UNCHANGED <<world, listed, draft, ref_to_id, skipped, tried, moved, cancelled>>
    BY <1>12 DEF RelateRead, Enter, progress
  <2>2. Still
    BY <1>0, <2>1 DEF StillInv
  <2>3. Ready /\ listed \subseteq Live
    BY <2>1, <2>2 DEF Still, Applying, Making, Patching, Relating
  <2>4. Ready' /\ listed' \subseteq Live'
    BY <2>1, <2>3, ReadyWhileStanding
  <2>5. Addresses(Operation(i))'
    <3>1. Operation(i)' = Operation(k)' /\ Addresses(Operation(k))'
      BY <2>0, <2>1, SameAddresses DEF Operation
    <3> QED BY <3>1 DEF Addresses, EndsOf, Resolve
  <2> QED BY <2>1, <2>2, <2>4, <2>5, SameStill DEF Still, Opening, Making, Patching, Relating, Applying, Failing
<1>13. CASE RelateSkip
  <2>0. PICK k \in Positions : /\ Turn(k) /\ ~Addresses(Operation(k))
                              /\ skipped' = skipped \cup {k} /\ tried' = tried \cup {k}
    BY <1>13 DEF RelateSkip
  <2>1. /\ pc = "relate" /\ pc' = "relate"
        /\ UNCHANGED <<world, listed, draft, ref_to_id, moved, cancelled>>
    BY <1>13 DEF RelateSkip
  <2>2. Still
    BY <1>0, <2>1 DEF StillInv
  <2>3. Ready /\ listed \subseteq Live /\ \A n \in DOMAIN draft.entities : Named(n)
    BY <2>1, <2>2 DEF Still, Applying, Relating
  <2>4. Ready' /\ listed' \subseteq Live'
    BY <2>0, <2>1, <2>3, ReadyWhileStanding
  <2>5. DeletedTwice(k)
    BY <2>0, <2>3, SkipsTwice
  <2>6. \A n \in skipped' : DeletedTwice(n)'
    BY <2>0, <2>1, <2>2, <2>5, SameStill DEF Still
  <2> QED BY <2>1, <2>3, <2>4, <2>6, SameStill DEF Still, Opening, Making, Patching, Relating, Applying, Failing
<1>14. CASE LinkWrite
  <2>1. /\ pc = "writing" /\ pc' = "relate" /\ tried' = tried \cup {i}
        /\ UNCHANGED <<title, listed, draft, ref_to_id, skipped, moved, cancelled>>
    BY <1>14 DEF LinkWrite, RelateNext, Enter
  <2>2. Still
    BY <1>0, <2>1 DEF StillInv
  <2>3. Ready /\ listed \subseteq Live
    BY <2>1, <2>2 DEF Still, Applying, Relating
  <2>4. \A e \in LiveEdges : e \in LiveEdges'
    <3>1. PICK e \in EdgeIds : edge' = [edge EXCEPT ![e] = EndsOf(Operation(i))]
      BY <1>14 DEF LinkWrite
    <3>2. EndsOf(Operation(i)) \in Ends
      BY <1>14 DEF LinkWrite, Addresses, EndsOf, Ends, Live
    <3> QED BY <3>1, <3>2 DEF LiveEdges, TypeOK
  <2>5. Ready' /\ listed' \subseteq Live'
    <3>1. Live' = Live
      BY <2>1 DEF Live
    <3> QED BY <2>1, <2>3, <2>4, <3>1, ReadyStands
  <2> QED BY <2>1, <2>2, <2>5, SameStill DEF Still, Opening, Making, Patching, Relating, Applying, Failing
<1>15. CASE RelinkWrite
  <2>1. /\ pc = "writing" /\ pc' = "relate" /\ tried' = tried \cup {i}
        /\ UNCHANGED <<title, listed, draft, ref_to_id, skipped, moved, cancelled>>
    BY <1>15 DEF RelinkWrite, RelateNext, Enter
  <2>2. Still
    BY <1>0, <2>1 DEF StillInv
  <2>3. Ready /\ listed \subseteq Live
    BY <2>1, <2>2 DEF Still, Applying, Relating
  <2>4. \A e \in LiveEdges : e \in LiveEdges'
    <3> DEFINE e == Operation(i).edge
    <3>1. edge[e] \in Ends
      BY <1>15 DEF RelinkWrite, Addresses, LiveEdges
    <3>2. \/ UNCHANGED edge
          \/ edge' = [edge EXCEPT ![e] =
                       [source |-> edge[e].target, target |-> edge[e].source]]
      BY <1>15 DEF RelinkWrite, TypeOK
    <3>3. [source |-> edge[e].target, target |-> edge[e].source] \in Ends
      BY <3>1 DEF Ends
    <3> HIDE DEF e
    <3> QED BY <3>2, <3>3 DEF LiveEdges, TypeOK
  <2>5. Ready' /\ listed' \subseteq Live'
    <3>1. Live' = Live
      BY <2>1 DEF Live
    <3> QED BY <2>1, <2>3, <2>4, <3>1, ReadyStands
  <2> QED BY <2>1, <2>2, <2>5, SameStill DEF Still, Opening, Making, Patching, Relating, Applying, Failing
<1>16. CASE UnlinkWrite
  <2>1. /\ pc = "writing" /\ pc' = "relate" /\ tried' = tried \cup {i}
        /\ UNCHANGED <<title, listed, draft, ref_to_id, skipped, moved, cancelled>>
    BY <1>16 DEF UnlinkWrite, RelateNext, Enter
  <2>2. Still
    BY <1>0, <2>1 DEF StillInv
  <2>3. Ready /\ listed \subseteq Live
    BY <2>1, <2>2 DEF Still, Applying, Relating
  <2>4. \A e \in LiveEdges : e \in LiveEdges' \/ \E j \in tried' : IsA(j, "delete") /\ Operation(j).edge = e
    <3>1. edge' = [edge EXCEPT ![Operation(i).edge] = Gone] /\ IsA(i, "delete")
      BY <1>16 DEF UnlinkWrite, IsA
    <3> QED BY <2>1, <3>1 DEF LiveEdges, TypeOK
  <2>5. Ready' /\ listed' \subseteq Live'
    <3>1. Live' = Live
      BY <2>1 DEF Live
    <3> QED BY <2>1, <2>3, <2>4, <3>1, ReadyStands
  <2> QED BY <2>1, <2>2, <2>5, SameStill DEF Still, Opening, Making, Patching, Relating, Applying, Failing
<1>17. CASE RelateLost
  <2>1. pc = "writing" /\ ~Addresses(Operation(i)) /\ UNCHANGED <<moved, cancelled>>
    BY <1>17 DEF RelateLost, Raise
  <2>2. Still
    BY <1>0, <2>1 DEF StillInv
  <2> QED BY <2>1, <2>2 DEF Still
<1>18. CASE Committed
  <2>1. /\ pc = "relate" /\ pc' = "done"
        /\ UNCHANGED <<world, listed, draft, ref_to_id, skipped, tried, moved, cancelled>>
    BY <1>18 DEF Committed, Enter, progress
  <2>2. Still
    BY <1>0, <2>1 DEF StillInv
  <2>3. Ready /\ listed \subseteq Live
    BY <2>1, <2>2 DEF Still, Applying, Making, Patching, Relating
  <2>4. Ready' /\ listed' \subseteq Live'
    BY <2>1, <2>3, ReadyWhileStanding
  <2> QED BY <2>1, <2>2, <2>4, SameStill DEF Still, Opening, Making, Patching, Relating, Applying, Failing
<1>19. CASE RollbackOne
  <2>1. pc = "rollback" /\ UNCHANGED <<moved, cancelled>>
    BY <1>19 DEF RollbackOne
  <2>2. Still
    BY <1>0, <2>1 DEF StillInv
  <2> QED BY <2>1, <2>2 DEF Still, Failing
<1>20. CASE RolledBack
  <2>1. pc = "rollback" /\ UNCHANGED <<moved, cancelled>>
    BY <1>20 DEF RolledBack
  <2>2. Still
    BY <1>0, <2>1 DEF StillInv
  <2> QED BY <2>1, <2>2 DEF Still, Failing
<1>21. CASE Cancel
  BY <1>21, <1>0 DEF Cancel
<1>22. CASE DmDeletes
  <2>1. pc = "list" /\ UNCHANGED <<pc, skipped>>
    BY <1>22, <1>0 DEF DmDeletes, DmMoves, progress
  <2>2. skipped = {}
    BY <2>1 DEF PlaceInv, Opening, TypeOK
  <2> QED BY <2>1, <2>2 DEF Still, Opening, Making, Patching, Relating, Applying, Failing
<1>23. CASE DmWrites
  <2>1. pc = "list" /\ UNCHANGED <<pc, skipped>>
    BY <1>23, <1>0 DEF DmWrites, DmMoves, progress
  <2>2. skipped = {}
    BY <2>1 DEF PlaceInv, Opening, TypeOK
  <2> QED BY <2>1, <2>2 DEF Still, Opening, Making, Patching, Relating, Applying, Failing
<1>24. CASE DmUnlinks
  <2>1. pc = "list" /\ UNCHANGED <<pc, skipped>>
    BY <1>24, <1>0 DEF DmUnlinks, DmMoves, progress
  <2>2. skipped = {}
    BY <2>1 DEF PlaceInv, Opening, TypeOK
  <2> QED BY <2>1, <2>2 DEF Still, Opening, Making, Patching, Relating, Applying, Failing
<1>25. CASE Finished
  BY <1>25, <1>26 DEF Finished
<1> QED
  BY <1>1, <1>2, <1>3, <1>4, <1>5, <1>6, <1>7, <1>8, <1>9, <1>10, <1>11, <1>12, <1>13,
     <1>14, <1>15, <1>16, <1>17, <1>18, <1>19, <1>20, <1>21, <1>22, <1>23, <1>24, <1>25, <1>26 DEF Next

(* While nobody else writes, what the preflight saw stands, and every stage
   finds what it looks for. *)
THEOREM WhileStill == Spec => []StillInv
<1>1. Init => StillInv
  BY DEF Init, StillInv, Still, Opening, Making, Patching, Relating, Applying, Failing
<1>2. TypeOK /\ PlaceInv /\ CreatedInv /\ OrderInv /\ StillInv /\ [Next]_vars => StillInv'
  BY StillStep
<1> QED BY <1>1, <1>2, TypeAndPlace, WhatWasCreated, Order, PTL DEF Spec

(* PreflightSuffices: the preflight of commit.py is complete; if the world
   stands still after it, the commit does not fail, and gives up nothing but
   the second deletion of one relationship. *)
THEOREM Preflight == Spec => []PreflightSuffices
<1>1. StillInv => PreflightSuffices
  BY DEF StillInv, Still, PreflightSuffices, Failing
<1> QED BY <1>1, WhileStill, PTL
-----------------------------------------------------------------------------
(* What was done is counted *)

LEMMA EntityCountStep ==
  ASSUME TypeOK, PlaceInv, CreatedInv, EntityCount, [Next]_vars
  PROVE  EntityCount'
<1>0. i \in Nat \ {0} /\ Len(draft.entities) \in Nat /\ created \subseteq Ids
  BY EntityTypes DEF TypeOK
<1> USE DEF Opening, Making, Patching, Relating, Failing, Stages, Ended
<1>1. CASE ListWorld
  BY <1>1, <1>0 DEF ListWorld, EntityCount, PlaceInv, world, progress, history
<1>2. CASE CheckRelationship
  BY <1>2, <1>0 DEF CheckRelationship, EntityCount, PlaceInv, world, progress, history
<1>3. CASE Preflighted
  <2>1. created = {} /\ i' = 1 /\ pc' \in {"stale", "create"} /\ UNCHANGED created
    BY <1>3 DEF Preflighted, CreatedInv, Enter, history
  <2> QED BY <2>1, FS_EmptySet DEF EntityCount
<1>4. CASE CreateRow
  <2>1. PICK id \in Ids : title[id] = Unborn /\ created' = created \cup {id}
    BY <1>4 DEF CreateRow
  <2>2. id \notin created
    BY <2>1 DEF CreatedInv
  <2>3. IsFiniteSet(created') /\ Cardinality(created') = Cardinality(created) + 1
    BY <2>1, <2>2, FS_AddElement DEF EntityCount
  <2> QED BY <1>4, <1>0, <2>3 DEF CreateRow, EntityCount
<1>5. CASE CreateReturns
  BY <1>5, <1>0 DEF CreateReturns, EntityCount, PlaceInv, world, progress, history
<1>6. CASE Created
  BY <1>6, <1>0 DEF Created, Enter, EntityCount, PlaceInv, world, progress, history
<1>7. CASE PatchRead
  BY <1>7, <1>0 DEF PatchRead, EntityCount, PlaceInv, world, progress, history
<1>8. CASE PatchMissing
  BY <1>8, <1>0 DEF PatchMissing, Raise, EntityCount, PlaceInv, world, progress, history
<1>9. CASE PatchWrite
  BY <1>9, <1>0 DEF PatchWrite, EntityCount, PlaceInv, world, progress, history
<1>10. CASE PatchLost
  BY <1>10, <1>0 DEF PatchLost, Raise, EntityCount, PlaceInv, world, progress, history
<1>11. CASE Patched
  BY <1>11, <1>0 DEF Patched, Enter, EntityCount, PlaceInv, world, progress, history
<1>12. CASE RelateRead
  BY <1>12, <1>0 DEF RelateRead, EntityCount, PlaceInv, world, progress, history
<1>13. CASE RelateSkip
  BY <1>13, <1>0 DEF RelateSkip, EntityCount, PlaceInv, world, progress, history
<1>14. CASE LinkWrite
  BY <1>14, <1>0 DEF LinkWrite, RelateNext, Enter, EntityCount, PlaceInv, world, progress, history
<1>15. CASE RelinkWrite
  BY <1>15, <1>0 DEF RelinkWrite, RelateNext, Enter, EntityCount, PlaceInv, world, progress, history
<1>16. CASE UnlinkWrite
  BY <1>16, <1>0 DEF UnlinkWrite, RelateNext, Enter, EntityCount, PlaceInv, world, progress, history
<1>17. CASE RelateLost
  BY <1>17, <1>0 DEF RelateLost, Raise, EntityCount, PlaceInv, world, progress, history
<1>18. CASE Committed
  BY <1>18, <1>0 DEF Committed, EntityCount, PlaceInv, world, progress, history
<1>19. CASE RollbackOne
  BY <1>19, <1>0 DEF RollbackOne, EntityCount, PlaceInv, world, progress, history
<1>20. CASE RolledBack
  BY <1>20, <1>0 DEF RolledBack, EntityCount, PlaceInv, world, progress, history
<1>21. CASE Cancel
  BY <1>21, <1>0 DEF Cancel, Raise, EntityCount, PlaceInv, world, progress, history
<1>22. CASE DmDeletes
  BY <1>22, <1>0 DEF DmDeletes, DmMoves, EntityCount, PlaceInv, world, progress, history
<1>23. CASE DmWrites
  BY <1>23, <1>0 DEF DmWrites, DmMoves, EntityCount, PlaceInv, world, progress, history
<1>24. CASE DmUnlinks
  BY <1>24, <1>0 DEF DmUnlinks, DmMoves, EntityCount, PlaceInv, world, progress, history
<1>25. CASE Finished
  BY <1>25, <1>0 DEF Finished, vars, EntityCount, PlaceInv, world, progress, history
<1>26. CASE UNCHANGED vars
  BY <1>26, <1>0 DEF vars, EntityCount, PlaceInv, world, progress, history
<1> QED
  BY <1>1, <1>2, <1>3, <1>4, <1>5, <1>6, <1>7, <1>8, <1>9, <1>10, <1>11, <1>12, <1>13,
     <1>14, <1>15, <1>16, <1>17, <1>18, <1>19, <1>20, <1>21, <1>22, <1>23, <1>24, <1>25, <1>26 DEF Next

LEMMA PatchCountStep ==
  ASSUME TypeOK, PlaceInv, PatchCount, [Next]_vars
  PROVE  PatchCount'
<1>0. /\ i \in Nat \ {0} /\ draft \in Proposals
      /\ Len(draft.patches) \in Nat /\ DOMAIN draft.patches = 1 .. Len(draft.patches)
  BY DraftTypes DEF TypeOK
<1>a. UNCHANGED ref_to_id => Recorded' = Recorded
  BY DEF Recorded, Range
<1> USE DEF Opening, Making, Patching, Relating, Failing, Stages, Ended
<1>1. CASE ListWorld
  BY <1>1, <1>0, <1>a DEF ListWorld, PatchCount, world, progress, history
<1>2. CASE CheckRelationship
  BY <1>2, <1>0, <1>a DEF CheckRelationship, PatchCount, world, progress, history
<1>3. CASE Preflighted
  BY <1>3, <1>0, <1>a DEF Preflighted, Enter, PatchCount, world, progress, history
<1>4. CASE CreateRow
  BY <1>4, <1>0, <1>a DEF CreateRow, PatchCount, world, progress, history
<1>5. CASE CreateReturns
  BY <1>5, <1>0, <1>a DEF CreateReturns, PatchCount, world, progress, history
<1>6. CASE Created
  <2>1. 1 .. i' - 1 = {} /\ pc = "create" /\ pc' = "patch" /\ UNCHANGED patched
    BY <1>6 DEF Created, Enter, progress
  <2> QED BY <2>1 DEF PatchCount
<1>7. CASE PatchRead
  BY <1>7, <1>0, <1>a DEF PatchRead, PatchCount, world, progress, history
<1>8. CASE PatchMissing
  BY <1>8, <1>0, <1>a DEF PatchMissing, Raise, PatchCount, world, progress, history
<1>9. CASE PatchWrite
  <2>1. /\ pc = "patching" /\ pc' = "patch" /\ i' = i + 1 /\ UNCHANGED draft
        /\ patched' = patched \cup {draft.patches[i]}
    BY <1>9 DEF PatchWrite
  <2>2. 1 .. i = (1 .. i - 1) \cup {i} /\ i' - 1 = i
    BY <1>0, <2>1
  <2>3. patched = {draft.patches[k] : k \in 1 .. i - 1}
    BY <2>1 DEF PatchCount
  <2>4. patched' = {draft.patches[k] : k \in 1 .. i}
    BY <2>1, <2>2, <2>3
  <2> QED BY <2>1, <2>2, <2>4 DEF PatchCount
<1>10. CASE PatchLost
  BY <1>10, <1>0, <1>a DEF PatchLost, Raise, PatchCount, world, progress, history
<1>11. CASE Patched
  <2>1. pc = "patch" /\ pc' = "relate" /\ UNCHANGED <<patched, draft>>
    BY <1>11 DEF Patched, Enter, progress
  <2>2. i - 1 = Len(draft.patches)
    BY <1>11, <1>0 DEF Patched, PlaceInv
  <2>3. patched = {draft.patches[k] : k \in 1 .. i - 1}
    BY <2>1 DEF PatchCount
  <2>4. patched = Range(draft.patches)
    BY <1>0, <2>2, <2>3 DEF Range
  <2> QED BY <2>1, <2>4 DEF PatchCount
<1>12. CASE RelateRead
  <2>1. pc \in Relating /\ pc' \in Relating /\ UNCHANGED <<patched, draft>>
    BY <1>12 DEF RelateRead, progress
  <2> QED BY <2>1 DEF PatchCount
<1>13. CASE RelateSkip
  <2>1. pc \in Relating /\ pc' \in Relating /\ UNCHANGED <<patched, draft>>
    BY <1>13 DEF RelateSkip, progress
  <2> QED BY <2>1 DEF PatchCount
<1>14. CASE LinkWrite
  <2>1. pc \in Relating /\ pc' \in Relating /\ UNCHANGED <<patched, draft>>
    BY <1>14 DEF LinkWrite, RelateNext, Enter, progress
  <2> QED BY <2>1 DEF PatchCount
<1>15. CASE RelinkWrite
  <2>1. pc \in Relating /\ pc' \in Relating /\ UNCHANGED <<patched, draft>>
    BY <1>15 DEF RelinkWrite, RelateNext, Enter, progress
  <2> QED BY <2>1 DEF PatchCount
<1>16. CASE UnlinkWrite
  <2>1. pc \in Relating /\ pc' \in Relating /\ UNCHANGED <<patched, draft>>
    BY <1>16 DEF UnlinkWrite, RelateNext, Enter, progress
  <2> QED BY <2>1 DEF PatchCount
<1>17. CASE RelateLost
  BY <1>17, <1>0, <1>a DEF RelateLost, Raise, PatchCount, world, progress, history
<1>18. CASE Committed
  <2>1. /\ pc = "relate" /\ pc' = "done" /\ UNCHANGED <<patched, draft, ref_to_id>>
        /\ committed' = Recorded \cup patched
    BY <1>18 DEF Committed, progress, Recorded
  <2> QED BY <1>a, <2>1 DEF PatchCount
<1>19. CASE RollbackOne
  BY <1>19, <1>0, <1>a DEF RollbackOne, PatchCount, world, progress, history
<1>20. CASE RolledBack
  BY <1>20, <1>0, <1>a DEF RolledBack, PatchCount, world, progress, history
<1>21. CASE Cancel
  BY <1>21, <1>0, <1>a DEF Cancel, Raise, PatchCount, world, progress, history
<1>22. CASE DmDeletes
  BY <1>22, <1>0, <1>a DEF DmDeletes, DmMoves, PatchCount, world, progress, history
<1>23. CASE DmWrites
  BY <1>23, <1>0, <1>a DEF DmWrites, DmMoves, PatchCount, world, progress, history
<1>24. CASE DmUnlinks
  BY <1>24, <1>0, <1>a DEF DmUnlinks, DmMoves, PatchCount, world, progress, history
<1>25. CASE Finished
  BY <1>25, <1>0, <1>a DEF Finished, vars, PatchCount, world, progress, history
<1>26. CASE UNCHANGED vars
  BY <1>26, <1>0, <1>a DEF vars, PatchCount, world, progress, history
<1> QED
  BY <1>1, <1>2, <1>3, <1>4, <1>5, <1>6, <1>7, <1>8, <1>9, <1>10, <1>11, <1>12, <1>13,
     <1>14, <1>15, <1>16, <1>17, <1>18, <1>19, <1>20, <1>21, <1>22, <1>23, <1>24, <1>25, <1>26 DEF Next

(* Only LinkWrite draws a relationship. *)
LEMMA DrawnStand ==
  ASSUME TypeOK, PlaceInv, EdgeCount, [Next]_vars, ~LinkWrite
  PROVE  DrawnEdges' = DrawnEdges
<1>0. Unborn # Gone /\ Unborn \notin Ends /\ Aged
  BY AbsentAssumption, RowsAge
<1> SUFFICES ASSUME NEW e \in EdgeIds, edge[e] = Unborn PROVE edge'[e] = Unborn
  BY <1>0 DEF DrawnEdges, Aged
<1>1. CASE ListWorld
  BY <1>1 DEF ListWorld, world
<1>2. CASE CheckRelationship
  BY <1>2 DEF CheckRelationship, world
<1>3. CASE Preflighted
  BY <1>3 DEF Preflighted, Enter, world
<1>4. CASE CreateRow
  BY <1>4 DEF CreateRow, world
<1>5. CASE CreateReturns
  BY <1>5 DEF CreateReturns, world
<1>6. CASE Created
  BY <1>6 DEF Created, Enter, world
<1>7. CASE PatchRead
  BY <1>7 DEF PatchRead, world
<1>8. CASE PatchMissing
  BY <1>8 DEF PatchMissing, Raise, world
<1>9. CASE PatchWrite
  BY <1>9 DEF PatchWrite, world
<1>10. CASE PatchLost
  BY <1>10 DEF PatchLost, Raise, world
<1>11. CASE Patched
  BY <1>11 DEF Patched, Enter, world
<1>12. CASE RelateRead
  BY <1>12 DEF RelateRead, world
<1>13. CASE RelateSkip
  BY <1>13 DEF RelateSkip, world
<1>14. CASE LinkWrite
  BY <1>14
<1>15. CASE RelinkWrite
  <2>1. e # Operation(i).edge
    BY <1>15 DEF RelinkWrite, EdgeCount, IsA
  <2>2. \E x : edge' = [edge EXCEPT ![Operation(i).edge] = x]
    BY <1>15 DEF RelinkWrite
  <2> QED BY <2>1, <2>2 DEF TypeOK
<1>16. CASE UnlinkWrite
  <2>1. e # Operation(i).edge
    BY <1>16 DEF UnlinkWrite, EdgeCount, IsA
  <2>2. \E x : edge' = [edge EXCEPT ![Operation(i).edge] = x]
    BY <1>16 DEF UnlinkWrite
  <2> QED BY <2>1, <2>2 DEF TypeOK
<1>17. CASE RelateLost
  BY <1>17 DEF RelateLost, Raise, world
<1>18. CASE Committed
  BY <1>18 DEF Committed, world
<1>19. CASE RollbackOne
  <2>1. (\E id \in Ids : DeleteRow(id)) \/ UNCHANGED edge
    BY <1>19 DEF RollbackOne, world, TypeOK
  <2> QED BY <1>0, <2>1 DEF DeleteRow, LiveEdges
<1>20. CASE RolledBack
  BY <1>20 DEF RolledBack, world
<1>21. CASE Cancel
  BY <1>21 DEF Cancel, Raise, world
<1>22. CASE DmDeletes
  BY <1>22, <1>0 DEF DmDeletes, DeleteRow, LiveEdges
<1>23. CASE DmWrites
  BY <1>23 DEF DmWrites, DmMoves, world
<1>24. CASE DmUnlinks
  BY <1>24, <1>0 DEF DmUnlinks, LiveEdges, TypeOK
<1>25. CASE Finished
  BY <1>25 DEF Finished, vars, world
<1>26. CASE UNCHANGED vars
  BY <1>26 DEF vars
<1> QED
  BY <1>1, <1>2, <1>3, <1>4, <1>5, <1>6, <1>7, <1>8, <1>9, <1>10, <1>11, <1>12, <1>13,
     <1>14, <1>15, <1>16, <1>17, <1>18, <1>19, <1>20, <1>21, <1>22, <1>23, <1>24, <1>25, <1>26 DEF Next

(* The proposal is settled; only RelateRead gets to writing, and only four  *)
(* actions try an operation.                                                *)
LEMMA Routes ==
  ASSUME TypeOK, PlaceInv, [Next]_vars
  PROVE  /\ draft' = draft
         /\ pc' = "writing" => RelateRead \/ (pc = "writing" /\ i' = i)
         /\ \/ UNCHANGED <<tried, skipped>>
            \/ RelateSkip \/ LinkWrite \/ RelinkWrite \/ UnlinkWrite
<1>1. CASE ListWorld
  BY <1>1 DEF ListWorld, progress, history
<1>2. CASE CheckRelationship
  BY <1>2 DEF CheckRelationship, progress, history
<1>3. CASE Preflighted
  BY <1>3 DEF Preflighted, Enter, progress, history
<1>4. CASE CreateRow
  BY <1>4 DEF CreateRow, progress, history
<1>5. CASE CreateReturns
  BY <1>5 DEF CreateReturns, progress, history
<1>6. CASE Created
  BY <1>6 DEF Created, Enter, progress, history
<1>7. CASE PatchRead
  BY <1>7 DEF PatchRead, progress, history
<1>8. CASE PatchMissing
  BY <1>8 DEF PatchMissing, Raise, progress, history
<1>9. CASE PatchWrite
  BY <1>9 DEF PatchWrite, progress, history
<1>10. CASE PatchLost
  BY <1>10 DEF PatchLost, Raise, progress, history
<1>11. CASE Patched
  BY <1>11 DEF Patched, Enter, progress, history
<1>12. CASE RelateRead
  BY <1>12 DEF RelateRead, progress
<1>13. CASE RelateSkip
  BY <1>13 DEF RelateSkip
<1>14. CASE LinkWrite
  BY <1>14 DEF LinkWrite, RelateNext, Enter
<1>15. CASE RelinkWrite
  BY <1>15 DEF RelinkWrite, RelateNext, Enter
<1>16. CASE UnlinkWrite
  BY <1>16 DEF UnlinkWrite, RelateNext, Enter
<1>17. CASE RelateLost
  BY <1>17 DEF RelateLost, Raise, progress, history
<1>18. CASE Committed
  BY <1>18 DEF Committed, progress, history
<1>19. CASE RollbackOne
  BY <1>19 DEF RollbackOne, progress, history
<1>20. CASE RolledBack
  BY <1>20 DEF RolledBack, progress, history
<1>21. CASE Cancel
  BY <1>21 DEF Cancel, Raise, progress, history
<1>22. CASE DmDeletes
  BY <1>22 DEF DmDeletes, DmMoves, progress, history
<1>23. CASE DmWrites
  BY <1>23 DEF DmWrites, DmMoves, progress, history
<1>24. CASE DmUnlinks
  BY <1>24 DEF DmUnlinks, DmMoves, progress, history
<1>25. CASE Finished
  BY <1>25 DEF Finished, vars, progress, history
<1>26. CASE UNCHANGED vars
  BY <1>26 DEF vars, progress, history
<1> QED
  BY <1>1, <1>2, <1>3, <1>4, <1>5, <1>6, <1>7, <1>8, <1>9, <1>10, <1>11, <1>12, <1>13,
     <1>14, <1>15, <1>16, <1>17, <1>18, <1>19, <1>20, <1>21, <1>22, <1>23, <1>24, <1>25, <1>26 DEF Next

LEMMA EdgeCountStep ==
  ASSUME TypeOK, PlaceInv, EdgeCount, [Next]_vars
  PROVE  EdgeCount'
<1>1. Aged /\ draft' = draft /\ draft \in Proposals
  BY RowsAge, Routes DEF TypeOK
<1>2. Positions' = Positions /\ \A k, op : IsA(k, op)' = IsA(k, op)
  BY <1>1, SameOrder
<1>3. tried \subseteq Positions /\ tried' \subseteq Positions /\ skipped \subseteq tried
  <2>1. TypeOK'
    BY TypeStep
  <2> QED BY <1>2, <2>1 DEF TypeOK
<1>4. IsFiniteSet(Linked) /\ IsFiniteSet(Linked')
  <2>1. IsFiniteSet(Positions)
    BY <1>1, DraftTypes, FS_Interval
  <2>2. Linked \subseteq Positions /\ Linked' \subseteq Positions
    BY <1>3 DEF Linked
  <2> QED BY <2>1, <2>2, FS_Subset
<1>5. \A e \in DOMAIN Standings : edge'[e] # Unborn
  BY <1>1, StandingAssumption DEF EdgeCount, Aged
<1>6. ASSUME pc' = "writing", ~IsA(i, "create")'
      PROVE  edge'[Operation(i).edge'] # Unborn
  <2>1. CASE RelateRead
    <3>1. PICK k \in Positions : Turn(k) /\ Addresses(Operation(k)) /\ i' = k
      BY <2>1 DEF RelateRead
    <3>2. Operation(i)' = Operation(k) /\ ~IsA(k, "create")
      BY <1>1, <1>6, <3>1 DEF Operation, IsA
    <3>3. Operation(k).edge \in LiveEdges
      BY <3>1, <3>2 DEF Addresses, IsA
    <3> QED BY <1>1, <3>2, <3>3, AbsentAssumption DEF LiveEdges, Aged
  <2>2. CASE pc = "writing" /\ i' = i
    <3>1. Operation(i)' = Operation(i) /\ ~IsA(i, "create")
      BY <1>1, <1>6, <2>2 DEF Operation, IsA
    <3>2. i \in Positions
      BY <2>2 DEF PlaceInv, Turn
    <3>3. Operation(i).edge \in EdgeIds /\ edge[Operation(i).edge] # Unborn
      BY <1>1, <2>2, <3>1, <3>2, OperationTypes DEF EdgeCount, IsA
    <3> QED BY <1>1, <3>1, <3>3 DEF Aged
  <2> QED BY <1>6, <2>1, <2>2, Routes
<1>7. IsFiniteSet(DrawnEdges') /\ Cardinality(DrawnEdges') = Cardinality(Linked')
  <2>1. CASE LinkWrite
    <3>1. PICK e \in EdgeIds : /\ edge[e] = Unborn
                              /\ edge' = [edge EXCEPT ![e] = EndsOf(Operation(i))]
      BY <2>1 DEF LinkWrite
    <3>2. EndsOf(Operation(i)) # Unborn
      <4>1. EndsOf(Operation(i)) \in Ends
        BY <2>1 DEF LinkWrite, Addresses, EndsOf, Ends, Live
      <4> QED BY <4>1, AbsentAssumption
    <3>3. e \notin DrawnEdges /\ DrawnEdges' = DrawnEdges \cup {e}
      BY <3>1, <3>2 DEF DrawnEdges, EdgeCount, TypeOK
    <3>4. i \notin tried /\ IsA(i, "create") /\ tried' = tried \cup {i} /\ UNCHANGED skipped
      BY <2>1 DEF LinkWrite, RelateNext, PlaceInv, Turn, IsA
    <3>5. i \notin Linked /\ Linked' = Linked \cup {i}
      BY <1>2, <1>3, <3>4 DEF Linked
    <3>6. IsFiniteSet(DrawnEdges') /\ Cardinality(DrawnEdges') = Cardinality(DrawnEdges) + 1
      BY <3>3, FS_AddElement DEF EdgeCount
    <3>7. Cardinality(Linked') = Cardinality(Linked) + 1
      BY <1>4, <3>5, FS_AddElement
    <3> QED BY <3>6, <3>7 DEF EdgeCount
  <2>2. CASE ~LinkWrite
    <3>1. Linked' = Linked
      <4>1. CASE UNCHANGED <<tried, skipped>>
        BY <1>2, <4>1 DEF Linked
      <4>2. CASE RelateSkip
        <5>1. PICK k \in Positions : /\ Turn(k) /\ skipped' = skipped \cup {k}
                                    /\ tried' = tried \cup {k}
          BY <4>2 DEF RelateSkip
        <5> QED BY <1>2, <5>1 DEF Linked, Turn
      <4>3. CASE RelinkWrite \/ UnlinkWrite
        <5>1. tried' = tried \cup {i} /\ UNCHANGED skipped /\ ~IsA(i, "create")
          BY <4>3 DEF RelinkWrite, UnlinkWrite, RelateNext, IsA
        <5> QED BY <1>2, <5>1 DEF Linked
      <4> QED BY <2>2, <4>1, <4>2, <4>3, Routes
    <3> QED BY <2>2, <3>1, DrawnStand DEF EdgeCount
  <2> QED BY <2>1, <2>2
<1> QED BY <1>5, <1>6, <1>7 DEF EdgeCount

LEMMA DeletionsStep ==
  ASSUME TypeOK, PlaceInv, DeletionsDone, [Next]_vars
  PROVE  DeletionsDone'
<1>1. draft' = draft /\ \A k : Operation(k)' = Operation(k) /\ \A op : IsA(k, op)' = IsA(k, op)
  BY Routes DEF Operation, IsA
<1>2. destroyed \subseteq destroyed'
  BY DEF Next, vars, ListWorld, CheckRelationship, Preflighted, CreateRow, CreateReturns, Created, PatchRead, PatchMissing, PatchWrite, PatchLost, Patched, RelateRead, RelateSkip, LinkWrite, RelinkWrite, UnlinkWrite, RelateLost, Committed, RollbackOne, RolledBack, Cancel, DmDeletes, DmWrites, DmUnlinks, Finished, history, Raise, DmMoves, RelateNext
<1>3. CASE UNCHANGED <<tried, skipped>>
  BY <1>1, <1>2, <1>3 DEF DeletionsDone
<1>4. CASE RelateSkip
  <2>1. PICK k \in Positions : skipped' = skipped \cup {k} /\ tried' = tried \cup {k}
    BY <1>4 DEF RelateSkip
  <2> QED BY <1>1, <1>2, <2>1 DEF DeletionsDone
<1>5. CASE LinkWrite \/ RelinkWrite
  <2>1. tried' = tried \cup {i} /\ UNCHANGED skipped /\ ~IsA(i, "delete")
    BY <1>5 DEF LinkWrite, RelinkWrite, RelateNext, IsA
  <2> QED BY <1>1, <1>2, <2>1 DEF DeletionsDone
<1>6. CASE UnlinkWrite
  <2>1. /\ tried' = tried \cup {i} /\ UNCHANGED skipped
        /\ destroyed' = destroyed \cup {Operation(i).edge}
    BY <1>6 DEF UnlinkWrite, RelateNext
  <2> QED BY <1>1, <2>1 DEF DeletionsDone
<1> QED BY <1>3, <1>4, <1>5, <1>6, Routes

(* What the run inserted, patched, linked and deleted is what the items it
   has passed ask for. *)
THEOREM Counted == Spec => []CountInv
<1>1. Init => CountInv
  <2> SUFFICES ASSUME Init PROVE CountInv
    OBVIOUS
  <2>1. Linked = {} /\ DrawnEdges = {}
    BY StandingAssumption DEF Init, Linked, DrawnEdges
  <2>2. \A e \in DOMAIN Standings : edge[e] # Unborn
    <3> SUFFICES ASSUME NEW e \in DOMAIN Standings PROVE Standings[e] # Unborn
      BY StandingAssumption DEF Init
    <3>1. Standings[e] \in Ends
      BY StandingAssumption DEF Ends
    <3> QED BY <3>1, AbsentAssumption
  <2>3. EdgeCount
    BY <2>1, <2>2, FS_EmptySet DEF Init, EdgeCount
  <2> QED BY <2>3, FS_EmptySet DEF Init, CountInv, EntityCount, PatchCount, DeletionsDone,
                                  Opening, Making, Patching, Relating
<1>2. TypeOK /\ PlaceInv /\ CreatedInv /\ CountInv /\ [Next]_vars => CountInv'
  BY EntityCountStep, PatchCountStep, EdgeCountStep, DeletionsStep DEF CountInv
<1> QED BY <1>1, <1>2, TypeAndPlace, WhatWasCreated, PTL DEF Spec

(* NothingSilentlyDropped: the finished commit did everything that was
   approved, and reports it, whatever happened in the world meanwhile. *)
THEOREM NothingDropped == Spec => []NothingSilentlyDropped
<1>1. TypeOK /\ PlaceInv /\ CreatedInv /\ CountInv => NothingSilentlyDropped
  <2> SUFFICES ASSUME TypeOK, PlaceInv, CreatedInv, CountInv, pc = "done"
               PROVE  NothingSilentlyDropped
    BY DEF NothingSilentlyDropped
  <2>1. tried = Positions /\ ~cancelled
    BY DEF PlaceInv, Failing
  <2>2. committed = Recorded \cup patched /\ patched = Range(draft.patches)
    BY DEF CountInv, PatchCount
  <2>3. RefsDiffer => created \subseteq committed
    BY <2>1, <2>2 DEF CreatedInv
  <2>4. Cardinality(created) = Len(draft.entities)
    BY DEF CountInv, EntityCount
  <2>5. Cardinality(DrawnEdges) = Cardinality(Linked)
    BY DEF CountInv, EdgeCount
  <2>6. \A k \in Positions \ skipped : Operation(k).op = "delete" => Operation(k).edge \in destroyed
    BY <2>1 DEF CountInv, DeletionsDone, IsA
  <2>7. Linked = {k \in Positions \ skipped : Operation(k).op = "create"}
    BY <2>1 DEF Linked, IsA
  <2> QED BY <2>2, <2>3, <2>4, <2>5, <2>6, <2>7 DEF NothingSilentlyDropped, DrawnEdges
<1> QED BY <1>1, TypeAndPlace, WhatWasCreated, Counted, PTL
=============================================================================
