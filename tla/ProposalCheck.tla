---------------------------- MODULE ProposalCheck ----------------------------
(***************************************************************************)
(* A proposal from the model's words to the eve of its writing: what the    *)
(* model was shown, what validation keeps of its draft and says of the      *)
(* rest, the game master's review, and the preflight against the world as   *)
(* it then is.  Titles are compared without case, and retrieval reads the   *)
(* world at once.  The lists of a draft are sets, since each item is judged *)
(* by itself; their order matters to the writing, which is CommitBatch's.   *)
(* AgentTurn has the conversation around these steps.                      *)
(***************************************************************************)
EXTENDS Integers, FiniteSetsExt, Functions

CONSTANTS
  Ids,        \* ids of entities, of this world or invented
  Bonds,      \* ids of relationships
  BondTypes,
  Titles,
  Alike,      \* pairs of titles that count as one name
  SomeDrafts, \* what the model may propose
  Rewrites,   \* what the game master may put in its place
  GameWorlds, \* worlds to begin with
  MAX_ATTEMPTS, MAX_CONTEXT_EDGES,
  MaxMoves    \* bound on the game master's edits
ASSUME ProposalAssumption ==
  /\ {MAX_ATTEMPTS, MAX_CONTEXT_EDGES, MaxMoves} \subseteq Nat
  /\ \A t \in Titles : <<t, t>> \in Alike
  /\ \A w \in GameWorlds : /\ w = [title |-> w.title, bond |-> w.bond]
                           /\ w.title \in [DOMAIN w.title -> Titles]

VARIABLES
  canon,     \* the world: title of each entity, ends and type of each bond
  context,   \* the ids the model was shown
  proposal,  \* where the proposal is, its draft, and what is said of it
  moves      \* the game master's edits so far, at retrieval, and at the last listing
checking == <<canon, context, proposal, moves>>

Nobody == [e \in {} |-> ""]
Entity(ref, title) == [ref |-> ref, title |-> title]
Warning(code, about) == [code |-> code, about |-> about]
EmptyDraft == [entities |-> {}, patches |-> {}, relationships |-> {}]
Refs(entities) == {e.ref : e \in entities}
Existing == DOMAIN canon.title

CheckInit ==
  /\ canon \in GameWorlds /\ context = [entities |-> {}, edges |-> {}]
  /\ proposal = [at |-> "retrieve", draft |-> EmptyDraft, raw |-> EmptyDraft, warnings |-> {},
                 problems |-> {}, attempts |-> 0, listed |-> Nobody, drafted |-> FALSE, rewritten |-> FALSE]
  /\ moves = [now |-> 0, shown |-> 0, listed |-> 0]

-----------------------------------------------------------------------------
(* Retrieval: what the request names, what vectors and graph find, whether   *)
(* or not it is still there; and relationships among these, up to a limit.  *)

AmongThem(bonds, ids) == {b \in DOMAIN bonds : {bonds[b].source, bonds[b].target} \subseteq ids}
Retrieve ==
  /\ proposal.at = "retrieve" /\ UNCHANGED canon
  /\ \E ids \in SUBSET Ids :
     LET among == AmongThem(canon.bond, ids) IN
     \E edges \in SUBSET among :
       /\ Cardinality(edges) = Min({MAX_CONTEXT_EDGES, Cardinality(among)})
       /\ context' = [entities |-> ids, edges |-> edges]
  /\ proposal' = [proposal EXCEPT !.at = "generate"]
  /\ moves' = [moves EXCEPT !.shown = moves.now]

(* Or the budget is spent: what draft there is goes on, and says so. *)
Propose ==
  /\ proposal.at = "generate" /\ UNCHANGED <<canon, context, moves>>
  /\ \/ \E draft \in SomeDrafts :
          proposal' = [proposal EXCEPT !.at = "list", !.raw = draft, !.drafted = TRUE, !.attempts = @ + 1]
     \/ proposal' = [proposal EXCEPT !.at = IF proposal.drafted THEN "list" ELSE "nothing", !.attempts = @ + 1,
                                     !.warnings = @ \cup {Warning("budget_exhausted", "")}]

-----------------------------------------------------------------------------
(* Validation: over the entities as listed, then the edges as read          *)

ListExisting ==
  /\ proposal.at = "list" /\ UNCHANGED <<canon, context>>
  /\ proposal' = [proposal EXCEPT !.at = "validate", !.listed = canon.title]
  /\ moves' = [moves EXCEPT !.listed = moves.now]

(* New entities that have the name of one that exists, and which one.       *)
ClonesOf(entity, listed) == {e \in DOMAIN listed : <<entity.title, listed[e]>> \in Alike}
Clones(entities, listed) == {entity \in entities : ClonesOf(entity, listed) # {}}

(* An operation the model made up, and what to say of it. *)
Objections(r, ends, edges) ==
  IF r.op # "create"
  THEN IF r.edge \in edges THEN {} ELSE {Warning("dropped_unknown_edge", r.edge)}
  ELSE IF r.source \notin ends THEN {Warning("dropped_unknown_source", r.source)}
  ELSE IF r.target \notin ends THEN {Warning("dropped_unknown_target", r.target)}
  ELSE IF r.source = r.target THEN {Warning("dropped_self_relationship", r.source)}
  ELSE {}

(* Variant, to test ReviewIsInformed: a pair counts in one sense only. *)
Conflicts_OneWay(relationships, bonds) ==
  UNION {{Warning("conflicting_relationship", bonds[b].type) :
            b \in {c \in DOMAIN bonds : bonds[c].source = r.source /\ bonds[c].target = r.target}} :
         r \in {q \in relationships : q.op = "create"}}

(* A new relationship over a pair that has one, whatever its sense. *)
Conflicts(relationships, bonds) ==
  UNION {{Warning(IF bonds[b].type = r.type THEN "duplicate_relationship"
                  ELSE "conflicting_relationship", bonds[b].type) :
            b \in {c \in DOMAIN bonds : {bonds[c].source, bonds[c].target} = {r.source, r.target}}} :
         r \in {q \in relationships : q.op = "create"}}

MayRetryClones(clones) == clones # {} /\ proposal.attempts < MAX_ATTEMPTS
KeptPatches(patches, listed) == patches \cap DOMAIN listed
Retry == proposal' = [proposal EXCEPT !.at = "generate"]

(* A clone is dropped by its ref, and with it whatever else has that ref.   *)
Originals(entities, listed) ==
  {entity \in entities : entity.ref \notin Refs(Clones(entities, listed))}

(* Variant, to test RefusedForAReason: the ends of relationships may be refs *)
(* of clones that are dropped.                                             *)
Kept_AnyRef(raw, listed) ==
  LET ends == Refs(raw.entities) \cup context.entities
  IN  [entities |-> Originals(raw.entities, listed),
       patches |-> KeptPatches(raw.patches, listed),
       relationships |-> {r \in raw.relationships : Objections(r, ends, context.edges) = {}}]

(* What is left of a draft, and what is said of the rest. *)
Kept(raw, listed) ==
  LET entities == Originals(raw.entities, listed)
      ends == Refs(entities) \cup context.entities
  IN  [entities |-> entities,
       patches |-> KeptPatches(raw.patches, listed),
       relationships |-> {r \in raw.relationships : Objections(r, ends, context.edges) = {}}]
Said(raw, kept, listed) ==
  LET ends == Refs(kept.entities) \cup context.entities IN
  {Warning("duplicate_of_existing", e.title) : e \in Clones(raw.entities, listed)}
    \cup {Warning("patch_unknown_entity", p) : p \in raw.patches \ DOMAIN listed}
    \cup (UNION {Objections(r, ends, context.edges) : r \in raw.relationships})
    \cup Conflicts(kept.relationships,
                   Restrict(canon.bond, AmongThem(canon.bond, context.entities)))
Validate ==
  /\ proposal.at = "validate" /\ UNCHANGED <<canon, context, moves>>
  /\ LET listed == proposal.listed
         raw == proposal.raw
         kept == Kept(raw, listed)
     IN  IF MayRetryClones(Clones(raw.entities, listed)) THEN Retry
         ELSE proposal' = [proposal EXCEPT !.at = "review", !.draft = kept, !.attempts = @ + 1,
                                           !.warnings = @ \cup Said(raw, kept, listed)]

-----------------------------------------------------------------------------
(* Review and preflight *)

(* The game master approves the draft, or one of their own; or sends it back. *)
Approve ==
  /\ proposal.at = "review" /\ UNCHANGED <<canon, context, moves>>
  /\ \/ proposal' = [proposal EXCEPT !.at = "preflight"]
     \/ \E draft \in Rewrites :
          proposal' = [proposal EXCEPT !.at = "preflight", !.draft = draft, !.rewritten = TRUE]

Revise ==
  /\ proposal.at = "review" /\ UNCHANGED <<canon, context, moves>>
  /\ \E draft \in Rewrites \cup {proposal.draft} :
       proposal' = [proposal EXCEPT !.at = "generate", !.raw = draft, !.attempts = 0, !.warnings = {}]

Stale(draft) ==
  {Warning("stale_patch_target", p) : p \in draft.patches \ Existing}
    \cup {Warning("stale_duplicate_title", e.title) :
            e \in {f \in draft.entities : f.title \in Range(canon.title)}}
    \cup {Warning("stale_relationship_edge", r.edge) :
            r \in {q \in draft.relationships : q.op # "create" /\ q.edge \notin DOMAIN canon.bond}}
    \cup UNION {{Warning("stale_relationship_endpoint", x) :
                   x \in {r.source, r.target} \ (Refs(draft.entities) \cup Existing)} :
                r \in {q \in draft.relationships : q.op = "create"}}
Preflight ==
  /\ proposal.at = "preflight" /\ UNCHANGED <<canon, context, moves>>
  /\ LET problems == Stale(proposal.draft) IN
     proposal' = [proposal EXCEPT !.at = IF problems = {} THEN "write" ELSE "refused",
                                  !.problems = problems]

(* Meanwhile the game master adds, renames, connects and deletes. *)
Move(world) ==
  /\ moves.now < MaxMoves /\ proposal.at \notin {"write", "refused", "nothing"}
  /\ canon' = world /\ moves' = [moves EXCEPT !.now = @ + 1] /\ UNCHANGED <<context, proposal>>
Without(e) ==
  [title |-> Restrict(canon.title, Existing \ {e}),
   bond |-> Restrict(canon.bond, {b \in DOMAIN canon.bond :
                                   e \notin {canon.bond[b].source, canon.bond[b].target}})]
GameMaster ==
  \/ \E e \in Ids, t \in Titles :
       Move([canon EXCEPT !.title = [i \in Existing \cup {e} |-> IF i = e THEN t ELSE canon.title[i]]])
  \/ \E e \in Existing : Move(Without(e))
  \/ \E b \in Bonds \ DOMAIN canon.bond, x, y \in Existing, t \in BondTypes :
       Move([canon EXCEPT !.bond = [i \in DOMAIN @ \cup {b} |->
               IF i = b THEN [source |-> x, target |-> y, type |-> t] ELSE @[i]]])
  \/ \E b \in DOMAIN canon.bond : Move([canon EXCEPT !.bond = Restrict(@, DOMAIN @ \ {b})])

CheckNext ==
  \/ Retrieve \/ Propose \/ ListExisting \/ Validate \/ Approve \/ Revise \/ Preflight \/ GameMaster

CheckSpec == CheckInit /\ [][CheckNext]_checking

-----------------------------------------------------------------------------
(* Properties *)

(* What validation took out of a draft the game master is told of, by name:  *)
(* an entity by its title (unless another has its ref, which drops both), a *)
(* patch by its target, an operation by an end or its edge                  *)
(* (validate_changes, agent/relationships.py).                              *)
Mentions(x) == \E w \in proposal.warnings : w.about = x
DroppedIsSaid ==
  LET raw == proposal.raw
      kept == proposal.draft
      Alone(e) == \A f \in raw.entities \ {e} : f.ref # e.ref
  IN  /\ \A e \in raw.entities :
           e \in kept.entities \/ Mentions(e.title) \/ ~ Alone(e)
      /\ \A p \in raw.patches : p \in kept.patches \/ Mentions(p)
      /\ \A r \in raw.relationships :
           \/ r \in kept.relationships
           \/ IF r.op = "create" THEN Mentions(r.source) \/ Mentions(r.target) ELSE Mentions(r.edge)

(* A kept relationship over a pair that was connected when it was validated  *)
(* comes with a word on that connection, unless an end is a new entity that *)
(* goes by an id of the world.                                              *)
ConflictIsSaid ==
  moves.now = moves.listed =>
    \A r \in proposal.draft.relationships, b \in DOMAIN canon.bond :
      LET pair == {canon.bond[b].source, canon.bond[b].target} IN
      r.op = "create" /\ pair = {r.source, r.target} /\ pair \cap Refs(proposal.draft.entities) = {}
        => \E w \in proposal.warnings :
             /\ w.code \in {"duplicate_relationship", "conflicting_relationship"}
             /\ w.about = canon.bond[b].type

(* The card the game master decides on tells what was taken out of the       *)
(* model's draft and what argues with the world.                            *)
ReviewIsInformed == proposal.at = "review" => DroppedIsSaid /\ ConflictIsSaid

(* A proposal is refused only for a reason: the game master wrote it; a       *)
(* patch or a title for what changed since the entities were listed for its *)
(* validation; an operation on an edge for what changed since retrieval; an *)
(* end for being retrieved though it is of no entity.  What validation lets *)
(* pass, the preflight of a world at rest does not hold against it          *)
(* (_preflight, agent/nodes/commit.py).                                     *)
RefusedForAReason ==
  proposal.at = "refused" /\ ~ proposal.rewritten =>
    \A w \in proposal.problems :
      CASE w.code \in {"stale_patch_target", "stale_duplicate_title"} -> moves.now > moves.listed
        [] w.code = "stale_relationship_edge" -> moves.now > moves.shown
        [] OTHER -> w.about \in context.entities \ Existing
=============================================================================
