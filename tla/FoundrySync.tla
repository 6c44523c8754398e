---------------------------- MODULE FoundrySync ----------------------------
(***************************************************************************)
(* The Foundry connector: entities are exported as journals, and npcs as   *)
(* actors too, through tools of the bridge's server; actors are imported   *)
(* as npcs.  Each call to the server and each write of a row is a step; a   *)
(* call may fail, before or after the server has done what it was asked.   *)
(***************************************************************************)
EXTENDS Connections

CONSTANTS Journals, Actors, \* ids of documents in Foundry
          Npcs,             \* the entities of type npc
          ByTitle           \* the id of a journal whose id was not told

ASSUME DocumentAssumption ==
  /\ Npcs \subseteq Entities /\ IsFiniteSet(Actors)
  /\ {None, ByTitle} \cap (Journals \cup Actors) = {} /\ ByTitle # None

VARIABLES
  journal, \* each journal: the entity it was made from, None, or Gone
  actor,   \* each actor: likewise, or "foreign"
  origin   \* history: the actor each entity was imported from

world == <<journal, actor, origin>>
FoundryInit ==
  /\ journal = [j \in Journals |-> None]
  /\ actor \in [Actors -> {None, "foreign"}]
  /\ origin = [e \in Entities |-> None]

(* _load_entities and _journal_links: all entities, or those named, which   *)
(* must all be there.                                                      *)
PlanJournals(r) ==
  /\ At(r, Exports, "plan") /\ kind = "foundry"
  /\ \/ \E ids \in SUBSET Present : \E s \in Orders(ids) :
          Put(r, [req[r] EXCEPT !.at = "client", !.todo = s, !.links = LinksOf("journal")])
     \/ Present # Entities /\ Finish(r)
  /\ UNCHANGED <<rows, clients, world, mishaps>>
JournalsReady(r) ==
  /\ At(r, Exports, "ready")
  /\ Work(r, req[r].todo, "item")
  /\ UNCHANGED <<rows, clients, world, mishaps>>

Old(r) == req[r].links[Head(req[r].todo)]

UpdateJournal(r) ==
  /\ At(r, Exports, "item") /\ kind = "foundry" /\ Old(r) # None
  /\ NextItem(r)
  /\ UNCHANGED <<rows, clients, world, mishaps>>

NewDocument(r, ids, docs) ==
  IF Connected(r) /\ Unused(ids, docs) # {} THEN {AnUnused(ids, docs)} ELSE {}

(* create-quest-journal: made, with its id told or not; or an error, the    *)
(* journal perhaps made.                                                   *)
CreateJournal(r) ==
  LET e == Head(req[r].todo) IN
  /\ At(r, Exports, "item") /\ kind = "foundry" /\ Old(r) = None
  /\ \/ \E j \in NewDocument(r, Journals, journal) :
          /\ journal' = [journal EXCEPT ![j] = e]
          /\ \/ \E id \in {j, ByTitle} : Put(r, [req[r] EXCEPT !.at = "link", !.id = id,
                                                       !.seen = Sees(e, "journal")])
                /\ UNCHANGED mishaps
             \/ NextItem(r) /\ Mishap
     \/ NextItem(r) /\ UNCHANGED journal
        /\ IF Connected(r) THEN Mishap ELSE UNCHANGED mishaps
  /\ UNCHANGED <<rows, clients, actor, origin>>

(* The link is refused if the entity or the connection has gone, and with   *)
(* it the export ends.                                                     *)
LinkJournal(r) ==
  LET e == Head(req[r].todo) IN
  /\ At(r, Exports, "link")
  /\ IF ~ CanLink(e) THEN Finish(r) /\ UNCHANGED <<link, older>>
     ELSE /\ Upsert(r, e, "journal", req[r].id)
          /\ IF e \in Npcs THEN Goto(r, "npc") ELSE NextItem(r)
  /\ UNCHANGED <<kind, row, entity, edits, clients, world, mishaps>>

(* _try_create_npc: if the bridge has the tool; failure is no error.        *)
CreateActor(r) ==
  LET e == Head(req[r].todo) IN
  /\ At(r, Exports, "npc")
  /\ \/ \E a \in NewDocument(r, Actors, actor) :
          /\ actor' = [actor EXCEPT ![a] = e]
          /\ \/ Put(r, [req[r] EXCEPT !.at = "npclink", !.id = a, !.seen = Sees(e, "actor")])
             \/ NextItem(r)
     \/ NextItem(r) /\ UNCHANGED actor
  /\ UNCHANGED <<rows, clients, journal, origin, mishaps>>
LinkActor(r) ==
  LET e == Head(req[r].todo) IN
  /\ At(r, Exports, "npclink")
  /\ IF CanLink(e) THEN Upsert(r, e, "actor", req[r].id) /\ NextItem(r)
     ELSE Finish(r) /\ UNCHANGED <<link, older>>
  /\ UNCHANGED <<kind, row, entity, edits, clients, world, mishaps>>

-----------------------------------------------------------------------------
(* Import: list-characters, then for each an actor's link, its detail, an   *)
(* entity and a link.                                                      *)
Characters == {a \in Actors : actor[a] \notin {None, Gone}}
ListCharacters(r) ==
  /\ At(r, {"import"}, "ready") /\ kind = "foundry"
  /\ IF Connected(r) THEN \E s \in Orders(Characters) : Work(r, s, "item") ELSE Finish(r)
  /\ UNCHANGED <<rows, clients, world, mishaps>>

(* get_by_external, in all rows.                                           *)
Linked(a) ==
  \E e \in Entities :
    link[e].actor = a \/ \E n \in DOMAIN older[e].actor : older[e].actor[n] = a

ReadActor(r) ==
  LET a == Head(req[r].todo) IN
  /\ At(r, {"import"}, "item") /\ kind = "foundry"
  /\ IF Linked(a) \/ ~ Connected(r) THEN NextItem(r)
     ELSE Put(r, [req[r] EXCEPT !.at = "create", !.id = a])
  /\ UNCHANGED <<rows, clients, world, mishaps>>
CreateNpc(r) ==
  /\ At(r, {"import"}, "create")
  /\ Unused(Npcs, entity) # {}
  /\ \E e \in {AnUnused(Npcs, entity)}, t \in Titles :
       /\ entity' = [entity EXCEPT ![e] = t]
       /\ origin' = [origin EXCEPT ![e] = req[r].id]
       /\ Put(r, [req[r] EXCEPT !.at = "actorlink", !.npc = e, !.seen = FALSE])
  /\ UNCHANGED <<kind, row, link, older, edits, clients, journal, actor, mishaps>>
LinkNpc(r) ==
  LET e == req[r].npc IN
  /\ At(r, {"import"}, "actorlink")
  /\ IF CanLink(e) THEN Upsert(r, e, "actor", req[r].id) /\ NextItem(r)
     ELSE Finish(r) /\ UNCHANGED <<link, older>>
  /\ UNCHANGED <<kind, row, entity, edits, clients, world, mishaps>>

(* The game master deletes a document in Foundry.                          *)
RemoveDocument ==
  /\ Mishap
  /\ \/ \E j \in Journals : journal[j] \in Entities /\ journal' = [journal EXCEPT ![j] = Gone]
        /\ UNCHANGED actor
     \/ \E a \in Characters : actor' = [actor EXCEPT ![a] = Gone] /\ UNCHANGED journal
  /\ UNCHANGED <<rows, clients, req, origin>>

FoundryNext ==
  \/ \E r \in Requests :
       \/ kind = "foundry" /\ \E op \in Exports : Open(r, op, "plan") /\ UNCHANGED world
       \/ kind = "foundry" /\ Open(r, "import", "client") /\ UNCHANGED world
       \/ PlanJournals(r) \/ JournalsReady(r) \/ UpdateJournal(r) \/ CreateJournal(r)
       \/ LinkJournal(r) \/ CreateActor(r) \/ LinkActor(r)
       \/ ListCharacters(r) \/ ReadActor(r) \/ CreateNpc(r) \/ LinkNpc(r)
  \/ kind = "foundry" /\ RemoveDocument

-----------------------------------------------------------------------------
(* A link names the document its entity was exported to, or imported from:   *)
(* an export never updates another entity's journal.                       *)
DocumentsAreReal ==
  \A e \in Entities :
    /\ link[e].journal \in Journals \union {None, ByTitle}
    /\ link[e].journal \in Journals => journal[link[e].journal] \in {e, Gone}
    /\ link[e].actor \in Actors =>
         actor[link[e].actor] \in {e, Gone} \/ origin[e] = link[e].actor

(* "A second run updates instead of duplicating" (connectors/protocols.py): *)
(* no actor is imported as two entities.                                   *)
ActorImportedOnce ==
  \A e, f \in Entities : origin[e] = origin[f] /\ origin[e] # None => e = f
=============================================================================
