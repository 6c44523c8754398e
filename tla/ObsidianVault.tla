--------------------------- MODULE ObsidianVault ----------------------------
(***************************************************************************)
(* The Obsidian connector: each entity is exported as a note of a vault,    *)
(* whose file is named after its title, and the notes are imported as      *)
(* entities.  The vault is the user's, who moves, copies, writes and        *)
(* deletes notes too.                                                      *)
(***************************************************************************)
EXTENDS Connections

CONSTANTS
  Files,     \* names of files
  FileOf     \* the file name that each title is sanitized to

ASSUME FileAssumption == IsFiniteSet(Files) /\ FileOf \in [Titles -> Files]

VARIABLES
  vault,     \* each path: the entity its note is of and its title, or None
  kept       \* history: entities exported, and no note of theirs lost since

Paths == Files \X (Entities \union {None})
Note(e, t) == [of |-> e, title |-> t]
Notes == [of : Entities \cup {None}, title : Titles]
ASSUME NoteAssumption == None \notin Notes

VaultInit == vault = [p \in Paths |-> None] /\ kept = {}

-----------------------------------------------------------------------------
(* Export *)

(* _note_relpath: titles that occur twice in the project get an id suffix.  *)
PathOf(e, titles) ==
  <<FileOf[titles[e]], IF \E f \in Entities \ {e} : titles[f] = titles[e] THEN e ELSE None>>

PlanNotes(r) ==
  /\ At(r, Exports, "notes")
  /\ \/ \E ids \in SUBSET Present : \E s \in Orders(ids) :
          IF s = <<>> THEN Finish(r)
          ELSE Put(r, [req[r] EXCEPT !.at = "item", !.todo = s, !.titles = entity,
                                     !.links = LinksOf("md_file")])
     \/ Present # Entities /\ Finish(r)
  /\ UNCHANGED <<rows, clients, vault, kept, mishaps>>

Target(r) == PathOf(Head(req[r].todo), req[r].titles)
Stale(r) == req[r].links[Head(req[r].todo)]
OfOthers(ps, e) == {vault[p].of : p \in {q \in ps : vault[q] # None}} \ {e, None}

(* Variant, to test NotesSurvive: the old path is removed also when the note *)
(* did not move.                                                           *)
Moves_Always(r) == Stale(r) # None

(* The note's path has changed since its link was read.                    *)
Moves(r) == Stale(r) \notin {None, Target(r)}

(* Another export is between the two files of the same note.               *)
Moving(e) == {q \in Requests : At(q, Exports, "stale") /\ Head(req[q].todo) = e}
Crossing(r) == Moving(Head(req[r].todo)) \ {r} # {}

Written(r) == [req[r] EXCEPT !.at = "mdlink", !.id = Target(r),
                             !.seen = Sees(Head(req[r].todo), "md_file")]

(* A thread writes the note where its title says, and then, in a step of its *)
(* own, removes the file its link named, if that is another.               *)
WriteNote(r) ==
  LET e == Head(req[r].todo)
      others == kept \ OfOthers({Target(r)}, e) IN
  /\ At(r, Exports, "item") /\ kind = "obsidian"
  /\ vault' = [vault EXCEPT ![Target(r)] = Note(e, req[r].titles[e])]
  /\ kept' = IF ~ Crossing(r) THEN others \union {e}
             ELSE IF Moves(r) THEN others \ {e} ELSE others
  /\ IF Moves(r) THEN Goto(r, "stale") ELSE Put(r, Written(r))
  /\ UNCHANGED <<rows, clients, mishaps>>

RemoveStale(r) ==
  /\ At(r, Exports, "stale") /\ kind = "obsidian"
  /\ vault' = [p \in Paths |-> IF p = Stale(r) THEN None ELSE vault[p]]
  /\ kept' = kept \ OfOthers({Stale(r)} \intersect Paths, Head(req[r].todo))
  /\ Put(r, Written(r))
  /\ UNCHANGED <<rows, clients, mishaps>>

(* The vault cannot be written, or the write breaks off and leaves a file    *)
(* without its frontmatter; the old file cannot be removed, or an           *)
(* attachment not copied; the next entity is tried.                        *)
WriteNoteFails(r) ==
  /\ req[r].op \in Exports /\ req[r].at \in {"item", "stale", "mdlink"}
  /\ kind = "obsidian" /\ Mishap
  /\ \/ UNCHANGED <<vault, kept>>
     \/ \E t \in {u \in Titles : FileOf[u] = Target(r)[1]} :
          /\ req[r].at = "item"
          /\ vault' = [vault EXCEPT ![Target(r)] = Note(None, t)]
          /\ kept' = kept \ OfOthers({Target(r)}, None)
  /\ NextItem(r)
  /\ UNCHANGED <<rows, clients>>

(* A link that is refused is one more error.                               *)
LinkNote(r) ==
  LET e == Head(req[r].todo) IN
  /\ At(r, Exports, "mdlink")
  /\ IF CanLink(e) THEN Upsert(r, e, "md_file", req[r].id) ELSE UNCHANGED <<link, older>>
  /\ NextItem(r)
  /\ UNCHANGED <<kind, row, entity, edits, clients, vault, kept, mishaps>>

-----------------------------------------------------------------------------
(* Import *)

(* All notes are read, in the order of their paths, and then the entities:   *)
(* of those with one title the last found stands for it.                   *)
ScanNotes(r) ==
  /\ At(r, {"import"}, "scan")
  /\ LET s == CHOOSE sorted \in Orders({p \in Paths : vault[p] # None}) : TRUE IN
       Work(r, [i \in DOMAIN s |-> [path |-> s[i], of |-> vault[s[i]].of,
                                    title |-> vault[s[i]].title, id |-> None]], "list")
  /\ UNCHANGED <<rows, clients, vault, kept, mishaps>>

ListEntities(r) ==
  /\ At(r, {"import"}, "list")
  /\ \E found \in [Titles -> Entities \union {None}] :
       /\ \A t \in Titles :
            IF \E e \in Entities : entity[e] = t
            THEN found[t] # None /\ entity[found[t]] = t
            ELSE found[t] = None
       /\ Put(r, [req[r] EXCEPT !.titles = entity, !.found = found, !.at = "match"])
  /\ UNCHANGED <<rows, clients, vault, kept, mishaps>>

(* _match_or_create: by the id in the note, by its title, or a new entity.  *)
Matched(r, id) ==
  LET note == [Head(req[r].todo) EXCEPT !.id = id]
      done == Append(req[r].done, note)
      known == [req[r] EXCEPT !.found[note.title] = id] IN
  IF Len(req[r].todo) = 1
  THEN Put(r, [known EXCEPT !.todo = done, !.done = <<>>, !.at = "update",
                           !.titles = Idle.titles, !.found = Idle.found])
  ELSE Put(r, [known EXCEPT !.todo = Tail(@), !.done = done])
Known(r, note) == note.of # None /\ req[r].titles[note.of] \in Titles
MatchNote(r) ==
  LET note == Head(req[r].todo) IN
  /\ At(r, {"import"}, "match")
  /\ \/ /\ Known(r, note)
        /\ Matched(r, note.of) /\ UNCHANGED entity
     \/ /\ ~ Known(r, note)
        /\ req[r].found[note.title] # None
        /\ Matched(r, req[r].found[note.title]) /\ UNCHANGED entity
     \/ /\ ~ Known(r, note)
        /\ req[r].found[note.title] = None
        /\ Unused(Entities, entity) # {}
        /\ LET e == AnUnused(Entities, entity) IN
             entity' = [entity EXCEPT ![e] = note.title] /\ Matched(r, e)
  /\ UNCHANGED <<kind, row, link, older, edits, clients, vault, kept, mishaps>>

(* The note's title and fields replace the entity's, if it is still there.  *)
NextNote(r) ==
  IF Len(req[r].todo) = 1 THEN Finish(r)
  ELSE Put(r, [req[r] EXCEPT !.todo = Tail(@), !.at = "update", !.seen = FALSE])
UpdateEntity(r) ==
  LET note == Head(req[r].todo) IN
  /\ At(r, {"import"}, "update")
  /\ IF Here(note.id)
     THEN /\ entity' = [entity EXCEPT ![note.id] = note.title]
          /\ Put(r, [req[r] EXCEPT !.at = "notelink", !.seen = Sees(note.id, "md_file")])
     ELSE NextNote(r) /\ UNCHANGED entity
  /\ UNCHANGED <<kind, row, link, older, edits, clients, vault, kept, mishaps>>

(* A link that is refused ends the import.                                 *)
LinkImported(r) ==
  LET note == Head(req[r].todo) IN
  /\ At(r, {"import"}, "notelink")
  /\ IF CanLink(note.id) THEN Upsert(r, note.id, "md_file", note.path) /\ NextNote(r)
     ELSE Finish(r) /\ UNCHANGED <<link, older>>
  /\ UNCHANGED <<kind, row, entity, edits, clients, vault, kept, mishaps>>

-----------------------------------------------------------------------------
(* The user writes a note, or moves, copies or deletes one.                *)
UserWrites ==
  /\ kind = "obsidian" /\ Mishap
  /\ \E t \in Titles : /\ vault[<<FileOf[t], None>>] = None
                       /\ vault' = [vault EXCEPT ![<<FileOf[t], None>>] = Note(None, t)]
  /\ UNCHANGED <<rows, clients, req, kept>>

UserMoves ==
  /\ kind = "obsidian" /\ Mishap
  /\ \E p \in Paths, f \in Files :
       /\ vault[p] # None /\ vault[<<f, None>>] = None
       /\ \/ /\ vault' = [vault EXCEPT ![<<f, None>>] = vault[p], ![p] = None]
             /\ kept' = {e \in kept : \A q \in Moving(e) : Target(q) # p}
          \/ vault' = [vault EXCEPT ![<<f, None>>] = vault[p]] /\ UNCHANGED kept
  /\ UNCHANGED <<rows, clients, req>>

UserDeletes ==
  /\ kind = "obsidian" /\ Mishap
  /\ \E p \in Paths : /\ vault[p] # None /\ vault' = [vault EXCEPT ![p] = None]
                      /\ kept' = kept \ OfOthers({p}, None)
  /\ UNCHANGED <<rows, clients, req>>

VaultNext ==
  \/ \E r \in Requests :
       \/ kind = "obsidian" /\ \E op \in Exports : Open(r, op, "notes") /\ UNCHANGED <<vault, kept>>
       \/ kind = "obsidian" /\ Open(r, "import", "scan") /\ UNCHANGED <<vault, kept>>
       \/ PlanNotes(r) \/ WriteNote(r) \/ RemoveStale(r) \/ WriteNoteFails(r) \/ LinkNote(r)
       \/ ScanNotes(r) \/ ListEntities(r) \/ MatchNote(r) \/ UpdateEntity(r) \/ LinkImported(r)
  \/ UserWrites \/ UserMoves \/ UserDeletes

-----------------------------------------------------------------------------
(* An entity that has once been exported keeps a note with its id, however   *)
(* often it is renamed and whatever is exported beside it, unless the user, *)
(* another entity's export or a broken write took the note (_write_note:    *)
(* the new file is written before the stale one is removed).  Not when two  *)
(* exports move its note at once: each may remove the file that the other   *)
(* has just written, and nothing is left until the next export.            *)
NotesSurvive ==
  \A e \in kept : \E p \in Paths : vault[p] # None /\ vault[p].of = e

(* "So two entities can never fight over one note file" (_plan_export): an   *)
(* export takes no note of an entity other than the one it writes.         *)
NotesAreTheirOwn ==
  [][\A r \in Requests : WriteNote(r) \/ RemoveStale(r) =>
       OfOthers({p \in Paths : vault'[p] # vault[p]}, Head(req[r].todo)) = {}]_<<vault, req>>
=============================================================================
