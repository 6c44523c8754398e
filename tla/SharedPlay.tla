----------------------------- MODULE SharedPlay -----------------------------
(***************************************************************************)
(* Shared play: what the game master reveals of a world and what players   *)
(* are sent of it.  A player's request finds its player by the hash of the *)
(* token in its cookie, notes that it was seen, reads rows and answers     *)
(* through PlayerViewService.  The game master's editor, the agent and the *)
(* player-access panel read a row, await, and write columns of it.  Files  *)
(* lie beside the rows of attachments, and tokens are rotated, revoked and *)
(* deleted with their players.  One project.                               *)
(***************************************************************************)
EXTENDS Naturals, FiniteSets

CONSTANTS
  Players, Entities, Keys, Notes, Files, \* ids; Keys are the keys of fields
  Requests,  \* slots of requests being served
  None,
  MaxActive  \* bound: requests served at a time

ASSUME PlayAssumption ==
  /\ MaxActive \in Nat
  /\ None \notin Players \cup Entities \cup Files

VARIABLES
  player, \* rows: "active", "revoked", or "gone"
  cookie, \* the players whose browser holds the token of their row
  entity, \* rows: whether revealed, and each field's flag
  note,   \* rows: author, entity, whether public
  file,   \* files on disk
  attach, \* rows of attachments: the entity, or None
  icon,   \* icon_attachment_id of each entity
  page,   \* the copy of each entity's fields in the game master's editor
  req,    \* what each request is doing
  chosen, \* history: the fields the game master last chose to show
  muddled \* history: entities written from a copy that was out of date

table == <<player, cookie, note>>
files == <<file, attach, icon>>
flags == <<entity, page, chosen, muddled>>
vars == <<table, files, flags, req>>

Flag == {"none", "hidden", "shown"}
Fields == [Keys -> Flag]
NoFields == [k \in Keys |-> "none"]
Shown(fields) == {k \in Keys : fields[k] = "shown"}
Present(fields) == {k \in Keys : fields[k] # "none"}

Gone == [here |-> FALSE, revealed |-> FALSE, fields |-> NoFields]
NoNote == [author |-> None, on |-> None, public |-> FALSE]

(* What a player's answer is made of.                                      *)
Session == {<<"session">>}
EntityWith(e, keys) == {<<e>>} \cup {<<e, k>> : k \in keys}
NotesAmong(ids) == {<<n>> : n \in ids}
Things == Session \cup (UNION {EntityWith(e, Keys) : e \in Entities}) \cup NotesAmong(Notes)

(* A request: what it was asked for, what it has read, whether that is      *)
(* still what the row says, and what it has put in its answer; hidden is   *)
(* history: of what it may send, what its player could never see so far.   *)
Idle == [op |-> "idle", at |-> "idle", who |-> None, x |-> None, read |-> NoFields,
         fresh |-> TRUE, revealed |-> FALSE, keys |-> {}, answer |-> {}, hidden |-> {}]

Active == {r \in Requests : req[r] # Idle}
Free(r) == req[r] = Idle /\ Cardinality(Active) < MaxActive
At(r, op, at) == req[r].op = op /\ req[r].at = at

-----------------------------------------------------------------------------
(* PlayerViewService: what may be seen *)
(* find_active_by_token_hash *)
Valid(p) == p \in cookie /\ player[p] = "active"
Revealed(e) == entity[e].here /\ entity[e].revealed

(* Variant, to test AnswersWereVisible: every field of a revealed entity.  *)
ToPlayerEntity_AllFields(e) == EntityWith(e, Present(entity[e].fields))

(* _to_player_entity: the fields on the whitelist.                         *)
ToPlayerEntity(e) == EntityWith(e, Shown(entity[e].fields))

(* A note is read by everyone at the table, or by its author.              *)
Readable(n, p) == note[n] # NoNote /\ (note[n].public \/ note[n].author = p)
VisibleNotes(e, p) == {n \in Notes : Readable(n, p) /\ note[n].on = e}

Seeable(p) ==
  (IF Valid(p) THEN Session ELSE {})
  \cup (UNION {EntityWith(e, Shown(entity[e].fields)) : e \in {d \in Entities : Revealed(d)}})
  \cup NotesAmong({n \in Notes : Readable(n, p)})
Sight == [p \in Players |-> Seeable(p)]

(* The last conjunct of every step: req' is what the step makes of it, and  *)
(* players can see what they can see now.                                  *)
Serve(next) ==
  req' = [r \in Requests |->
    IF next[r].who = None THEN next[r]
    ELSE [next[r] EXCEPT !.hidden = @ \ Sight'[next[r].who]]]

Put(r, record) == Serve([req EXCEPT ![r] = record])
Goto(r, at) == Put(r, [req[r] EXCEPT !.at = at])
Finish(r) == Put(r, Idle)
Begin(r, record) == Free(r) /\ Put(r, record)

-----------------------------------------------------------------------------
(* A player's requests: the cookie is looked up, then touch_last_seen is   *)
(* awaited, then the rows are read.                                        *)
PlayerOps == {"look", "notes", "file", "write", "edit", "erase"}
AnswerOf(op, x) ==
  CASE op = "look" -> Things \ NotesAmong(Notes)
    [] op = "notes" -> {<<x>>} \cup NotesAmong(Notes)
    [] op = "file" -> {<<e>> : e \in Entities}
    [] OTHER -> {}
Ask(r, op, p, x) ==
  /\ UNCHANGED <<table, files, flags>>
  /\ Valid(p)
  /\ Begin(r, [Idle EXCEPT !.op = op, !.at = "seen", !.who = p, !.x = x,
                           !.answer = Session, !.hidden = Session \cup AnswerOf(op, x)])

PlayerAsks(r, p) ==
  \/ Ask(r, "look", p, None)
  \/ \E e \in Entities, op \in {"notes", "write"} : Ask(r, op, p, e)
  \/ \E f \in Files : Ask(r, "file", p, f)
  \/ \E n \in Notes, op \in {"edit", "erase"} : Ask(r, op, p, n)

Answering(r, at, things) ==
  Put(r, [req[r] EXCEPT !.at = at, !.answer = @ \cup things])

(* list_revealed, and with the relationships revealed_subgraph.            *)
Look(r) ==
  /\ At(r, "look", "seen")
  /\ UNCHANGED <<table, files, flags>>
  /\ Answering(r, "answered", UNION {ToPlayerEntity(e) : e \in {d \in Entities : Revealed(d)}})

(* get_revealed: 404 for a hidden entity, before anything else is read.    *)
Notes1(r) ==
  /\ At(r, "notes", "seen")
  /\ UNCHANGED <<table, files, flags>>
  /\ IF Revealed(req[r].x) THEN Answering(r, "checked", {<<req[r].x>>}) ELSE Finish(r)
Notes2(r) ==
  /\ At(r, "notes", "checked")
  /\ UNCHANGED <<table, files, flags>>
  /\ Answering(r, "answered", NotesAmong(VisibleNotes(req[r].x, req[r].who)))

(* get_attachment_file: the address names the entity and the file.         *)
GetFile(r) ==
  LET f == req[r].x IN
  /\ At(r, "file", "seen")
  /\ UNCHANGED <<table, files, flags>>
  /\ \/ \E e \in Entities : Revealed(e) /\ file[f] = e /\ Answering(r, "answered", {<<e>>})
     \/ file[f] \notin {e \in Entities : Revealed(e)} /\ Finish(r)

(* Notes: checked first, written in an await of its own; a row whose author *)
(* or entity has gone meanwhile is refused by the foreign keys.            *)
WriteNote1(r) ==
  /\ At(r, "write", "seen")
  /\ UNCHANGED <<table, files, flags>>
  /\ IF Revealed(req[r].x) THEN Goto(r, "checked") ELSE Finish(r)
WriteNote2(r) ==
  /\ At(r, "write", "checked")
  /\ \/ /\ entity[req[r].x].here /\ player[req[r].who] # "gone"
        /\ \E n \in {m \in Notes : note[m] = NoNote}, public \in BOOLEAN :
             note' = [note EXCEPT ![n] =
               [author |-> req[r].who, on |-> req[r].x, public |-> public]]
     \/ UNCHANGED note
  /\ UNCHANGED <<player, cookie, files, flags>>
  /\ Finish(r)

(* _require_own, then update or delete, each by the note's id.             *)
OwnNote1(r) ==
  /\ req[r].op \in {"edit", "erase"} /\ req[r].at = "seen"
  /\ UNCHANGED <<table, files, flags>>
  /\ IF note[req[r].x].author = req[r].who THEN Goto(r, "checked") ELSE Finish(r)
OwnNote2(r) ==
  LET n == req[r].x IN
  /\ req[r].op \in {"edit", "erase"} /\ req[r].at = "checked"
  /\ \/ note[n] = NoNote /\ UNCHANGED note
     \/ /\ note[n] # NoNote /\ req[r].op = "edit"
        /\ \E public \in BOOLEAN : note' = [note EXCEPT ![n].public = public]
     \/ /\ note[n] # NoNote /\ req[r].op = "erase"
        /\ note' = [note EXCEPT ![n] = NoNote]
  /\ UNCHANGED <<player, cookie, files, flags>>
  /\ Finish(r)

Answered(r) ==
  /\ req[r].op \in PlayerOps /\ req[r].at = "answered"
  /\ UNCHANGED <<table, files, flags>>
  /\ Finish(r)

-----------------------------------------------------------------------------
(* The invitation *)
Erased(ids) == [n \in Notes |-> IF n \in ids THEN NoNote ELSE note[n]]

(* A new token: the old link is dead, and a revoked player is back.        *)
Rotate(p) ==
  /\ player[p] # "gone"
  /\ player' = [player EXCEPT ![p] = "active"] /\ cookie' = cookie \ {p}
  /\ UNCHANGED <<note, files, flags>>
  /\ Serve(req)

Revoke(p) ==
  /\ player[p] = "active"
  /\ player' = [player EXCEPT ![p] = "revoked"]
  /\ UNCHANGED <<cookie, note, files, flags>>
  /\ Serve(req)

DeletePlayer(p) ==
  /\ player[p] # "gone"
  /\ player' = [player EXCEPT ![p] = "gone"] /\ cookie' = cookie \ {p}
  /\ note' = Erased({n \in Notes : note[n].author = p})
  /\ UNCHANGED <<files, flags>>
  /\ Serve(req)

(* POST /session with the link last handed out, and its end.               *)
StartSession(p) ==
  /\ player[p] = "active" /\ p \notin cookie
  /\ cookie' = cookie \cup {p}
  /\ UNCHANGED <<player, note, files, flags>>
  /\ Serve(req)
EndSession(p) ==
  /\ p \in cookie /\ cookie' = cookie \ {p}
  /\ UNCHANGED <<player, note, files, flags>>
  /\ Serve(req)

-----------------------------------------------------------------------------
(* Writers of an entity's fields: a read, an await, a write *)
OutOfDate(next, e, r) ==
  [q \in Requests |-> IF q # r /\ next[q].x = e /\ next[q].op \in {"save", "patch", "view"}
                      THEN [next[q] EXCEPT !.fresh = FALSE] ELSE next[q]]
EditorFresh(e) == page[e].fresh

(* The game master opens or refreshes the editor.                          *)
Load(e) ==
  /\ entity[e].here /\ page[e] # [fresh |-> TRUE, fields |-> entity[e].fields]
  /\ page' = [page EXCEPT ![e] = [fresh |-> TRUE, fields |-> entity[e].fields]]
  /\ UNCHANGED <<table, files, entity, chosen, muddled, req>>

Read(r, op, e, revealed, keys) ==
  /\ UNCHANGED <<table, files, flags>>
  /\ entity[e].here
  /\ Begin(r, [Idle EXCEPT !.op = op, !.at = "write", !.x = e, !.read = entity[e].fields,
                           !.revealed = revealed, !.keys = keys])

(* The editor's fields, edited; an agent's change; the access panel's       *)
(* choice, and the one-click toggle, which repeats the page's.             *)
EditorSaves(r, e) ==
  \E keys \in SUBSET Keys :
    /\ UNCHANGED <<table, files, flags>>
    /\ entity[e].here /\ page[e].fields # NoFields
    /\ Begin(r, [Idle EXCEPT !.op = "save", !.at = "write", !.x = e, !.fresh = EditorFresh(e),
         !.read = [k \in Keys |-> CASE k \notin keys -> "none"
                                    [] page[e].fields[k] = "none" -> "hidden"
                                    [] OTHER -> page[e].fields[k]]])
AgentPatches(r, e) == \E keys \in SUBSET Keys : Read(r, "patch", e, FALSE, keys)
PanelSaves(r, e) ==
  \E revealed \in BOOLEAN, keys \in SUBSET Keys : Read(r, "view", e, revealed, keys)
Toggles(r, e) == EditorFresh(e) /\ Read(r, "view", e, ~ entity[e].revealed, Shown(page[e].fields))

(* Variant, to test FlagsFollowTheGameMaster: the flags of the patch.      *)
Patched_Defaults(fields, keys) ==
  [k \in Keys |-> IF k \in keys THEN "hidden" ELSE fields[k]]

(* patch: a named key is set; a flag stays as the patch has read it.       *)
Patched(fields, keys) ==
  [k \in Keys |-> IF k \in keys /\ fields[k] = "none" THEN "hidden" ELSE fields[k]]

(* set_player_view: each field's flag is whether its key is on the list.   *)
Viewed(fields, keys) ==
  [k \in Keys |-> CASE fields[k] = "none" -> "none"
                    [] k \in keys -> "shown" [] OTHER -> "hidden"]

Written(r) ==
  CASE req[r].op = "save" -> req[r].read
    [] req[r].op = "patch" -> Patched(req[r].read, req[r].keys)
    [] OTHER -> Viewed(req[r].read, req[r].keys)

(* Only a column that differs from what was read is written.               *)
WriteEntity(r) ==
  LET e == req[r].x
      fields == IF req[r].op = "view" /\ Written(r) = req[r].read
                THEN entity[e].fields ELSE Written(r)
      revealed == IF req[r].op = "view" THEN req[r].revealed ELSE entity[e].revealed IN
  /\ req[r].op \in {"save", "patch", "view"} /\ req[r].at = "write"
  /\ IF ~ entity[e].here
     THEN UNCHANGED <<entity, page, chosen, muddled>>
     ELSE /\ entity' = [entity EXCEPT ![e].fields = fields, ![e].revealed = revealed]
          /\ page' = [page EXCEPT ![e].fresh = @ /\ fields = page[e].fields]
          /\ chosen' = [chosen EXCEPT ![e] =
               IF req[r].op = "view" THEN req[r].keys \cap Present(fields)
               ELSE @ \cap Present(fields)]
          /\ muddled' = IF ~ req[r].fresh THEN muddled \cup {e}
                        ELSE IF req[r].op = "view" THEN muddled \ {e} ELSE muddled
  /\ UNCHANGED <<table, files>>
  /\ Serve(OutOfDate([req EXCEPT ![r] = Idle], e, r))

DeleteEntity(e) ==
  /\ entity[e].here
  /\ entity' = [entity EXCEPT ![e] = Gone]
  /\ page' = [page EXCEPT ![e] = [fresh |-> TRUE, fields |-> NoFields]]
  /\ chosen' = [chosen EXCEPT ![e] = {}] /\ muddled' = muddled \ {e}
  /\ note' = Erased({n \in Notes : note[n].on = e})
  /\ attach' = [f \in Files |-> IF attach[f] = e THEN None ELSE attach[f]]
  /\ icon' = [icon EXCEPT ![e] = None]
  /\ UNCHANGED <<player, cookie, file>>
  /\ Serve(req)

-----------------------------------------------------------------------------
(* Attachments: file before row, row before file; an upload's id is new, *)
(* on disk, in the rows and to every request.                            *)
Names(q, f) == req[q].op \in {"upload", "unlink", "icon"} /\ req[q].keys = {f}

Upload(r, e, f) ==
  /\ UNCHANGED <<table, files, flags>>
  /\ entity[e].here /\ file[f] = None /\ attach[f] = None
  /\ \A q \in Requests : ~ Names(q, f)
  /\ Begin(r, [Idle EXCEPT !.op = "upload", !.at = "write", !.x = e, !.keys = {f}])
WriteFile(r, f) ==
  /\ At(r, "upload", "write") /\ req[r].keys = {f}
  /\ file' = [file EXCEPT ![f] = req[r].x]
  /\ UNCHANGED <<table, attach, icon, flags>>
  /\ Goto(r, "insert")
InsertRow(r, f) ==
  /\ At(r, "upload", "insert") /\ req[r].keys = {f}
  /\ attach' = IF entity[req[r].x].here THEN [attach EXCEPT ![f] = req[r].x] ELSE attach
  /\ UNCHANGED <<table, file, icon, flags>>
  /\ Finish(r)

(* Variant, to test RowsHaveFiles: the file goes before its row.           *)
DeleteRow_FileFirst(r, f) ==
  /\ Free(r) /\ attach[f] # None
  /\ file' = [file EXCEPT ![f] = None]
  /\ UNCHANGED <<table, attach, icon, flags>>
  /\ Put(r, [Idle EXCEPT !.op = "unlink", !.at = "unlink", !.keys = {f}])

DeleteRow(r, f) ==
  /\ Free(r) /\ attach[f] # None
  /\ attach' = [attach EXCEPT ![f] = None]
  /\ icon' = [e \in Entities |-> IF icon[e] = f THEN None ELSE icon[e]]
  /\ UNCHANGED <<table, file, flags>>
  /\ Put(r, [Idle EXCEPT !.op = "unlink", !.at = "unlink", !.keys = {f}])
Unlink(r, f) ==
  /\ At(r, "unlink", "unlink") /\ req[r].keys = {f}
  /\ file' = [file EXCEPT ![f] = None]
  /\ UNCHANGED <<table, attach, icon, flags>>
  /\ Finish(r)

(* set_icon asks whose the attachment is, then writes; the foreign key      *)
(* refuses one that has gone.                                              *)
SetIcon(r, e, f) ==
  /\ UNCHANGED <<table, files, flags>>
  /\ entity[e].here /\ attach[f] = e /\ icon[e] # f
  /\ Begin(r, [Idle EXCEPT !.op = "icon", !.at = "write", !.x = e, !.keys = {f}])
WriteIcon(r, f) ==
  LET e == req[r].x IN
  /\ At(r, "icon", "write") /\ req[r].keys = {f}
  /\ icon' = IF entity[e].here /\ attach[f] # None THEN [icon EXCEPT ![e] = f] ELSE icon
  /\ UNCHANGED <<table, file, attach, flags>>
  /\ Finish(r)

(* The process dies and is started again; browsers keep their cookies.     *)
Kill ==
  /\ Active # {} /\ req' = [r \in Requests |-> Idle]
  /\ UNCHANGED <<table, files, flags>>

-----------------------------------------------------------------------------
Init ==
  /\ player = [p \in Players |-> "active"] /\ cookie = {}
  /\ entity = [e \in Entities |-> [here |-> TRUE, revealed |-> FALSE,
                                   fields |-> [k \in Keys |-> "hidden"]]]
  /\ note = [n \in Notes |-> NoNote]
  /\ file = [f \in Files |-> None] /\ attach = file
  /\ icon = [e \in Entities |-> None]
  /\ page = [e \in Entities |-> [fresh |-> TRUE, fields |-> NoFields]]
  /\ req = [r \in Requests |-> Idle]
  /\ chosen = [e \in Entities |-> {}] /\ muddled = {}

PlayerStep(r) ==
  \/ Look(r) \/ Notes1(r) \/ Notes2(r) \/ GetFile(r)
  \/ WriteNote1(r) \/ WriteNote2(r) \/ OwnNote1(r) \/ OwnNote2(r) \/ Answered(r)

MasterStep(r) ==
  \/ WriteEntity(r)
  \/ \E f \in Files : WriteFile(r, f) \/ InsertRow(r, f) \/ Unlink(r, f) \/ WriteIcon(r, f)

MasterAsks(r) ==
  \/ \E e \in Entities :
       EditorSaves(r, e) \/ AgentPatches(r, e) \/ PanelSaves(r, e) \/ Toggles(r, e)
  \/ \E e \in Entities, f \in Files : Upload(r, e, f) \/ SetIcon(r, e, f)
  \/ \E f \in Files : DeleteRow(r, f)

Next ==
  \/ \E r \in Requests : PlayerStep(r) \/ MasterStep(r) \/ MasterAsks(r)
  \/ \E r \in Requests, p \in Players : PlayerAsks(r, p)
  \/ \E p \in Players : Rotate(p) \/ Revoke(p) \/ DeletePlayer(p)
  \/ \E p \in Players : StartSession(p) \/ EndSession(p)
  \/ \E e \in Entities : Load(e) \/ DeleteEntity(e)
  \/ Kill

Spec == Init /\ [][Next]_vars

-----------------------------------------------------------------------------
TypeOK ==
  /\ player \in [Players -> {"active", "revoked", "gone"}] /\ cookie \subseteq Players
  /\ entity \in [Entities -> [here : BOOLEAN, revealed : BOOLEAN, fields : Fields]]
  /\ page \in [Entities -> [fresh : BOOLEAN, fields : Fields]]
  /\ {file, attach} \subseteq [Files -> Entities \cup {None}]
  /\ icon \in [Entities -> Files \cup {None}]
  /\ chosen \in [Entities -> SUBSET Keys] /\ muddled \subseteq Entities
  /\ \A r \in Requests : req[r].answer \cup req[r].hidden \subseteq Things

(* Whatever an answer holds (an entity, a field, a note, the fact that the  *)
(* session is good), the player could see it at some moment since asking:   *)
(* nothing that was hidden, private or revoked all along is ever sent.     *)
AnswersWereVisible ==
  \A r \in Requests : req[r].at = "answered" => req[r].answer \cap req[r].hidden = {}

(* Players see the fields the game master last chose and no other, unless   *)
(* a writer has worked from a copy that was out of date: the agent and the  *)
(* editor, which have no say in it, never change the choice.               *)
FlagsFollowTheGameMaster ==
  \A e \in Entities \ muddled :
    entity[e].here => Shown(entity[e].fields) = chosen[e]

(* An attachment's row has its file, through every order of upload, delete, *)
(* deletion of the entity and death; and an icon is an attachment of the    *)
(* entity that shows it.                                                   *)
RowsHaveFiles ==
  /\ \A f \in Files : attach[f] # None => file[f] = attach[f] /\ entity[attach[f]].here
  /\ \A e \in Entities : icon[e] # None => attach[icon[e]] = e

(* EntityStore.patch: "the visibility flags stay with the entity".         *)
PatchKeepsFlags ==
  [][\A r \in Requests, e \in Entities :
       At(r, "patch", "write") /\ req[r].x = e /\ entity'[e] # entity[e] =>
         Shown(entity'[e].fields) = Shown(entity[e].fields)]_vars
=============================================================================
