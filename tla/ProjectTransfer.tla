--------------------------- MODULE ProjectTransfer ---------------------------
(***************************************************************************)
(* A project written to a file and created again from it                   *)
(* (services/project_transfer.py).  The export reads the project in        *)
(* several steps while others change it; the import creates rows one by    *)
(* one, with ids of their own.                                             *)
(*                                                                         *)
(* Ids of entities, attachments and templates are pairs of the project and *)
(* a number; what a rich text refers to is a link and a picture.           *)
(***************************************************************************)
EXTENDS Naturals, Sequences, FiniteSets

CONSTANTS
  Worlds,      \* projects that may be exported
  HandMade,    \* files that no export wrote
  FormatVersion,  \* FORMAT_VERSION
  NoId,        \* no entity, attachment, template or text
  MaxChanges,  \* bound: changes made during the export
  MaxEntities  \* bound: entities

VARIABLES
  original,  \* the project being exported
  changes,   \* how many changes there were
  transfer,  \* the step of the transfer, and what it has read or created
  copy       \* the rows of the new project

transfers == <<original, changes, transfer, copy>>

Builtin == <<"builtin", 1>>
Old(n) == <<"old", n>>
New(n) == <<"new", n>>

(* Ids of entities, and of the files and templates there are.              *)
EntityIds == {Old(n) : n \in 1 .. MaxEntities}
FileIds == UNION {DOMAIN p.attachments : p \in Worlds \cup HandMade}
TemplateIds == UNION {p.templates : p \in Worlds \cup HandMade}

(* The tables of a project: entities by id, with title, binding, icon, what *)
(* the text refers to, a file field, and what players see; edges;           *)
(* attachments, each of an entity; templates.                               *)
EmptyProject == [entities |-> [i \in {} |-> NoId], edges |-> {},
                 attachments |-> [i \in {} |-> NoId], templates |-> {}]

(* No two things have the same id, and each field refers to its own kind.  *)
IsEntity(row) ==
  /\ row = [template |-> row.template, icon |-> row.icon, link |-> row.link, picture |-> row.picture,
            file |-> row.file, seen |-> row.seen, playerLink |-> row.playerLink]
  /\ row.seen \in BOOLEAN
  /\ row.template \notin EntityIds \cup FileIds
  /\ {row.link, row.playerLink} \cap (FileIds \cup TemplateIds) = {}
  /\ {row.icon, row.picture} \cap (EntityIds \cup TemplateIds) = {}
IsProject(p) ==
  /\ p = [entities |-> p.entities, edges |-> p.edges, attachments |-> p.attachments, templates |-> p.templates]
  /\ DOMAIN p.entities \subseteq EntityIds /\ DOMAIN p.attachments \subseteq FileIds
  /\ p.edges \subseteq EntityIds \X EntityIds /\ p.templates \subseteq TemplateIds
  /\ \A e \in DOMAIN p.entities : IsEntity(p.entities[e])

(* A database has no relationship and no file of an entity it has not.     *)
IsLinked(p) ==
  /\ p.edges \subseteq (DOMAIN p.entities) \X (DOMAIN p.entities)
  /\ \A a \in DOMAIN p.attachments : p.attachments[a] \in DOMAIN p.entities

ASSUME TransferAssumption ==
  /\ MaxEntities \in Nat /\ MaxChanges \in Nat /\ FormatVersion \in Nat
  /\ FileIds \cup TemplateIds \subseteq {"old"} \X Nat
  /\ NoId \notin EntityIds \cup FileIds \cup TemplateIds
  /\ FileIds \cap TemplateIds = {} /\ EntityIds \cap (FileIds \cup TemplateIds) = {}
  /\ \A p \in Worlds \cup HandMade : IsProject(p)
  /\ \A p \in Worlds : IsLinked(p)

NotStarted == [pc |-> "export", file |-> EmptyProject, version |-> FormatVersion, left |-> {},
               entityMap |-> [i \in {} |-> NoId], attachmentMap |-> [i \in {} |-> NoId],
               suspect |-> FALSE]

Mapped(map, id) == IF id \in DOMAIN map THEN map[id] ELSE id

-----------------------------------------------------------------------------
(* Others at work on the project: an entity is created with a relationship  *)
(* to one that was there, or deleted with all that is its own.  (The id of  *)
(* a new entity is any that is free, even one that was deleted before.)    *)
Exporting == transfer.pc \in {"edges", "templates", "attachments"}

CreateLinked(n, e) ==
  /\ changes < MaxChanges /\ changes' = changes + 1
  /\ n \in EntityIds \ DOMAIN original.entities /\ e \in DOMAIN original.entities
  /\ original' = [original EXCEPT
       !.entities = [i \in DOMAIN @ \cup {n} |->
                       IF i = n THEN [@[e] EXCEPT !.icon = NoId, !.picture = NoId, !.file = NoId] ELSE @[i]],
       !.edges = @ \cup {<<n, e>>}]
  /\ transfer' = [transfer EXCEPT !.suspect = @ \/ Exporting]
  /\ UNCHANGED copy

RemoveEntity(e) ==
  /\ changes < MaxChanges /\ changes' = changes + 1
  /\ e \in DOMAIN original.entities
  /\ original' = [original EXCEPT
       !.entities = [i \in DOMAIN @ \ {e} |-> @[i]],
       !.edges = {x \in @ : e \notin {x[1], x[2]}},
       !.attachments = [a \in {b \in DOMAIN @ : @[b] # e} |-> @[a]]]
  /\ transfer' = [transfer EXCEPT !.suspect = @ \/ Exporting]
  /\ UNCHANGED copy

-----------------------------------------------------------------------------
(* export_project: entities, edges and templates are read one after         *)
(* another, and then the files of each entity.                              *)
ReadEntities ==
  /\ transfer.pc = "export"
  /\ transfer' = [transfer EXCEPT !.pc = "edges", !.file.entities = original.entities,
                                  !.left = DOMAIN original.entities]
  /\ UNCHANGED <<original, changes, copy>>

ReadEdges ==
  /\ transfer.pc = "edges"
  /\ transfer' = [transfer EXCEPT !.pc = "templates", !.file.edges = original.edges]
  /\ UNCHANGED <<original, changes, copy>>

ReadTemplates ==
  /\ transfer.pc = "templates"
  /\ transfer' = [transfer EXCEPT !.pc = "attachments", !.file.templates = original.templates]
  /\ UNCHANGED <<original, changes, copy>>

(* The rows of an entity's files are listed, and then each file is read.    *)
ReadAttachments(e) ==
  /\ transfer.pc = "attachments" /\ e \in transfer.left
  /\ LET own == {a \in DOMAIN original.attachments : original.attachments[a] = e}
     IN  transfer' = [transfer EXCEPT
           !.left = @ \ {e},
           !.file.attachments = [a \in DOMAIN @ \cup own |-> IF a \in own THEN e ELSE @[a]]]
  /\ UNCHANGED <<original, changes, copy>>

(* A file that was listed and is deleted before it is read fails the export.*)
DeletedBeforeRead(a) ==
  /\ changes < MaxChanges /\ changes' = changes + 1
  /\ transfer.pc = "attachments" /\ original.attachments[a] \in transfer.left
  /\ original' = [original EXCEPT !.attachments = [b \in DOMAIN @ \ {a} |-> @[b]]]
  /\ transfer' = [transfer EXCEPT !.pc = "failed", !.suspect = TRUE]
  /\ UNCHANGED copy

FileIsWritten ==
  /\ transfer.pc = "attachments" /\ transfer.left = {}
  /\ transfer' = [transfer EXCEPT !.pc = "project"]
  /\ UNCHANGED <<original, changes, copy>>

-----------------------------------------------------------------------------
(* import_project: the project and its templates, under new ids.           *)
File == transfer.file

RefuseFile ==
  /\ transfer.pc = "project" /\ transfer.version # FormatVersion
  /\ transfer' = [transfer EXCEPT !.pc = "failed"]
  /\ UNCHANGED <<original, changes, copy>>

CreateProject ==
  /\ transfer.pc = "project" /\ transfer.version = FormatVersion
  /\ copy' = [EmptyProject EXCEPT !.templates = {New(t[2]) : t \in File.templates}]
  /\ transfer' = [transfer EXCEPT !.pc = "entities", !.left = DOMAIN File.entities]
  /\ UNCHANGED <<original, changes>>

(* An id the file has no template for, of a built-in one, stays as it is.   *)
MappedTemplate(t) == IF t \in File.templates THEN New(t[2]) ELSE t

ImportEntity(e) ==
  /\ transfer.pc = "entities" /\ e \in transfer.left
  /\ LET id == New(e[2])
         row == [File.entities[e] EXCEPT !.template = MappedTemplate(@), !.icon = NoId,
                                         !.seen = FALSE, !.playerLink = NoId]
     IN  /\ copy' = [copy EXCEPT !.entities = [i \in DOMAIN @ \cup {id} |-> IF i = id THEN row ELSE @[i]]]
         /\ transfer' = [transfer EXCEPT
              !.left = @ \ {e},
              !.entityMap = [i \in DOMAIN @ \cup {e} |-> IF i = e THEN id ELSE @[i]]]
  /\ UNCHANGED <<original, changes>>

EntitiesCreated ==
  /\ transfer.pc = "entities" /\ transfer.left = {}
  /\ transfer' = [transfer EXCEPT !.pc = "relations", !.left = File.edges]
  /\ UNCHANGED <<original, changes, copy>>

(* A relationship of an entity the file does not have ends the import, with *)
(* all that it has created left in place.                                  *)
CreateEdge(x) ==
  /\ transfer.pc = "relations" /\ x \in transfer.left
  /\ IF {x[1], x[2]} \subseteq DOMAIN transfer.entityMap
     THEN /\ copy' = [copy EXCEPT !.edges = @ \cup {<<transfer.entityMap[x[1]], transfer.entityMap[x[2]]>>}]
          /\ transfer' = [transfer EXCEPT !.left = @ \ {x}]
     ELSE /\ transfer' = [transfer EXCEPT !.pc = "failed"]
          /\ UNCHANGED copy
  /\ UNCHANGED <<original, changes>>

EdgesCreated ==
  /\ transfer.pc = "relations" /\ transfer.left = {}
  /\ transfer' = [transfer EXCEPT !.pc = "files", !.left = DOMAIN File.attachments]
  /\ UNCHANGED <<original, changes, copy>>

CreateAttachment(a) ==
  /\ transfer.pc = "files" /\ a \in transfer.left
  /\ LET id == New(a[2])
         owner == transfer.entityMap[File.attachments[a]]
     IN  IF File.attachments[a] \in DOMAIN transfer.entityMap
         THEN /\ copy' = [copy EXCEPT !.attachments = [i \in DOMAIN @ \cup {id} |-> IF i = id THEN owner ELSE @[i]]]
              /\ transfer' = [transfer EXCEPT !.left = @ \ {a},
                   !.attachmentMap = [i \in DOMAIN @ \cup {a} |-> IF i = a THEN id ELSE @[i]]]
         ELSE /\ transfer' = [transfer EXCEPT !.left = @ \ {a}]
              /\ UNCHANGED copy
  /\ UNCHANGED <<original, changes>>

FilesCreated ==
  /\ transfer.pc = "files" /\ transfer.left = {}
  /\ transfer' = [transfer EXCEPT !.pc = "texts", !.left = DOMAIN File.entities]
  /\ UNCHANGED <<original, changes, copy>>

(* Rich text has its links and pictures rewritten; a file field does not.   *)
Rewritten(row) == [row EXCEPT !.link = Mapped(transfer.entityMap, @),
                              !.picture = Mapped(transfer.attachmentMap, @)]

(* Variant, to test WorldIsRebuilt: the update leaves the binding out.      *)
UpdateEntity_Unbinds(e) ==
  LET row == File.entities[e]
  IN  [Rewritten(row) EXCEPT !.template = NoId, !.icon = Mapped(transfer.attachmentMap, @),
                             !.playerLink = Mapped(transfer.entityMap, @)]

(* The whole row is replaced; then the icon is set, if its file came along, *)
(* and what players see, with its text rewritten.                          *)
UpdateEntity(e) ==
  LET row == File.entities[e]
      shown == row.seen \/ row.playerLink # NoId
  IN  [Rewritten(row) EXCEPT
         !.template = MappedTemplate(row.template),
         !.icon = IF @ \in DOMAIN transfer.attachmentMap THEN transfer.attachmentMap[@] ELSE NoId,
         !.playerLink = IF shown THEN Mapped(transfer.entityMap, @) ELSE NoId]

FinishEntity(e) ==
  /\ transfer.pc = "texts" /\ e \in transfer.left
  /\ copy' = [copy EXCEPT !.entities[transfer.entityMap[e]] = UpdateEntity(e)]
  /\ transfer' = [transfer EXCEPT !.left = @ \ {e}]
  /\ UNCHANGED <<original, changes>>

ImportEnds ==
  /\ transfer.pc = "texts" /\ transfer.left = {}
  /\ transfer' = [transfer EXCEPT !.pc = "done"]
  /\ UNCHANGED <<original, changes, copy>>

TransferInit ==
  /\ changes = 0 /\ copy = EmptyProject
  /\ \/ original \in Worlds /\ transfer = NotStarted
     \/ /\ original = EmptyProject
        /\ \E file \in HandMade, version \in {FormatVersion, FormatVersion + 1} :
             transfer = [NotStarted EXCEPT !.pc = "project", !.file = file, !.version = version,
                                           !.suspect = TRUE]

TransferNext ==
  \/ \E n \in EntityIds, e \in DOMAIN original.entities : CreateLinked(n, e)
  \/ \E e \in DOMAIN original.entities : RemoveEntity(e)
  \/ ReadEntities \/ ReadEdges \/ ReadTemplates \/ FileIsWritten
  \/ \E e \in transfer.left : ReadAttachments(e)
  \/ \E a \in DOMAIN original.attachments : DeletedBeforeRead(a)
  \/ RefuseFile \/ CreateProject
  \/ \E e \in transfer.left : ImportEntity(e)
  \/ EntitiesCreated
  \/ \E x \in transfer.left : CreateEdge(x)
  \/ EdgesCreated
  \/ \E a \in transfer.left : CreateAttachment(a)
  \/ FilesCreated
  \/ \E e \in transfer.left : FinishEntity(e)
  \/ ImportEnds

TransferSpec == TransferInit /\ [][TransferNext]_transfers

-----------------------------------------------------------------------------
(* What an import creates is the world of the file again: entities, edges   *)
(* and files correspond; a binding, an icon, a link or a picture leads to   *)
(* the copy of what it led to, if the file has that; and a transfer fails   *)
(* only if the project changed while it was being exported, or if no        *)
(* export wrote the file.                                                  *)
WorldIsRebuilt ==
  /\ transfer.pc = "failed" => transfer.suspect
  /\ transfer.pc = "done" =>
       LET files == {a \in DOMAIN File.attachments : File.attachments[a] \in DOMAIN File.entities}
           Copied(id) == IF id \in DOMAIN File.entities \cup files \cup File.templates
                         THEN New(id[2]) ELSE id
       IN  /\ DOMAIN copy.entities = {Copied(e) : e \in DOMAIN File.entities}
           /\ copy.edges = {<<Copied(x[1]), Copied(x[2])>> : x \in File.edges}
           /\ \A e \in DOMAIN File.entities :
                LET old == File.entities[e]
                    new == copy.entities[Copied(e)]
                IN  /\ new.template = Copied(old.template)
                    /\ new.link = Copied(old.link) /\ new.playerLink = Copied(old.playerLink)
                    /\ new.seen = old.seen /\ new.picture = Copied(old.picture)
                    /\ new.icon = IF old.icon \in files THEN Copied(old.icon) ELSE NoId
           /\ copy.attachments = [a \in {Copied(b) : b \in files} |->
                                    Copied(File.attachments[Old(a[2])])]
=============================================================================
