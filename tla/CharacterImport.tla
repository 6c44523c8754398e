--------------------------- MODULE CharacterImport ---------------------------
(***************************************************************************)
(* Character sheets of longstoryshort.app: what an exported document says  *)
(* of a character (parser.py), and the import that creates or refreshes    *)
(* party members from documents or from a shared sheet (connector.py),     *)
(* while the game master works on the same entities.                       *)
(*                                                                         *)
(* A JSON object is a function from the paths that lead to a value, to the *)
(* value: <<"text", t>>, <<"number", n>>, <<"flag", b>> or <<"doc", node>>.*)
(***************************************************************************)
EXTENDS Naturals, Sequences, FiniteSets, SequencesExt, TLC

CONSTANTS
  Payloads,   \* what an import may be asked
  Shared,     \* what the site answers for the id of a shared sheet
  Numerals,   \* texts that are numbers, to their values
  Nothing,    \* no value, entity, id or document
  MaxMembers, MaxDmEdits, MaxImports  \* bounds

VARIABLES
  member,   \* rows of entities
  sheetOf,  \* rows of links: the id of the sheet each entity has
  upload,   \* the import being served
  dm        \* how many edits and imports there were

sheets == <<member, sheetOf, upload, dm>>

PartyMember == "party_member"
BuiltinSheet == "builtin"

-----------------------------------------------------------------------------
(* The documents of an editor: nodes have a type, children and, for text,   *)
(* the text and its marks.                                                  *)
AllowedNodes == {"doc", "paragraph", "text", "heading", "bulletList", "orderedList",
                 "listItem", "blockquote", "codeBlock", "horizontalRule", "hardBreak", "image"}
AllowedMarks == {"bold", "italic", "strike", "underline", "code", "link"}
Containers == {"bulletList", "orderedList", "listItem", "blockquote"}

Node(type, content) == [type |-> type, text |-> "", marks |-> {}, content |-> content]
TextNode(text, marks) == [type |-> "text", text |-> text, marks |-> marks, content |-> <<>>]

(* Nodes and marks the editor does not know are dropped with what is in     *)
(* them, and so are texts and containers with nothing in them.              *)
RECURSIVE SanitizeNode(_)
SanitizeNode(node) ==
  LET clean == [i \in DOMAIN node.content |-> SanitizeNode(node.content[i])]
      children == SelectSeq(clean, LAMBDA c : c # Nothing)
  IN  IF \/ node.type \notin AllowedNodes
         \/ node.type = "text" /\ node.text = ""
         \/ node.type \in Containers /\ children = <<>>
      THEN Nothing
      ELSE [node EXCEPT !.content = children, !.marks = @ \intersect AllowedMarks]

RECURSIVE HasText(_)
HasText(node) == \/ node.type = "text" /\ node.text \notin {"", " "}
                 \/ \E i \in DOMAIN node.content : HasText(node.content[i])

Sanitize(doc) == LET clean == SanitizeNode(doc)
                 IN  IF clean = Nothing \/ ~HasText(clean) THEN Nothing ELSE clean

Paragraphs(lines) ==
  Node("doc", [i \in DOMAIN lines |-> Node("paragraph", <<TextNode(lines[i], {})>>)])

-----------------------------------------------------------------------------
(* Values at paths.                                                        *)
Dig(data, path) == IF path \in DOMAIN data THEN data[path] ELSE <<Nothing>>
Under(data, prefix) == {p \in DOMAIN data : IsPrefix(prefix, p) /\ p # prefix}

IsText(value) == value[1] = "text" /\ value[2] \notin {"", " "}
FirstString(data, paths) ==
  LET found == SelectSeq(paths, LAMBDA p : IsText(Dig(data, p)))
  IN  IF found = <<>> THEN Nothing ELSE Dig(data, found[1])[2]

CoerceNumber(value) ==
  IF value[1] = "number" THEN value
  ELSE IF value[1] = "text" /\ value[2] \in DOMAIN Numerals THEN <<"number", Numerals[value[2]]>>
  ELSE <<Nothing>>

FirstNumber(data, paths) ==
  LET found == SelectSeq(paths, LAMBDA p : CoerceNumber(Dig(data, p)) # <<Nothing>>)
  IN  IF found = <<>> THEN <<Nothing>> ELSE CoerceNumber(Dig(data, found[1]))

(* Fields are a function from keys to values; a part of the sheet that is   *)
(* not there gives none.                                                   *)
NoFields == [k \in {} |-> Nothing]
Present(keys, Value(_)) == [k \in {j \in keys : Value(j) # <<Nothing>>} |-> Value(k)]
TextField(data, paths) == LET t == FirstString(data, paths)
                          IN  IF t = Nothing THEN <<Nothing>> ELSE <<"text", t>>
RichField(key, doc) == IF doc = Nothing THEN NoFields ELSE key :> <<"doc", doc>>
LineField(key, lines) == IF lines = <<>> THEN NoFields ELSE key :> <<"doc", Paragraphs(lines)>>

(* The site's own export wraps the sheet.                                  *)
NativeIsBroken(export) == export.wrap = "native" /\ export.sheet = Nothing
UnwrapNative(export) == export.sheet

NamePaths == <<<<"name">>, <<"name", "value">>, <<"info", "name">>>>
TextPaths == "class" :> <<<<"class">>, <<"info", "charClass", "value">>>>
NumberPaths == "level" :> <<<<"level">>, <<"info", "level", "value">>>>

Abilities == {"str", "dex"}
AbilityFields(data) ==
  LET Score(a) == FirstNumber(data, <<<<"stats", a>>, <<"stats", a, "score">>, <<"stats", a, "value">>>>)
  IN  Present(Abilities, Score)

SubInfoFields(data) ==
  Present({"age"}, LAMBDA k : TextField(data, <<<<"subInfo", k, "value">>, <<"subInfo", k>>>>))

Coins == "coins_gp" :> "gp"
CoinFields(data) ==
  Present(DOMAIN Coins,
          LAMBDA k : FirstNumber(data, <<<<"coins", Coins[k], "value">>, <<"coins", Coins[k]>>>>))

(* Expertise is imported as proficiency.                                   *)
Skills == "prof_stealth" :> "stealth"
IsProficient(value) == (value = <<"flag", TRUE>>) \/ (value[1] = "number" /\ value[2] >= 1)
ProficiencyFields(data) ==
  LET Flag(k) == IF Under(data, <<"skills", Skills[k]>>) = {} THEN <<Nothing>>
                 ELSE <<"flag", IsProficient(Dig(data, <<"skills", Skills[k], "isProf">>))>>
  IN  Present(DOMAIN Skills, Flag)

(* Text blocks of the native export.                                       *)
Block(data, name) == LET value == Dig(data, <<"text", name, "value", "data">>)
                     IN  IF value[1] = "doc" /\ value[2].type = "doc" THEN Sanitize(value[2])
                         ELSE Nothing
NativeTextFields(data) ==
  LET doc == Block(data, "background") IN RichField("backstory", doc)

Concatenated(data, names, Heading(_)) ==
  LET Add(content, name) ==
        LET doc == Block(data, name)
        IN  IF doc = Nothing THEN content ELSE content \o Heading(name) \o doc.content
  IN  FoldLeft(Add, <<>>, names)
Joined(content) == IF content = <<>> THEN Nothing ELSE Node("doc", content)

(* The six boxes of notes become one document, as do the spells of all      *)
(* levels, with a heading for each.                                        *)
NativeNotes(data) == Joined(Concatenated(data, <<"notes-1", "notes-2">>, LAMBDA name : <<>>))
SpellList(data) ==
  Joined(Concatenated(data, <<"spells-level-0", "spells-level-1">>,
                      LAMBDA name : <<Node("heading", <<TextNode(name, {})>>)>>))

(* Lists of the sheet become lines: of weapons with a name, of slots of     *)
(* which there are some.                                                   *)
Weapons(data) == SelectSeq(<<"1", "2">>, LAMBDA i : IsText(Dig(data, <<"weaponsList", i, "name", "value">>)))
WeaponLines(data) ==
  [i \in DOMAIN Weapons(data) |-> Dig(data, <<"weaponsList", Weapons(data)[i], "name", "value">>)[2]]
SpellSlotLines(data) ==
  LET Total(level) == CoerceNumber(Dig(data, <<"spells", level, "value">>))
  IN  SelectSeq(<<"slots-1", "slots-2">>, LAMBDA l : Total(l) \notin {<<Nothing>>, <<"number", 0>>})
TableFields(data) ==
  LineField("weapons", WeaponLines(data)) @@ LineField("spell_slots", SpellSlotLines(data))

NotesField(data) ==
  LET notes == FirstString(data, <<<<"notes">>, <<"bio">>, <<"biography">>>>)
  IN  IF notes # Nothing THEN "notes" :> <<"doc", Paragraphs(<<notes>>)>>
      ELSE RichField("notes", NativeNotes(data))

UrlField(url) == IF url = Nothing THEN NoFields ELSE "character_sheet_url" :> <<"text", url>>

(* parse_character: a sheet without a name is not one.                      *)
HasName(export) == ~NativeIsBroken(export) /\ FirstString(UnwrapNative(export), NamePaths) # Nothing
ParseCharacter(export, url) ==
  LET data == UnwrapNative(export)
      fields == Present(DOMAIN TextPaths, LAMBDA k : TextField(data, TextPaths[k]))
             @@ Present(DOMAIN NumberPaths, LAMBDA k : FirstNumber(data, NumberPaths[k]))
             @@ AbilityFields(data) @@ SubInfoFields(data) @@ CoinFields(data)
             @@ ProficiencyFields(data) @@ NativeTextFields(data) @@ TableFields(data)
             @@ NotesField(data) @@ RichField("spells", SpellList(data)) @@ UrlField(url)
  IN  [name |-> FirstString(data, NamePaths), fields |-> fields]

(* The sheets in a document: a batch is an array or an envelope, in which   *)
(* anything that is not an object is passed over.                          *)
Objects(entries) == SelectSeq(entries, LAMBDA e : e.wrap # "junk")
Empty == [wrap |-> "plain", sheet |-> NoFields]
ParseCharacters(file) ==
  LET objects == Objects(file.entries)
  IN  IF file.kind = "broken" \/ (file.kind = "list" /\ objects = <<>>) THEN Nothing
      ELSE IF objects = <<>> THEN <<Empty>> ELSE objects

-----------------------------------------------------------------------------
(* The import.  It holds the files still to be read, the sheets of the file *)
(* in hand, the sheet to be saved, the entity it was found to be of (`was`   *)
(* its type then), as that was read after, and the template for one that    *)
(* has none.                                                                *)
NoUpload == [pc |-> "idle", files |-> <<>>, strict |-> FALSE, url |-> Nothing,
             chars |-> <<>>, id |-> Nothing, sheet |-> Nothing, target |-> Nothing,
             was |-> Nothing, row |-> Nothing, own |-> Nothing]

Here(e) == member[e] # Nothing
Rows == DOMAIN member
ProjectSheet == IF dm.template THEN "own" ELSE BuiltinSheet  \* default_for_entity_type

(* import_data: files one by one, each of which may fail alone; or pasted   *)
(* text, whose failure is that of the request; or a shared sheet.          *)
ImportData(payload) ==
  /\ dm.imports < MaxImports /\ upload = NoUpload
  /\ dm' = [dm EXCEPT !.imports = @ + 1]
  /\ upload' = CASE payload.documents # <<>> ->
                     [NoUpload EXCEPT !.pc = "file", !.files = payload.documents]
                 [] payload.documents = <<>> /\ payload.raw # Nothing ->
                     [NoUpload EXCEPT !.pc = "file", !.files = <<payload.raw>>,
                        !.strict = TRUE, !.url = payload.url]
                 [] payload.documents = <<>> /\ payload.raw = Nothing /\ payload.url # Nothing ->
                     [NoUpload EXCEPT !.pc = "fetch", !.strict = TRUE, !.url = payload.url]
                 [] OTHER -> NoUpload
  /\ UNCHANGED <<member, sheetOf>>

(* The first endpoint that answers with a sheet, if any does.              *)
FetchCharacter ==
  /\ upload.pc = "fetch"
  /\ \/ upload' = [upload EXCEPT !.pc = "sheet", !.chars = <<Shared[upload.url]>>,
                                  !.id = upload.url]
     \/ upload' = NoUpload
  /\ UNCHANGED <<member, sheetOf, dm>>

(* A failed file is skipped, or is the failure of the import.              *)
SkipFile == upload' = IF upload.strict \/ Len(upload.files) <= 1 THEN NoUpload
                      ELSE [upload EXCEPT !.pc = "file", !.files = Tail(@), !.chars = <<>>]

(* The address given with a document is that of its sheet if it has one.    *)
ImportDocument ==
  /\ upload.pc = "file"
  /\ LET chars == ParseCharacters(upload.files[1])
     IN  IF chars = Nothing THEN SkipFile
         ELSE upload' = [upload EXCEPT !.pc = "sheet", !.chars = chars,
                                       !.id = IF Len(chars) = 1 THEN upload.url ELSE Nothing]
  /\ UNCHANGED <<member, sheetOf, dm>>

(* Variant, to test SafeRefresh: anything with the title is the character.  *)
FindExisting_AnyType(name, id) ==
  LET alike == {e \in Rows : Here(e) /\ member[e].title = name}
  IN  IF alike = {} THEN {Nothing} ELSE alike

(* By its link, or else by the title among party members; the order of the  *)
(* list is not known.                                                       *)
FindExisting(name, id) ==
  LET linked == {e \in Rows : Here(e) /\ id # Nothing /\ sheetOf[e] = id}
      alike == {e \in Rows : Here(e) /\ member[e].type = PartyMember /\ member[e].title = name}
  IN  IF linked # {} THEN linked ELSE IF alike # {} THEN alike ELSE {Nothing}

ImportCharacter ==
  /\ upload.pc = "sheet"
  /\ LET export == upload.chars[1]
         sheet == ParseCharacter(export, upload.id)
     IN  IF ~HasName(export) THEN SkipFile
         ELSE \E e \in FindExisting(sheet.name, upload.id) :
                upload' = [upload EXCEPT !.pc = IF e = Nothing THEN "template" ELSE "read",
                             !.sheet = sheet, !.target = e,
                             !.was = IF e = Nothing THEN Nothing ELSE member[e].type]
  /\ UNCHANGED <<member, sheetOf, dm>>

(* The row of the one found, if it is still there; its type is not asked     *)
(* again.                                                                   *)
ReadCharacter ==
  /\ upload.pc = "read"
  /\ IF ~ Here(upload.target) THEN upload' = NoUpload
     ELSE LET row == member[upload.target] IN
          upload' = [upload EXCEPT !.row = row,
                                   !.pc = IF row.template = Nothing THEN "template" ELSE "save"]
  /\ UNCHANGED <<member, sheetOf, dm>>

DefaultTemplate ==
  /\ upload.pc = "template"
  /\ upload' = [upload EXCEPT !.pc = "save", !.own = ProjectSheet]
  /\ UNCHANGED <<member, sheetOf, dm>>

MergeFields(current, incoming) == incoming @@ current

(* The row becomes what was read with the sheet laid over it; a new         *)
(* character gets the template of party members.                           *)
SavedRow ==
  IF upload.target = Nothing
  THEN [type |-> PartyMember, title |-> upload.sheet.name, fields |-> upload.sheet.fields,
        template |-> upload.own]
  ELSE [type |-> upload.row.type, title |-> upload.sheet.name,
        fields |-> MergeFields(upload.row.fields, upload.sheet.fields),
        template |-> IF upload.row.template # Nothing THEN upload.row.template ELSE upload.own]

NextSheet(u) ==
  IF Len(u.chars) > 1
  THEN [NoUpload EXCEPT !.pc = "sheet", !.chars = Tail(u.chars), !.files = u.files,
                        !.strict = u.strict, !.url = u.url, !.id = u.id]
  ELSE IF Len(u.files) > 1
  THEN [NoUpload EXCEPT !.pc = "file", !.files = Tail(u.files)]
  ELSE NoUpload

SaveCharacter ==
  /\ upload.pc = "save"
  /\ \/ /\ upload.target = Nothing
        /\ \E e \in 1..MaxMembers :
             /\ e = Cardinality(Rows) + 1
             /\ member' = member @@ e :> SavedRow
             /\ sheetOf' = sheetOf @@ e :> Nothing
             /\ upload' = IF upload.id = Nothing THEN NextSheet(upload)
                          ELSE [upload EXCEPT !.pc = "link", !.target = e]
     \/ /\ upload.target # Nothing /\ Here(upload.target)
        /\ member' = [member EXCEPT ![upload.target] = SavedRow]
        /\ upload' = IF upload.id = Nothing THEN NextSheet(upload) ELSE [upload EXCEPT !.pc = "link"]
        /\ UNCHANGED sheetOf
     \/ /\ upload.target # Nothing /\ ~Here(upload.target)  \* deleted meanwhile: not found
        /\ upload' = NoUpload
        /\ UNCHANGED <<member, sheetOf>>
  /\ UNCHANGED dm

LinkCharacter ==
  /\ upload.pc = "link"
  /\ sheetOf' = IF Here(upload.target) THEN [sheetOf EXCEPT ![upload.target] = upload.id] ELSE sheetOf
  /\ upload' = IF Here(upload.target) THEN NextSheet(upload) ELSE NoUpload
  /\ UNCHANGED <<member, dm>>

-----------------------------------------------------------------------------
(* The game master adds a field to an entity, retypes or unbinds it,        *)
(* makes a template of the project, creates an NPC or deletes an entity.   *)
DmChanges(row) ==
  {[row EXCEPT !.fields = "secret" :> <<"text", "kept">> @@ @],
   [row EXCEPT !.type = "npc"], [row EXCEPT !.template = Nothing], Nothing}

DmEdit(e, row) ==
  /\ dm.edits < MaxDmEdits /\ dm' = [dm EXCEPT !.edits = @ + 1]
  /\ Here(e) /\ member' = [member EXCEPT ![e] = row]
  /\ sheetOf' = IF row = Nothing THEN [sheetOf EXCEPT ![e] = Nothing] ELSE sheetOf
  /\ UNCHANGED upload

DmMakesTemplate ==
  /\ dm.edits < MaxDmEdits /\ dm' = [dm EXCEPT !.edits = @ + 1, !.template = TRUE]
  /\ UNCHANGED <<member, sheetOf, upload>>

SheetNext ==
  \/ \E payload \in Payloads : ImportData(payload)
  \/ FetchCharacter \/ ImportDocument \/ ImportCharacter \/ ReadCharacter
  \/ DefaultTemplate \/ SaveCharacter \/ LinkCharacter
  \/ \E e \in Rows : Here(e) /\ \E row \in DmChanges(member[e]) : DmEdit(e, row)
  \/ DmMakesTemplate

-----------------------------------------------------------------------------
(* What the editor can open: known nodes and marks, and no list, item or    *)
(* quotation with nothing in it.                                            *)
RECURSIVE Opens(_)
Opens(node) == /\ node.type \in AllowedNodes /\ node.marks \subseteq AllowedMarks
               /\ node.type \in Containers => node.content # <<>>
               /\ \A i \in DOMAIN node.content : Opens(node.content[i])

(* A refresh keeps what the game master had when it was read: fields the    *)
(* sheet does not have, a binding to a template, the type.                  *)
KeepsTheirWork(read, sheet, saved) ==
  /\ saved.type = read.type
  /\ read.template # Nothing => saved.template = read.template
  /\ \A k \in DOMAIN read.fields \ DOMAIN sheet.fields :
       k \in DOMAIN saved.fields /\ saved.fields[k] = read.fields[k]

(* Only what was a party member when the sheet's name was looked up, or the *)
(* entity a link leads to, is refreshed; it keeps the game master's own     *)
(* work as it was read; and whatever a sheet brings, the editor can open    *)
(* the documents of it.  The type is that of the lookup (connector.py:216): *)
(* the row is read anew after it (connector.py:234) and not asked again, so *)
(* that a party member made an NPC between the two is overwritten by the    *)
(* sheet all the same, and stays an NPC.                                    *)
SafeRefresh ==
  [][\A e \in DOMAIN member' :
       (upload.pc = "save" /\ upload'.pc # "save" /\ (e \in Rows => member'[e] # member[e])) =>
         /\ \A k \in DOMAIN member'[e].fields :
              member'[e].fields[k][1] = "doc" => Opens(member'[e].fields[k][2])
         /\ e \in Rows =>
              /\ upload.was = PartyMember \/ (upload.id # Nothing /\ sheetOf[e] = upload.id)
              /\ KeepsTheirWork(upload.row, upload.sheet, member'[e])]_sheets
=============================================================================
