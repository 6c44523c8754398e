------------------------------ MODULE MCExchange ------------------------------
(***************************************************************************)
(* What crosses the border of the program, one kind at a time: answers of   *)
(* a language model, its proposals, what its tools tell it of the world,    *)
(* character sheets, project files, and notes.                             *)
(***************************************************************************)
EXTENDS StructuredCall, CharacterImport, ProjectTransfer, MarkdownNotes, LoreTools, ProposalCheck

(* Exceptions that have each mark of a class, and some that have several.   *)
Plain == [direct |-> 0, nested |-> 0, says |-> {}, type |-> "APIError", cost |-> 0]
SomeRefusals ==
  {[Plain EXCEPT !.nested = n, !.cost = c] : n \in {401, 429, 400}, c \in {0, 1}}
    \cup {[Plain EXCEPT !.nested = 400, !.says = says] : says \in SUBSET {"auth", "transient", "capability"}}
    \cup {[Plain EXCEPT !.type = type] : type \in {"TimeoutError", "AttributeError"}}
    \cup {[Plain EXCEPT !.says = {"local"}], [Plain EXCEPT !.direct = 422, !.nested = 401, !.says = {"capability"}]}
SomeAnswers ==
  {[form |-> "text", parsed |-> p, valid |-> v, cost |-> 1] : p, v \in BOOLEAN}
    \cup {[form |-> f, parsed |-> TRUE, valid |-> TRUE, cost |-> 1] : f \in {"fenced", "otherFence", "none"}}

(* A sheet as pasted, one exported with everything there is, one of the      *)
(* same name, and one without a name.                                       *)
Text(t) == <<"text", t>>
Resource == Node("resource", <<TextNode("hidden", {})>>)
Background ==
  Node("doc", <<Node("paragraph", <<TextNode("past", {"bold", "glow"}), TextNode("", {})>>),
                Node("bulletList", <<Node("listItem", <<Resource>>)>>)>>)
Boxed(t) == Node("doc", <<Node("paragraph", <<TextNode(t, {})>>)>>)
Export(wrap, sheet) == [wrap |-> wrap, sheet |-> sheet]
Ann == Export("plain", <<"name">> :> Text("ann") @@ <<"class">> :> Text(" ") @@ <<"info", "charClass", "value">> :> Text("bard")
         @@ <<"level">> :> Text("3") @@ <<"stats", "str", "score">> :> <<"number", 8>> @@ <<"notes">> :> Text("n"))
FullAnn == Export("native", <<"name", "value">> :> Text("ann") @@ <<"text", "background", "value", "data">> :> <<"doc", Background>>
             @@ <<"text", "notes-1", "value", "data">> :> <<"doc", Boxed("n1")>>
             @@ <<"text", "notes-2", "value", "data">> :> <<"doc", Boxed(" ")>>
             @@ <<"text", "spells-level-1", "value", "data">> :> <<"doc", Boxed("spark")>>
             @@ <<"weaponsList", "2", "name", "value">> :> Text("axe") @@ <<"spells", "slots-1", "value">> :> <<"number", 2>>
             @@ <<"spells", "slots-2", "value">> :> <<"number", 0>> @@ <<"coins", "gp", "value">> :> Text("3")
             @@ <<"skills", "stealth", "isProf">> :> <<"number", 2>> @@ <<"subInfo", "age">> :> Text("178 cm"))
Bob == Export("nested", <<"info", "name">> :> Text("bob") @@ <<"level">> :> <<"number", 1>>)
Nameless == Export("plain", <<"level">> :> <<"number", 1>>)
Torn == Export("native", Nothing)
Junk == Export("junk", Nothing)

FileOf(file, entries) == [kind |-> file, entries |-> entries]
Payload(documents, raw, url) == [documents |-> documents, raw |-> raw, url |-> url]
SomePayloads ==
  {Payload(<<FileOf("list", <<Ann, Nameless>>), FileOf("broken", <<>>), FileOf("single", <<Bob>>)>>, Nothing, Nothing),
   Payload(<<>>, FileOf("single", <<FullAnn>>), "u1"), Payload(<<>>, FileOf("single", <<FullAnn>>), Nothing),
   Payload(<<>>, FileOf("envelope", <<Bob, Junk, Ann>>), "u1"),
   Payload(<<>>, FileOf("single", <<Torn>>), Nothing), Payload(<<>>, FileOf("list", <<Junk>>), Nothing),
   Payload(<<>>, FileOf("envelope", <<Junk>>), Nothing),
   Payload(<<>>, Nothing, "u1"), Payload(<<>>, Nothing, Nothing)}
SomeShared == "u1" :> Ann
SomeNumerals == "3" :> 3
Npc(name) == [type |-> "npc", title |-> name, fields |-> NoFields, template |-> Nothing]

(* Two entities, the first with a file, of all the ways they may refer to   *)
(* each other, to the file, to a template and to what is not there.        *)
Row(template, icon, link, picture, seen, playerLink) ==
  [template |-> template, icon |-> icon, link |-> link, picture |-> picture, file |-> icon,
   seen |-> seen, playerLink |-> playerLink]
SomeWorlds ==
  {[entities |-> Old(1) :> Row(t, i, l, p, s, pl) @@ Old(2) :> Row(Builtin, NoId, Old(1), NoId, TRUE, NoId),
    edges |-> {<<Old(1), Old(2)>>}, attachments |-> Old(11) :> Old(1), templates |-> {Old(21)}] :
      t \in {NoId, Old(21), Old(22)}, i, p \in {NoId, Old(11)}, l \in {NoId, Old(2), Old(9)}, s \in BOOLEAN, pl \in {NoId, Old(2)}}

HandMadeFiles ==
  {[entities |-> Old(1) :> Row(Builtin, Old(11), Old(1), NoId, FALSE, NoId), edges |-> edges,
    attachments |-> Old(11) :> Old(2), templates |-> {}] : edges \in {{}, {<<Old(1), Old(1)>>}, {<<Old(1), Old(2)>>}}}

(* Every two blocks of these kinds, sayable in Markdown or not.             *)
Item(content) == MdBlock("listItem", <<>>, 0, content)
Task(at, content) == MdBlock("taskItem", <<>>, at, content)
Of(type, content) == MdBlock(type, <<>>, 0, content)
Cell(type, t) == Of(type, <<Para(t)>>)
Line(t) == Item(<<Para(t)>>)
Deep == Of("bulletList", <<Item(<<Para(<<"a">>), Of("orderedList", <<Line(<<"b">>), Item(<<Para(<<"c">>), Of("taskList", <<Task(1, <<Para(<<"a">>)>>)>>)>>)>>)>>), Line(<<"c">>)>>)
Nested == Of("bulletList", <<Item(<<Para(<<"a">>), Of("bulletList", <<Line(<<"b">>)>>)>>), Line(<<"c">>)>>)
TwoInItem == Of("orderedList", <<Item(<<Para(<<"a">>), Para(<<"b">>)>>), Line(<<"c">>)>>)
TwoLists == Of("taskList", <<Task(0, <<Para(<<"a">>), Of("bulletList", <<Line(<<"b">>)>>), Of("orderedList", <<Line(<<"c">>)>>)>>), Task(1, <<Para(<<"b">>)>>)>>)
CodeInItem == Of("bulletList", <<Item(<<MdBlock("codeBlock", <<"a", "BR", "b">>, 0, <<>>)>>), Line(<<"c">>)>>)
Table(head) == Of("table", <<Of("tableRow", <<Cell(head, <<"a">>), Cell(head, <<>>)>>), Of("tableRow", <<Cell("tableCell", <<>>), Cell("tableCell", <<"b">>)>>)>>)
Ragged == Of("table", <<Of("tableRow", <<Cell("tableHeader", <<"a">>)>>),
                        Of("tableRow", <<Of("tableCell", <<Para(<<"b", "BR", "c">>), Deep>>), Cell("tableCell", <<"c">>)>>)>>)
Kinds == {Para(<<"a">>), Para(<<"a", "BR", "b">>), Para(<<>>), MdBlock("heading", <<"b">>, 2, <<>>),
          MdBlock("heading", <<"b", "BR", "c">>, 1, <<>>), MdBlock("codeBlock", <<"a", "BR", "b">>, 0, <<>>),
          MdBlock("codeBlock", <<>>, 0, <<>>), MdBlock("horizontalRule", <<>>, 0, <<>>), MdBlock("unknown", <<"c">>, 0, <<>>),
          Deep, Nested, TwoInItem, TwoLists, CodeInItem, Of("bulletList", <<Line(<<>>), Line(<<"a">>)>>),
          Table("tableHeader"), Table("tableCell"), Ragged, Of("table", <<>>)}
Blocks2 == Kinds \cup {Of("blockquote", <<b>>) : b \in Kinds}
            \cup {Of("blockquote", <<Para(<<"a">>), Of("blockquote", <<Para(<<"b">>), Para(<<"c">>)>>)>>)}
SomeNotes == {<<b>> : b \in Blocks2} \cup {<<b, c>> : b, c \in Blocks2}

(* Proposals with clones, repeated and shadowing refs, patches and           *)
(* operations on what is there, was not shown, or never was.               *)
Operation(op, source, target, edge, type) ==
  [op |-> op, source |-> source, target |-> target, edge |-> edge, type |-> type]
Link(source, target) == Operation("create", source, target, NoId, "foe")
NewEntities == {{}, {Entity("n1", "X")}, {Entity("n1", "X"), Entity("n2", "a")},
                {Entity("n1", "X"), Entity("n1", "A")}, {Entity("e1", "X")}}
Operations == {{}, {Link("n1", "e2"), Link("e3", "e3")}, {Link("n2", "e1"), Operation("delete", "", "", "b1", "")},
               {Operation("update", "", "", "b2", "foe"), Link("e2", "e1")}}
Draft(entities, patches, operations) == [entities |-> entities, patches |-> patches, relationships |-> operations]
MCDrafts == {Draft(n, IF n = {} THEN {"e1", "e3"} ELSE {}, r) : n \in NewEntities, r \in Operations}
MCRewrites == {Draft({Entity("n1", "A")}, {"e3"}, {Link("n2", "e2")})}
Bond(source, target, type) == [source |-> source, target |-> target, type |-> type]
MCWorlds == {[title |-> "e1" :> "A" @@ "e2" :> "B",
              bond |-> "b1" :> Bond("e1", "e2", "ally") @@ "b2" :> Bond("e2", "e1", "foe")]}
MCAlike == {<<t, t>> : t \in {"A", "a", "B", "X"}} \cup {<<"A", "a">>, <<"a", "A">>}

(* A hub of three relationships and one beside it, in the order of their    *)
(* ids, of which one is free.                                              *)
Hub == 1 :> Bond("p1", "p2", "t") @@ 3 :> Bond("p1", "p3", "t") @@ 4 :> Bond("p3", "p1", "t") @@ 5 :> Bond("p2", "p3", "t")
(* Bound: one kind of call at a time; a search is of a world as it begins.  *)
OneTool ==
  /\ call.tool \in {"graph", "search", "details", "list"} => ~ tour.open /\ call.at # "told"
  /\ call.tool = "search" => edits = 0
  /\ tour.open /\ tour.closed => call.tool = "none"

-----------------------------------------------------------------------------
NoCalls == gen = NoCall /\ tokens = NoTokens
NoSheets == /\ member = <<>> /\ sheetOf = <<>> /\ upload = NoUpload
            /\ dm = [edits |-> MaxDmEdits, imports |-> MaxImports, template |-> FALSE]
NoTransfer == /\ original = EmptyProject /\ copy = EmptyProject /\ changes = 0
              /\ transfer = [NotStarted EXCEPT !.pc = "done"]
NoNotes == note = NoNote
NoTools == lore = {} /\ tie = <<>> /\ call = [NoCallYet EXCEPT !.at = "never"] /\ tour = NoTour /\ edits = MaxEdits
NoProposal ==
  /\ canon = [title |-> Nobody, bond |-> Nobody] /\ context = <<>>
  /\ proposal = [at |-> "refused", rewritten |-> TRUE] /\ moves = [now |-> MaxMoves]

SheetInit == /\ \E name \in {"ann", "bob"} : member = <<Npc(name)>>
             /\ sheetOf = <<Nothing>> /\ upload = NoUpload
             /\ dm = [edits |-> 0, imports |-> 0, template |-> FALSE]
ToolsInit == lore = Places /\ tie = Hub /\ call = NoCallYet /\ tour = NoTour /\ edits = 0
Init == \/ CallInit /\ NoSheets /\ NoTransfer /\ NoNotes /\ NoTools /\ NoProposal
        \/ NoCalls /\ SheetInit /\ NoTransfer /\ NoNotes /\ NoTools /\ NoProposal
        \/ NoCalls /\ NoSheets /\ TransferInit /\ NoNotes /\ NoTools /\ NoProposal
        \/ NoCalls /\ NoSheets /\ NoTransfer /\ NoteInit /\ NoTools /\ NoProposal
        \/ NoCalls /\ NoSheets /\ NoTransfer /\ NoNotes /\ ToolsInit /\ NoProposal
        \/ NoCalls /\ NoSheets /\ NoTransfer /\ NoNotes /\ NoTools /\ CheckInit
Next == \/ CallNext /\ UNCHANGED <<sheets, transfers, note, reading, checking>>
        \/ SheetNext /\ UNCHANGED <<calls, transfers, note, reading, checking>>
        \/ TransferNext /\ UNCHANGED <<calls, sheets, note, reading, checking>>
        \/ NoteNext /\ UNCHANGED <<calls, sheets, transfers, reading, checking>>
        \/ ToolsNext /\ UNCHANGED <<calls, sheets, transfers, note, checking>>
        \/ CheckNext /\ UNCHANGED <<calls, sheets, transfers, note, reading>>
Spec == Init /\ [][Next]_<<calls, sheets, transfers, note, reading, checking>>
=============================================================================
