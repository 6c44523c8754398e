---------------------------- MODULE MarkdownNotes ----------------------------
(***************************************************************************)
(* Documents of the editor as Markdown and back (markdown_codec.py), which *)
(* is how they travel to a vault and home again.                           *)
(*                                                                         *)
(* A line is a sequence of tokens: leading spaces " ", the markers of       *)
(* Markdown's blocks ("[x]" and "[ ]" with the dash before them), and       *)
(* words.  Inline marks, links and images are words; "BR" is a hard break.  *)
(***************************************************************************)
EXTENDS Naturals, Sequences, FiniteSets, SequencesExt

CONSTANTS
  Notes,  \* documents, each a sequence of blocks
  Words,  \* what texts are made of
  NoText  \* no lines, no document

VARIABLE note  \* a document, its Markdown, and what is read from that

(* A block: its type, its own text, its level or whether it is checked, and *)
(* the blocks in it.                                                       *)
MdBlock(type, text, at, content) == [type |-> type, text |-> text, at |-> at, content |-> content]
Para(text) == MdBlock("paragraph", text, 0, <<>>)
ListTypes == {"bulletList", "orderedList", "taskList"}

Repeat(token, n) == [i \in 1..n |-> token]
Nonempty(seqs) == SelectSeq(seqs, LAMBDA s : s # <<>>)
MapSeq(seq, F(_)) == [i \in DOMAIN seq |-> F(seq[i])]
SplitAt(tokens, sep) ==
  FoldLeft(LAMBDA acc, t : IF t = sep THEN Append(acc, <<>>)
                           ELSE [acc EXCEPT ![Len(acc)] = Append(@, t)],
           <<<<>>>>, tokens)
JoinWith(seqs, sep) ==
  FoldLeft(LAMBDA acc, s : IF acc = NoText THEN s ELSE acc \o sep \o s, NoText, seqs)

-----------------------------------------------------------------------------
(* Rendering: a block is a sequence of lines.                              *)
Leading(line) == LET rest == {i \in DOMAIN line : line[i] # " "}
                 IN  IF rest = {} THEN Len(line) ELSE (CHOOSE i \in rest : \A j \in rest : i <= j) - 1
Stripped(line) == SubSeq(line, Leading(line) + 1, Len(line))
Blank(line) == Stripped(line) = <<>>

(* Blocks with a blank line between them, those with nothing in them left   *)
(* out.                                                                    *)
JoinBlocks(blocks) ==
  LET kept == SelectSeq(blocks, LAMBDA b : \E i \in DOMAIN b : ~Blank(b[i]))
  IN  IF kept = <<>> THEN <<<<>>>> ELSE JoinWith(kept, <<<<>>>>)

ListMarker(type, item) ==
  CASE type = "orderedList" -> "1."
    [] type = "taskList" -> IF item.at = 1 THEN "[x]" ELSE "[ ]"
    [] OTHER -> "-"
MarkerWidth(marker) == CASE marker = "-" -> 1 [] marker = "1." -> 2 [] OTHER -> 5

RECURSIVE RenderBlock(_), RenderList(_, _)

(* All of a cell on one line.                                              *)
RenderCell(cell) ==
  FlattenSeq(MapSeq(FlattenSeq(MapSeq(cell.content, RenderBlock)), Stripped))

(* The first row is a header if all its cells are; if not, an empty one is  *)
(* put before it.  Short rows are filled up.                               *)
RenderTable(node) ==
  LET rows == MapSeq(node.content, LAMBDA r : MapSeq(r.content, RenderCell))
      width == CHOOSE w \in {Len(rows[i]) : i \in DOMAIN rows} :
                 \A i \in DOMAIN rows : Len(rows[i]) <= w
      Row(cells) == <<"|">> \o FlattenSeq([i \in 1..width |->
                      (IF i <= Len(cells) THEN cells[i] ELSE <<>>) \o <<"|">>])
      first == node.content[1].content
      isHeader == \A i \in DOMAIN first : first[i].type = "tableHeader"
      lines == MapSeq(rows, Row)
  IN  IF isHeader THEN <<lines[1], <<"|-">>>> \o Tail(lines)
      ELSE <<Row(<<>>), <<"|-">>>> \o lines

(* The first block of an item follows the marker; later ones are indented   *)
(* as far, but only their first lines; a list in an item goes one deeper.   *)
RenderItem(type, item, indent) ==
  LET marker == ListMarker(type, item)
      Add(acc, child) ==
        LET lines == RenderBlock(child)
            lead == Repeat(" ", 2 * indent)
                      \o IF acc.first THEN <<marker>> ELSE Repeat(" ", MarkerWidth(marker) + 1)
        IN  IF child.type \in ListTypes
            THEN [acc EXCEPT !.lines = @ \o RenderList(child, indent + 1)]
            ELSE IF JoinWith(lines, <<>>) = <<>> THEN acc
            ELSE [lines |-> acc.lines \o <<lead \o lines[1]>> \o Tail(lines), first |-> FALSE]
  IN  FoldLeft(Add, [lines |-> <<>>, first |-> TRUE], item.content).lines

RenderList(node, indent) ==
  FlattenSeq(MapSeq(node.content, LAMBDA item : RenderItem(node.type, item, indent)))

RenderBlock(node) ==
  LET lines == SplitAt(node.text, "BR")
  IN  CASE node.type = "heading" -> <<Repeat("#", node.at) \o lines[1]>> \o Tail(lines)
        [] node.type \in ListTypes -> RenderList(node, 0)
        [] node.type = "table" -> IF node.content = <<>> THEN <<<<>>>> ELSE RenderTable(node)
        [] node.type = "blockquote" ->
             MapSeq(JoinWith(MapSeq(node.content, RenderBlock), <<<<>>>>), LAMBDA l : <<">">> \o l)
        [] node.type = "codeBlock" -> <<<<"fence">>>> \o lines \o <<<<"fence">>>>
        [] node.type = "horizontalRule" -> <<<<"rule">>>>
        [] OTHER -> lines  \* a paragraph, and the text of whatever else there is

ToMarkdown(doc) == JoinBlocks(MapSeq(doc, RenderBlock))

-----------------------------------------------------------------------------
(* Parsing.  Each operator reads a block off the front of the lines and     *)
(* returns it with the lines that are left.                                *)
Mark(line) == IF Blank(line) THEN "" ELSE Stripped(line)[1]
IsHeading(line) == line # <<>> /\ line[1] = "#"
ListKind(line) == CASE Mark(line) \in {"[x]", "[ ]"} -> "taskList"
                    [] Mark(line) = "1." -> "orderedList"
                    [] Mark(line) = "-" -> "bulletList"
                    [] OTHER -> ""
IsRow(line) == Mark(line) = "|"
StartsTable(lines) == IsRow(lines[1]) /\ Len(lines) > 1 /\ Mark(lines[2]) = "|-"
InParagraph(lines) ==
  /\ ~Blank(lines[1]) /\ ~IsHeading(lines[1]) /\ ListKind(lines[1]) = "" /\ ~StartsTable(lines)
  /\ Mark(lines[1]) \notin {">", "fence", "rule"}

(* The lines at the front for which a test holds, of each and those after.  *)
CountWhile(lines, Test(_)) ==
  LET fails == {i \in DOMAIN lines : ~Test(SubSeq(lines, i, Len(lines)))}
  IN  IF fails = {} THEN Len(lines) ELSE (CHOOSE i \in fails : \A j \in fails : i <= j) - 1
From(lines, n) == SubSeq(lines, n, Len(lines))
Read(node, rest) == [node |-> node, rest |-> rest]

RECURSIVE ParseList(_, _), FromMarkdown(_)

ParseCode(lines) ==
  LET n == CountWhile(Tail(lines), LAMBDA ls : Mark(ls[1]) # "fence")
      text == IF n = 0 THEN <<>> ELSE JoinWith(SubSeq(lines, 2, n + 1), <<"BR">>)
  IN  Read(MdBlock("codeBlock", text, 0, <<>>), From(lines, n + 3))

ParseHeading(line) ==
  LET level == CountWhile(line, LAMBDA l : l[1] = "#")
  IN  MdBlock("heading", From(line, level + 1), level, <<>>)

(* A quotation loses the indentation of what is in it.                     *)
ParseQuote(lines) ==
  LET n == CountWhile(lines, LAMBDA ls : Mark(ls[1]) = ">")
      inner == MapSeq(SubSeq(lines, 1, n), LAMBDA l : Stripped(Tail(Stripped(l))))
  IN  Read(MdBlock("blockquote", <<>>, 0, FromMarkdown(inner)), From(lines, n + 1))

SplitRow(line) == LET parts == SplitAt(Stripped(line), "|") IN SubSeq(parts, 2, Len(parts) - 1)

TableRow(line, type) ==
  MdBlock("tableRow", <<>>, 0,
          MapSeq(SplitRow(line), LAMBDA c : MdBlock(type, <<>>, 0, <<Para(c)>>)))

ParseTable(lines) ==
  LET n == CountWhile(From(lines, 3), LAMBDA ls : IsRow(ls[1]))
      header == IF Nonempty(SplitRow(lines[1])) = <<>> THEN <<>>
                ELSE <<TableRow(lines[1], "tableHeader")>>
      rows == MapSeq(SubSeq(lines, 3, n + 2), LAMBDA l : TableRow(l, "tableCell"))
  IN  Read(MdBlock("table", <<>>, 0, header \o rows), From(lines, n + 3))

(* An item is one line, and a list that is deeper below it.                *)
ParseItem(lines, kind, indent) ==
  LET line == Stripped(lines[1])
      type == IF kind = "taskList" THEN "taskItem" ELSE "listItem"
      Item(content) == MdBlock(type, <<>>, IF line[1] = "[x]" THEN 1 ELSE 0, content)
      rest == Tail(lines)
      nested == ParseList(rest, Leading(rest[1]))
  IN  IF rest # <<>> /\ ListKind(rest[1]) # "" /\ Leading(rest[1]) > indent
      THEN Read(Item(<<Para(Tail(line)), nested.node>>), nested.rest)
      ELSE Read(Item(<<Para(Tail(line))>>), rest)

(* Variant, to test NotesComeBack: items of any indentation are items.      *)
Continues_AnyIndent(lines, kind, indent) == lines # <<>> /\ ListKind(lines[1]) = kind
(* Items go on as long as lines are of the kind and the indentation.        *)
Continues(lines, kind, indent) ==
  lines # <<>> /\ ListKind(lines[1]) = kind /\ Leading(lines[1]) = indent

ParseList(lines, indent) ==
  LET kind == ListKind(lines[1])
      RECURSIVE Items(_)
      Items(ls) == IF ~Continues(ls, kind, indent) THEN Read(<<>>, ls)
                   ELSE LET item == ParseItem(ls, kind, indent)
                            more == Items(item.rest)
                        IN  Read(<<item.node>> \o more.node, more.rest)
      items == Items(lines)
  IN  Read(MdBlock(kind, <<>>, 0, items.node), items.rest)

ParseParagraph(lines) ==
  LET n == CountWhile(lines, InParagraph)
  IN  Read(Para(JoinWith(SubSeq(lines, 1, n), <<"BR">>)), From(lines, n + 1))

ParseBlock(lines) ==
  LET line == lines[1]
  IN  CASE Mark(line) = "fence" -> ParseCode(lines)
        [] Mark(line) = "rule" -> Read(MdBlock("horizontalRule", <<>>, 0, <<>>), Tail(lines))
        [] IsHeading(line) -> Read(ParseHeading(line), Tail(lines))
        [] Mark(line) = ">" -> ParseQuote(lines)
        [] StartsTable(lines) -> ParseTable(lines)
        [] ListKind(line) # "" -> ParseList(lines, Leading(line))
        [] OTHER -> ParseParagraph(lines)

FromMarkdown(markdown) ==
  LET RECURSIVE Blocks(_)
      Blocks(lines) ==
        IF lines = <<>> THEN <<>>
        ELSE IF Blank(lines[1]) THEN Blocks(Tail(lines))
        ELSE LET block == ParseBlock(lines) IN <<block.node>> \o Blocks(block.rest)
      content == Blocks(markdown)
  IN  IF content = <<>> THEN <<Para(<<>>)>> ELSE content

-----------------------------------------------------------------------------
NoNote == [doc |-> NoText, markdown |-> NoText, back |-> NoText]
NoteInit == \E doc \in Notes : note = [NoNote EXCEPT !.doc = doc]

ExportDoc == /\ note.doc # NoText /\ note.markdown = NoText
             /\ note' = [note EXCEPT !.markdown = ToMarkdown(note.doc)]
ImportDoc == /\ note.markdown # NoText /\ note.back = NoText
             /\ note' = [note EXCEPT !.back = FromMarkdown(note.markdown)]
NoteNext == ExportDoc \/ ImportDoc

-----------------------------------------------------------------------------
RECURSIVE WordsOf(_)
WordsOf(blocks) ==
  FlattenSeq(MapSeq(blocks, LAMBDA b :
    SelectSeq(b.text, LAMBDA t : t \in Words) \o WordsOf(b.content)))

(* What Markdown can say: text on a line of its own in headings, items and   *)
(* cells, an item with at most a list in it, no deeper list in a quotation, *)
(* and tables whose rows are as long as the first, the only header.         *)
OneLine(text) == text # <<>> /\ "BR" \notin Range(text)
RECURSIVE Sayable(_, _)
Sayable(b, quoted) ==
  LET Each(Test(_)) == \A i \in DOMAIN b.content : Test(b.content[i])
  IN  CASE b.type \in {"paragraph", "codeBlock"} -> b.text # <<>>
        [] b.type = "heading" -> OneLine(b.text)
        [] b.type = "horizontalRule" -> TRUE
        [] b.type = "blockquote" -> b.content # <<>> /\ Each(LAMBDA c : Sayable(c, TRUE))
        [] b.type \in ListTypes -> b.content # <<>> /\ Each(LAMBDA item :
             /\ item.content # <<>> /\ item.content[1].type = "paragraph" /\ OneLine(item.content[1].text)
             /\ \/ Len(item.content) = 1
                \/ /\ ~quoted /\ Len(item.content) = 2
                   /\ item.content[2].type \in ListTypes /\ Sayable(item.content[2], quoted))
        [] b.type = "table" -> b.content # <<>> /\ Each(LAMBDA row :
             /\ Len(row.content) = Len(b.content[1].content)
             /\ \A i \in DOMAIN row.content :
                  /\ Len(row.content[i].content) = 1
                  /\ "BR" \notin Range(row.content[i].content[1].text)
                  /\ row.content[i].type =
                       IF row = b.content[1] THEN b.content[1].content[1].type ELSE "tableCell"
             /\ b.content[1].content[1].type = "tableHeader" =>
                  \E i \in DOMAIN b.content[1].content : b.content[1].content[i].content[1].text # <<>>)
        [] OTHER -> FALSE

(* Whatever the document, all its words come back in their order; and what  *)
(* Markdown can say comes back as it was.                                  *)
NotesComeBack ==
  note.back # NoText =>
    /\ WordsOf(note.back) = WordsOf(note.doc)
    /\ (\A i \in DOMAIN note.doc : Sayable(note.doc[i], FALSE)) => note.back = note.doc
=============================================================================
