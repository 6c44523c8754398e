----------------------------- MODULE ImportMerge -----------------------------
(***************************************************************************)
(* The pure part of a bulk import: the names found by the windows of a     *)
(* document become one registry, and what the windows extracted becomes    *)
(* one set of new entities and relationships.                              *)
(*                                                                         *)
(* Titles are case-folded.  A dictionary from titles is a sequence of      *)
(* entries in insertion order, each with the titles that lead to it, since *)
(* a fuzzy match takes the first title that is close enough.               *)
(***************************************************************************)
EXTENDS Naturals, Sequences, FiniteSets, SequencesExt, FiniteSetsExt

CONSTANTS
  Similar,  \* pairs of titles at or above FUZZY_MERGE_RATIO
  None      \* no entity

Near(s, t) == s = t \/ <<s, t>> \in Similar \/ <<t, s>> \in Similar

FirstWith(seq, Test(_)) ==
  LET hits == {i \in DOMAIN seq : Test(seq[i])}
  IN  IF hits = {} THEN 0 ELSE Min(hits)
-----------------------------------------------------------------------------
(* The registry: draft entries are [canonical, aliases]. *)

Names(entry) == {entry.canonical} \cup entry.aliases

(* An entry joins the first one that any of its names resembles. *)
AddRegistryEntry(merged, entry) ==
  LET Same(known) == \E s \in Names(entry), t \in Names(known) : Near(s, t)
      i == FirstWith(merged, Same)
  IN  IF i = 0
      THEN Append(merged, entry)
      ELSE [merged EXCEPT ![i].aliases =
              @ \cup (Names(entry) \ {merged[i].canonical})]

(* An entry that resembles a title of the canon is linked to its entity. *)
LinkToCanon(entry, canon) ==
  LET i == FirstWith(canon, LAMBDA e : Near(entry.canonical, e.title))
  IN  [canonical |-> entry.canonical, aliases |-> entry.aliases,
       existing |-> IF i = 0 THEN None ELSE canon[i].id]

BuildRegistry(drafts, canon) ==
  LET merged == FoldLeft(AddRegistryEntry, <<>>, FlattenSeq(drafts))
  IN  [i \in DOMAIN merged |-> LinkToCanon(merged[i], canon)]
-----------------------------------------------------------------------------
(* The merge: final references are <<"id", e>> for an entity of the canon   *)
(* and <<"m", k>> for the k-th new one.                                     *)

Known(titles, final) == [titles |-> titles, final |-> final]

(* A repeated title keeps its place and leads to the last entity with it. *)
KnownCanon(canon) ==
  LET LastOf(t) == Max({i \in DOMAIN canon : canon[i].title = t})
  IN  [i \in DOMAIN canon |->
         Known({canon[i].title}, <<"id", canon[LastOf(canon[i].title)].id>>)]

KnownRegistry(registry) ==
  LET linked == SelectSeq(registry, LAMBDA e : e.existing # None)
  IN  [i \in DOMAIN linked |->
         Known(Names(linked[i]), <<"id", linked[i].existing>>)]

Exact(known, title) == FirstWith(known, LAMBDA e : title \in e.titles)

Fuzzy(known, title) ==
  FirstWith(known, LAMBDA e : \E t \in e.titles : Near(title, t))

(* The entry a title leads to, 0 if none. *)
Match(known, title) ==
  IF Exact(known, title) # 0 THEN Exact(known, title) ELSE Fuzzy(known, title)

(* One extracted entity [window, ref, title]: linked, or kept as new. *)
PlaceEntity(acc, e) ==
  LET i == Match(acc.known, e.title)
      new == <<"m", Len(acc.kept)>>
      final == IF i # 0 THEN acc.known[i].final ELSE new
      local == [k \in DOMAIN acc.local \cup {<<e.window, e.ref>>} |->
                  IF k = <<e.window, e.ref>> THEN final ELSE acc.local[k]]
  IN  IF i # 0
      THEN [acc EXCEPT !.local = local]
      ELSE [kept |-> Append(acc.kept, e.title), local |-> local,
            known |-> Append(acc.known, Known({e.title}, new))]

(* A window's own ref first, then an exact title. *)
Resolve(acc, window, name) ==
  IF <<window, name>> \in DOMAIN acc.local THEN acc.local[<<window, name>>]
  ELSE LET i == Exact(acc.known, name)
       IN  IF i = 0 THEN None ELSE acc.known[i].final

(* A relationship [window, source, target] is noted as unresolved, found    *)
(* among those kept, or kept.                                               *)
PlaceRelationship(acc, rel) ==
  LET s == Resolve(acc, rel.window, rel.source)
      t == Resolve(acc, rel.window, rel.target)
  IN  IF s = None \/ t = None
      THEN [acc EXCEPT !.unresolved = Append(@, rel)]
      ELSE IF <<s, t>> \in ToSet(acc.links) THEN acc
      ELSE [acc EXCEPT !.links = Append(@, <<s, t>>)]

(* Entities of all windows in order, then the relationships of all windows. *)
MergeExtractions(entities, relationships, registry, canon) ==
  LET start == [kept |-> <<>>, local |-> <<>>,
                known |-> KnownCanon(canon) \o KnownRegistry(registry)]
      placed == FoldLeft(PlaceEntity, start, entities)
  IN  FoldLeft(PlaceRelationship,
               [kept |-> placed.kept, local |-> placed.local,
                known |-> placed.known, links |-> <<>>, unresolved |-> <<>>],
               relationships)
=============================================================================
