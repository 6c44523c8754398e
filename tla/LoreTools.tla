------------------------------ MODULE LoreTools ------------------------------
(***************************************************************************)
(* What the assistant's read tools tell it of the world: a search (dense    *)
(* and lexical rankings, fused), the neighbourhood of an entity, and its    *)
(* relationships page by page.  A call reads rows in several awaits, and    *)
(* the game master works on between them and between calls.                 *)
(***************************************************************************)
EXTENDS Integers, Sequences, SequencesExt, FiniteSetsExt, Functions, TLC

CONSTANTS
  Places,      \* ids of entities
  Ties,        \* ids of relationships: numbers, for the order of the strings
  TieTypes,
  RELATIONSHIPS_PAGE_LIMIT, GRAPH_DEPTH_MAX, DETAIL_MAX_EDGES, LIST_ENTITIES_LIMIT,
  Limits,      \* how many results a search may be asked for
  HYBRID_POOL_MULTIPLIER, HYBRID_POOL_MIN_CANDIDATES,
  MaxEdits     \* bound on the game master's edits

VARIABLES
  lore,   \* the entities that exist
  tie,    \* the relationships that exist: [Ties' subset -> Tie]
  call,   \* the tool call at work, what it has read and what it answers
  tour,   \* history: the pages of one enumeration, and what befell its edges
  edits   \* the game master's edits so far
reading == <<lore, tie, call, tour, edits>>

Tie == [source : Places, target : Places, type : TieTypes]
Directions == {"incoming", "outgoing", "both"}
Ends(t) == {t.source, t.target}
NoCallYet == [tool |-> "none", at |-> "told"]
NoTour == [open |-> FALSE]

-----------------------------------------------------------------------------
(* The neighbourhood of an entity: breadth first, over edges in both senses *)

Neighbours(ties, x) ==
  UNION {Ends(ties[i]) \ {x} : i \in {j \in DOMAIN ties : x \in Ends(ties[j])}}

(* One turn of the loop per entity of the queue; the order in which its      *)
(* neighbours join the queue is the order of the rows, any order here.      *)
RECURSIVE Explored(_, _, _, _)
Explored(ties, depth, distances, queue) ==
  IF queue = <<>> THEN distances
  ELSE LET x == Head(queue)
           found == IF distances[x] >= depth THEN {}
                    ELSE Neighbours(ties, x) \ DOMAIN distances
       IN  Explored(ties, depth, distances @@ [y \in found |-> distances[x] + 1],
                    Tail(queue) \o SetToSeq(found))
Subgraph(ties, root, depth) == Explored(ties, depth, root :> 0, <<root>>)
EdgesAmong(ties, ids) == {i \in DOMAIN ties : Ends(ties[i]) \subseteq ids}

-----------------------------------------------------------------------------
(* Rankings *)

(* The damping constant, and a rank's share of a whole that each divides;    *)
(* bound: rankings are of five at most.                                    *)
RRF_RANK_CONSTANT == 60
Whole == FoldFunction(LAMBDA a, b : a * b, 1, [i \in 1 .. 5 |-> RRF_RANK_CONSTANT + i])
Shares == [i \in 1 .. 5 |-> Whole \div (RRF_RANK_CONSTANT + i)]
RankOf(ranking, x) == CHOOSE i \in 1 .. Len(ranking) : ranking[i] = x
Share(ranking, x) == IF x \in ToSet(ranking) THEN Shares[RankOf(ranking, x)] ELSE 0

(* Of several, each only where it stands first. *)
Firsts(s) == FoldLeft(LAMBDA acc, x : IF x \in ToSet(acc) THEN acc ELSE Append(acc, x), <<>>, s)

(* Descending by the sum of the shares; ties as first seen, dense first.    *)
ReciprocalRankFusion(dense, lexical) ==
  LET seen == Firsts(dense \o lexical)
      score == [i \in 1 .. Len(seen) |-> Share(dense, seen[i]) + Share(lexical, seen[i])]
      Ahead(i, j) == score[i] > score[j] \/ (score[i] = score[j] /\ i < j)
      order == SetToSortSeq(1 .. Len(seen), Ahead)
  IN  [p \in 1 .. Len(seen) |-> seen[order[p]]]

(* Variant, to test AnswersAreExact: the k best chunks, of how few entities   *)
(* they may be.                                                            *)
StoreQuery_ChunksFirst(records, byWords, k) ==
  LET fused == ReciprocalRankFusion(records, byWords)
      best == SubSeq(fused, 1, Min({k, Len(fused)}))
  IN  Firsts([i \in 1 .. Len(best) |-> best[i][1]])

(* The vector store's answer: chunks fused, the best of each entity, k of    *)
(* them.  A chunk is <<entity, number>>.                                    *)
UpTo(k, s) == SubSeq(s, 1, Min({k, Len(s)}))
StoreQuery(records, byWords, k) ==
  LET fused == ReciprocalRankFusion(records, byWords)
  IN  UpTo(k, Firsts([i \in 1 .. Len(fused) |-> fused[i][1]]))
DenseRanking(answer, listed, limit) ==
  UpTo(limit, SelectSeq(answer, LAMBDA x : x \in listed))

(* Exact titles, then what is fused. *)
Ordered(exact, dense, lexical) == Firsts(exact \o ReciprocalRankFusion(dense, lexical))

-----------------------------------------------------------------------------
(* The pages of an enumeration *)

Matches(t, q) ==
  CASE q.direction = "outgoing" -> t.source = q.entity
    [] q.direction = "incoming" -> t.target = q.entity
    [] OTHER -> q.entity \in Ends(t)
Matching(ties, q) ==
  {i \in DOMAIN ties : Matches(ties[i], q) /\ q.type \in {ties[i].type, "any"}}
Sorted(ids) == SetToSortSeq(ids, <)
PageAt(ids, cursor) ==
  SubSeq(Sorted(ids), cursor + 1, Min({cursor + RELATIONSHIPS_PAGE_LIMIT, Cardinality(ids)}))
-----------------------------------------------------------------------------
(* Calls *)

Ready == call.at = "told"
At(tool, step) == call.tool = tool /\ call.at = step
Idle == UNCHANGED <<lore, tie, edits>>

(* A new enumeration, or the next page of the one under way. *)
ListRelationships ==
  /\ Ready /\ Idle
  /\ \/ \E e \in Places, d \in Directions, t \in TieTypes \cup {"any"} :
          LET q == [entity |-> e, direction |-> d, type |-> t] IN
          /\ call' = [tool |-> "page", at |-> "entity", q |-> q, cursor |-> 0]
          /\ tour' = [open |-> TRUE, q |-> q, cursor |-> 0, shown |-> <<>>, closed |-> FALSE,
                      stood |-> {}, left |-> 0, joined |-> 0]
     \/ /\ tour.open /\ ~ tour.closed
        /\ call' = [tool |-> "page", at |-> "entity", q |-> tour.q, cursor |-> tour.cursor]
        /\ UNCHANGED tour

FindEntity ==
  /\ call.tool \in {"page", "graph", "details"} /\ call.at = "entity" /\ Idle
  /\ LET e == IF call.tool = "page" THEN call.q.entity ELSE call.entity IN
     IF e \in lore THEN call' = [call EXCEPT !.at = "edges"] /\ UNCHANGED tour
     ELSE /\ call' = [tool |-> "unknown", at |-> "told"]
          /\ tour' = IF call.tool = "page" THEN NoTour ELSE tour

(* The rows, sorted, and the slice at the cursor; whether more are to come. *)
ReadPage ==
  /\ At("page", "edges") /\ Idle
  /\ LET ids == Matching(tie, call.q)
         page == PageAt(ids, call.cursor)
         end == call.cursor + Len(page)
     IN  /\ call' = [tool |-> "page", at |-> "told", page |-> page, total |-> Cardinality(ids)]
         /\ tour' = IF ids # {} /\ page = <<>> THEN NoTour
                    ELSE [tour EXCEPT !.shown = @ \o page, !.cursor = end,
                                      !.closed = end = Cardinality(ids) \/ ids = {},
                                      !.stood = IF call.cursor = 0 THEN ids ELSE @]

(* The relationships of one entity, in the order of the rows, up to a limit. *)
EntityDetails ==
  /\ Ready /\ Idle /\ UNCHANGED tour
  /\ \E e \in Places : call' = [tool |-> "details", at |-> "entity", entity |-> e]
Shown(rows, limit) == {S \in SUBSET rows : Cardinality(S) = Min({limit, Cardinality(rows)})}
ReadDetails ==
  /\ At("details", "edges") /\ Idle /\ UNCHANGED tour
  /\ LET rows == {i \in DOMAIN tie : call.entity \in Ends(tie[i])} IN
     \E shown \in Shown(rows, DETAIL_MAX_EDGES) :
       call' = [tool |-> "details", at |-> "told", entity |-> call.entity,
                shown |-> shown, total |-> Cardinality(rows)]

(* Those of one type or with some word in the title, and their exact number. *)
ListEntities ==
  /\ Ready /\ Idle /\ UNCHANGED tour
  /\ \E matched \in SUBSET lore : \E shown \in Shown(matched, LIST_ENTITIES_LIMIT) :
       call' = [tool |-> "list", at |-> "told", shown |-> shown, total |-> Cardinality(matched)]

EntityGraph ==
  /\ Ready /\ Idle /\ UNCHANGED tour
  /\ \E e \in Places, depth \in 0 .. GRAPH_DEPTH_MAX + 1 :
       call' = [tool |-> "graph", at |-> "entity", entity |-> e,
                depth |-> Max({1, Min({depth, GRAPH_DEPTH_MAX})})]
ReadRows ==
  /\ At("graph", "edges") /\ Idle /\ UNCHANGED tour
  /\ call' = [call EXCEPT !.at = "nodes"] @@ [rows |-> tie]
ReadNodes ==
  /\ At("graph", "nodes") /\ Idle /\ UNCHANGED tour
  /\ LET reached == DOMAIN Subgraph(call.rows, call.entity, call.depth)
     IN  call' = [call EXCEPT !.at = "told"] @@
                   [nodes |-> reached \cap lore, links |-> EdgesAmong(call.rows, reached)]

(* Rankings by words: scores are of texts, so any order of what they find. *)
AnyOrder(found) == SetToSeqs(found)
Lexical(listed) == UNION {AnyOrder(found) : found \in SUBSET listed}

(* Which entities a filter leaves, which of them the words of the query      *)
(* find, and which have it as their title.                                 *)
SearchLore ==
  /\ Ready /\ Idle /\ UNCHANGED tour
  /\ \E listed \in SUBSET lore, limit \in Limits :
     \E lexical \in Lexical(listed) :
     \E titled \in SUBSET ToSet(lexical) :
       /\ Cardinality(titled) <= 2
       /\ call' = [tool |-> "search", at |-> "store", listed |-> listed, limit |-> limit,
                   filtered |-> listed # lore, lexical |-> lexical, exact |-> SetToSeq(titled)]

(* The chunks nearest the query, with those of entities that are gone, as    *)
(* many as the pool takes; `held` are the entities whose chunks the store    *)
(* has, further ones only when the pool is full.  Then the order by words;  *)
(* or the store fails, and words alone answer.                             *)
PoolSize(k) == Max({k * HYBRID_POOL_MULTIPLIER, HYBRID_POOL_MIN_CANDIDATES})
Numbered(s) == [i \in 1 .. Len(s) |-> <<s[i], Cardinality({j \in 1 .. i : s[j] = s[i]})>>]
Pools(k) == {Numbered(s) : s \in BoundedSeq(Places, PoolSize(k))}
EntitiesOf(records) == {r[1] : r \in ToSet(records)}
Stores(k, records) ==
  {EntitiesOf(records) \cup beyond : beyond \in IF Len(records) = PoolSize(k) THEN SUBSET Places ELSE {{}}}
Wanted == IF call.filtered THEN call.limit * 2 ELSE call.limit
Fused(records, byWords, held) ==
  LET answer == StoreQuery(records, byWords, Wanted)
      dense == DenseRanking(answer, call.listed, call.limit)
      ordered == Ordered(call.exact, dense, call.lexical)
  IN  call' = [call EXCEPT !.at = "told"] @@
                [records |-> records, byWords |-> byWords, held |-> held, k |-> Wanted,
                 answer |-> answer, dense |-> dense, found |-> UpTo(call.limit, ordered), total |-> Len(ordered)]
QueryStore ==
  /\ At("search", "store") /\ Idle /\ UNCHANGED tour
  /\ \/ \E records \in Pools(Wanted) :
          \E byWords \in AnyOrder(ToSet(records)), held \in Stores(Wanted, records) :
            Fused(records, byWords, held)
     \/ Fused(<<>>, <<>>, {})

(* The game master's edits, which the enumeration under way does not see.   *)
Becomes(newLore, newTie) ==
  /\ edits < MaxEdits
  /\ edits' = edits + 1 /\ lore' = newLore /\ tie' = newTie /\ UNCHANGED call
  /\ tour' = IF ~ tour.open \/ tour.closed \/ (tour.cursor = 0) THEN tour
             ELSE LET old == Matching(tie, tour.q)
                      new == Matching(newTie, tour.q)
                  IN  [tour EXCEPT !.stood = @ \cap new, !.left = @ + Cardinality(old \ new),
                                   !.joined = @ + Cardinality(new \ old)]
CreateTie == \E i \in Ties \ DOMAIN tie, t \in Tie : Ends(t) \subseteq lore /\ Becomes(lore, tie @@ (i :> t))
DeleteTie == \E i \in DOMAIN tie : Becomes(lore, Restrict(tie, DOMAIN tie \ {i}))
ReverseTie ==
  \E i \in DOMAIN tie :
    Becomes(lore, [tie EXCEPT ![i].source = tie[i].target, ![i].target = tie[i].source])
DeletePlace ==
  \E e \in lore : Becomes(lore \ {e}, Restrict(tie, {i \in DOMAIN tie : e \notin Ends(tie[i])}))

Tools == \/ ListRelationships \/ FindEntity \/ ReadPage
         \/ EntityDetails \/ ReadDetails \/ ListEntities \/ EntityGraph \/ ReadRows \/ ReadNodes
         \/ SearchLore \/ QueryStore
WorldEdit == CreateTie \/ DeleteTie \/ ReverseTie \/ DeletePlace
ToolsNext == Tools \/ WorldEdit

-----------------------------------------------------------------------------
(* Properties *)

(* When the assistant is told that this is all of them, the pages together   *)
(* held every relationship that was there from the first to the last, but   *)
(* for one in the place of each that left meanwhile; and nothing twice, but *)
(* for one in the place of each that came.  So a world at rest is           *)
(* enumerated completely (_list_relationships, agent/nodes/tools.py).       *)
PagesAreComplete ==
  tour.open /\ tour.closed =>
    LET seen == ToSet(tour.shown) IN
    /\ Cardinality(tour.stood \ seen) <= tour.left
    /\ Len(tour.shown) - Cardinality(seen) <= tour.joined

(* The neighbourhood as a definition: what a walk of at most d edges reaches. *)
Within(ties, root, d) ==
  LET near[n \in 0 .. d] ==
        IF n = 0 THEN {root}
        ELSE near[n - 1] \cup UNION {Neighbours(ties, x) : x \in near[n - 1]}
  IN  near[d]
NeighbourhoodIsExact ==
  At("graph", "told") =>
    LET near == Within(call.rows, call.entity, call.depth) IN
    /\ call.nodes \subseteq near /\ call.nodes \cap lore = near \cap lore
    /\ call.links = {i \in DOMAIN call.rows :
                      call.rows[i].source \in near /\ call.rows[i].target \in near}

(* One that every ranking that knows the other puts before it. *)
Before(ranking, x, y) ==
  x \in ToSet(ranking) /\ (y \in ToSet(ranking) => RankOf(ranking, x) < RankOf(ranking, y))
Dominates(rankings, x, y) ==
  \A r \in rankings : x \in ToSet(r) \/ y \in ToSet(r) => Before(r, x, y)
Distinct(s) == Cardinality(ToSet(s)) = Len(s)

(* A long entity, cut into more chunks than its part of the pool: more than  *)
(* four of them, by the code's sizes, where k entities are asked for.       *)
ChunksOf(x) == {r \in ToSet(call.records) : r[1] = x}
Crowded == \E x \in Places : Cardinality(ChunksOf(x)) > PoolSize(call.k) \div call.k
SearchIsFair ==
  At("search", "told") =>
    LET all == ToSet(call.exact) \cup ToSet(call.lexical) \cup ToSet(call.dense)
        pool == EntitiesOf(call.records)
        shown == ToSet(call.found)
    IN  /\ Distinct(call.found) /\ shown \subseteq all /\ call.total = Cardinality(all)
        /\ Len(call.found) = Min({call.limit, call.total})
        /\ \A x \in all : \A y \in shown \ {x} :
             \/ x \in ToSet(call.exact) /\ y \notin ToSet(call.exact)
             \/ /\ (x \in ToSet(call.exact) <=> y \in ToSet(call.exact))
                /\ y \notin ToSet(call.exact)
                /\ Dominates({call.dense, call.lexical}, x, y)
             => x \in shown /\ Before(call.found, x, y)
        /\ Distinct(call.answer) /\ Len(call.answer) = Min({call.k, Cardinality(pool)})
        /\ ~ Crowded => Len(call.answer) = Min({call.k, Cardinality(call.held)})
        /\ \A x \in pool : \A y \in ToSet(call.answer) \ {x} :
             (\E c \in ToSet(call.records) : c[1] = x /\
                \A d \in ToSet(call.records) : d[1] = y =>
                  Before(call.records, c, d) /\ Before(call.byWords, c, d))
             => Before(call.answer, x, y)

(* The assistant is told what the world and the rankings hold: an            *)
(* enumeration that says it is complete is, but for what changed meanwhile; *)
(* the neighbourhood is that of the edges read and nobody else's; a search  *)
(* puts exact titles first, never ranks an entity behind one that every     *)
(* ranking has behind it, and counts what it does not show.  The store      *)
(* answers a search for k entities with k, or with all it has, unless one   *)
(* of them has more chunks near the query than its part of the pool.  The   *)
(* exception is the code's: its pool is counted in chunks, so that a long   *)
(* entity can fill it and the store's answer has fewer than k although it   *)
(* holds others, which the comment of query says must not happen            *)
(* (agent/nodes/tools.py, services/graph_query.py, services/lore_search.py, *)
(* storage/vectorstore/chroma_store.py).                                   *)
AnswersAreExact == PagesAreComplete /\ NeighbourhoodIsExact /\ SearchIsFair
=============================================================================
