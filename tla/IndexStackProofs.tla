-------------------------- MODULE IndexStackProofs --------------------------
(***************************************************************************)
(* That the vectors follow the rows, for any entities, documents, requests  *)
(* and changes of settings: each worker's promise about the items it is at, *)
(* which holds while nothing disturbs it, that is, away from exposed items. *)
(***************************************************************************)
EXTENDS IndexStack, TLAPS

Ops == {"idle", "edit", "delete", "search", "ingest", "remove", "reindex", "all", "save"}
Ats == {"idle", "commit", "begin", "lock", "persist", "apply"} \cup IndexSteps
Work == [op : Ops, at : Ats, store : Models, kind : Kinds, batch : [Items -> Nat],
         handle : BOOLEAN, item : Items \cup {Absent}, todo : SUBSET Sources,
         patch : Patches \cup {[f \in Fields |-> Keep]}]

Typed ==
  /\ up \in BOOLEAN /\ stack \in Models
  /\ entity \in [Entities -> Nat \cup {Gone}]
  /\ source \in [Sources -> [status : Statuses, chunks : BOOLEAN]]
  /\ meta \in [Kinds -> Models \cup {Absent}]
  /\ vectors \in [Items -> [by : Models \cup {Absent}, version : Nat]]
  /\ work \in [Workers -> Work]
  /\ exposed \subseteq Items

(* Where a worker can be, and what it then carries. *)
Carries(b, x) == b[x] > 0 /\ \A y \in Items \ {x} : b[y] = 0
Empty(b) == \A x \in Items : b[x] = 0
OnItem(k, r) == r.kind = k /\ r.item \in Of(k)
Placed(w, r) ==
  /\ r.op = "idle" <=> r.at = "idle"
  /\ w = Job => r.op \in {"idle", "all"}
  /\ r.op = "edit" =>
       /\ r.at \in {"commit", "open", "write"} /\ OnItem("canon", r)
       /\ IF r.at = "commit" THEN Empty(r.batch) ELSE Carries(r.batch, r.item)
  /\ r.op = "delete" =>
       r.at \in {"commit", "open", "write"} /\ OnItem("canon", r) /\ Empty(r.batch)
  /\ r.op = "search" => r.at = "open" /\ Empty(r.batch)
  /\ r.op = "ingest" =>
       /\ r.at \in {"mark", "open", "write", "settle", "fail"} /\ OnItem("kb", r)
       /\ r.at = "mark" => Empty(r.batch)
       /\ r.at \in {"open", "write"} => Carries(r.batch, r.item) /\ r.batch[r.item] = 1
  /\ r.op = "remove" =>
       r.at \in {"mark", "open", "write"} /\ OnItem("kb", r) /\ Empty(r.batch)
  /\ r.op = "reindex" =>
       /\ r.at \in {"drop", "list", "open", "write"} /\ r.kind = "canon" /\ r.item = Absent
       /\ \A x \in Of("kb") : r.batch[x] = 0
  /\ r.op = "all" =>
       /\ w = Job /\ r.at \notin {"idle", "commit", "lock", "persist", "apply"}
       /\ r.kind = "canon" => /\ r.item = Absent /\ \A x \in Of("kb") : r.batch[x] = 0
                              /\ r.at \notin {"read", "mark", "settle", "fail"}
       /\ r.kind = "kb" =>
            \/ r.at \in {"drop", "read"} /\ r.item = Absent /\ Empty(r.batch)
            \/ /\ r.at \in {"mark", "open", "write", "settle", "fail"}
               /\ r.item \in Of("kb")
               /\ r.at = "mark" => Empty(r.batch)
               /\ r.at \in {"open", "write"} =>
                    Carries(r.batch, r.item) /\ r.batch[r.item] = 1
  /\ r.op = "save" => w \in Requests /\ r.at \in {"lock", "persist", "apply"}
PlaceInv == \A w \in Workers : Placed(w, work[w])

(* A process that is down does nothing. *)
DownInv == ~ up => lock = Absent /\ \A w \in Workers : work[w] = Idle

(* The settings lock: its holder is between building and applying, and      *)
(* nothing else is; until it persists, and when nobody holds the lock, the  *)
(* settings on disk are those in use.                                      *)
Saves(w, at) == work[w].op = "save" /\ work[w].at = at
ConfigInv ==
  /\ Buildable(overrides)
  /\ \A w \in Workers : Saves(w, "persist") \/ Saves(w, "apply") => lock = w
  /\ lock # Absent => lock \in Requests /\ (Saves(lock, "persist") \/ Saves(lock, "apply"))
  /\ up => /\ stack = Model(running, release)
           /\ lock = Absent => running = overrides
           /\ lock # Absent /\ Saves(lock, "persist") =>
                running = overrides /\ Buildable(Merged(running, work[lock].patch))
           /\ lock # Absent /\ Saves(lock, "apply") =>
                overrides = Merged(running, work[lock].patch)

(* A live handle is on a collection of its worker's model. *)
HandleInv ==
  \A w \in Workers : work[w].at = "write" /\ work[w].handle => meta[work[w].kind] = work[w].store

(* Workers that may disturb each other do so at exposed items only. *)
ApartInv == Contended \cup Foreign \subseteq exposed

(* What each item can count on: when nobody is at it, it mirrors its row;   *)
(* and whoever is at it is about to make it so.                            *)
Right(x) ==
  /\ vectors[x] \in Wanted(x)
  /\ x \in Sources /\ ~ source[x].chunks => vectors[x] = Nothing
Doing(w, x) ==
  LET r == work[w] IN
  CASE r.op = "edit" -> r.batch[x] = entity[x]
    [] r.op = "delete" -> entity[x] = Gone
    [] r.op = "ingest" ->
         r.at # "fail" /\ (r.at = "settle" => vectors[x] = Vector(stack, 1))
    [] r.op = "remove" ->
         IF r.at = "mark" THEN Right(x) /\ r.handle = source[x].chunks
                          ELSE source[x].status = "gone"
    [] r.op \in {"reindex", "all"} /\ r.kind = "canon" ->
         /\ r.at \in {"list", "open", "write"} => vectors[x] = Nothing
         /\ r.at \in {"open", "write"} => r.batch[x] = IF entity[x] > 0 THEN entity[x] ELSE 0
         /\ r.at = "sources" => Right(x)
    [] r.op = "all" /\ r.kind = "kb" ->
         \/ x \in r.todo
         \/ x = r.item /\ (r.at = "settle" => vectors[x] = Vector(stack, 1)) /\ r.at # "fail"
         \/ /\ x # r.item /\ Right(x)
            /\ r.at = "drop" => source[x].status \in {"none", "gone"}
    [] OTHER -> FALSE
Good(x) ==
  /\ vectors[x] = Nothing \/ vectors[x].by = stack
  /\ (\A w \in Workers : x \notin AtVectors(w)) => Right(x)
  /\ \A w \in Workers : x \in AtVectors(w) => Doing(w, x)
MirrorInv == stack # NoModel => \A x \in Items \ exposed : Good(x)

IndexInv ==
  Typed /\ PlaceInv /\ DownInv /\ ConfigInv /\ HandleInv /\ FirstsAgree
    /\ ApartInv /\ MirrorInv

-----------------------------------------------------------------------------
(* Workers *)

LEMMA IdleFacts ==
  /\ Idle \in Work /\ (\A w : Placed(w, Idle))
  /\ Idle.op = "idle" /\ Idle.at = "idle" /\ Idle.store = NoModel /\ Idle.kind = "canon"
  /\ Idle.handle = FALSE /\ Idle.item = Absent /\ Idle.todo = {} /\ Empty(Idle.batch)
<1>1. [x \in Items |-> 0] \in [Items -> Nat]
  OBVIOUS
<1>2. Idle \in Work
  BY <1>1 DEF Idle, Work, Ops, Ats, Models, Kinds, NoModel
<1>3. QED
  BY <1>2 DEF Idle, Placed, Empty

LEMMA ItemFacts ==
  /\ Of("canon") = Entities /\ Of("kb") = Sources
  /\ Absent \notin Items /\ Absent \notin Workers
  /\ \A x \in Items : Kind(x) \in Kinds /\ (x \in Of(Kind(x)))
                        /\ (x \in Entities <=> x \notin Sources)
  BY NamesAssumption DEF Of, Kind, Kinds, Items, Workers, Job

LEMMA ModelFacts == \A o, rel : Model(o, rel) \in Models
  BY DEF Model, Models, NoModel

(* What a step of one worker does to the others' work: their handles may    *)
(* die.                                                                    *)
Kept(v) ==
  \/ work'[v] = work[v]
  \/ work'[v] = [work[v] EXCEPT !.handle = FALSE] /\ work[v].at # "mark"
Moves(w) ==
  /\ work' \in [Workers -> Work] /\ Placed(w, work'[w])
  /\ \A v \in Workers \ {w} : Kept(v)

LEMMA MovesPlace ==
  ASSUME Typed, PlaceInv, NEW w \in Workers, Moves(w)
  PROVE  PlaceInv'
<1> SUFFICES ASSUME NEW v \in Workers PROVE Placed(v, work'[v])
  BY DEF PlaceInv
<1>1. CASE v = w
  BY <1>1 DEF Moves
<1>2. CASE v # w
  <2>1. Kept(v) /\ Placed(v, work[v]) /\ work[v] \in Work
    BY <1>2 DEF Moves, PlaceInv, Typed
  <2>2. CASE work'[v] = work[v]
    BY <2>1, <2>2
  <2>3. CASE work'[v] = [work[v] EXCEPT !.handle = FALSE]
    BY <2>1, <2>3 DEF Placed, OnItem, Work
  <2>4. QED
    BY <2>1, <2>2, <2>3 DEF Kept
<1>3. QED
  BY <1>1, <1>2

LEMMA SetMoves ==
  ASSUME Typed, NEW w \in Workers, NEW r \in Work, work' = [work EXCEPT ![w] = r], Placed(w, r)
  PROVE  Moves(w) /\ work'[w] = r /\ \A v \in Workers \ {w} : work'[v] = work[v]
  BY DEF Moves, Kept, Typed

LEMMA FinishMoves ==
  ASSUME Typed, NEW w \in Workers, Finish(w)
  PROVE  Moves(w) /\ work'[w] = Idle /\ \A v \in Workers \ {w} : work'[v] = work[v]
  BY IdleFacts, SetMoves DEF Finish

LEMMA GotoMoves ==
  ASSUME Typed, NEW w \in Workers, NEW at \in Ats, Goto(w, at),
         Placed(w, [work[w] EXCEPT !.at = at])
  PROVE  /\ Moves(w) /\ work'[w] = [work[w] EXCEPT !.at = at]
         /\ \A v \in Workers \ {w} : work'[v] = work[v]
<1>1. [work[w] EXCEPT !.at = at] \in Work
  BY DEF Typed, Work
<1>2. work' = [work EXCEPT ![w] = [work[w] EXCEPT !.at = at]]
  BY DEF Goto, Typed
<1>3. QED
  BY <1>1, <1>2, SetMoves

LEMMA OpenedMoves ==
  ASSUME Typed, NEW w \in Workers, NEW kind, NEW at \in Ats,
         Holding(w, TRUE, kind, at),
         NEW r, r = [work[w] EXCEPT !.handle = TRUE, !.at = at],
         Placed(w, r) \/ work[w].op = "search"
  PROVE  /\ Moves(w)
         /\ work[w].op = "search" => work'[w] = Idle
         /\ work[w].op # "search" => work'[w] = r
         /\ \A v \in Workers \ {w} :
              work'[v] = work[v]
<1>0. \A v \in Workers : work[v] \in Work
  BY DEF Typed
<1>1. /\ [work[w] EXCEPT !.handle = TRUE, !.at = at] \in Work
      /\ \A v \in Workers : [work[v] EXCEPT !.handle = FALSE] \in Work
  <2>1. ASSUME NEW s \in Work
        PROVE  /\ [s EXCEPT !.handle = FALSE] \in Work
               /\ [s EXCEPT !.handle = TRUE, !.at = at] \in Work
    BY DEF Work
  <2>2. QED
    BY <1>0, <2>1
<1>2. work'[w] = IF work[w].op = "search" THEN Idle
                 ELSE [work[w] EXCEPT !.handle = TRUE, !.at = at]
  BY DEF Holding
<1>3. ASSUME NEW v \in Workers \ {w}
      PROVE  work'[v] = work[v]
  BY DEF Holding
<1>4. \A v \in Workers : work'[v] \in Work
  BY <1>0, <1>1, <1>2, <1>3, IdleFacts
<1>5. work' \in [Workers -> Work]
  BY <1>4 DEF Holding
<1>6. \A v \in Workers \ {w} : Kept(v)
  BY <1>3 DEF Kept
<1>7. Placed(w, work'[w])
  BY <1>2, IdleFacts
<1>8. QED
  BY <1>2, <1>3, <1>5, <1>6, <1>7 DEF Moves

LEMMA DroppedMoves ==
  ASSUME Typed, NEW w \in Workers, NEW kind, NEW at \in Ats,
         Holding(w, FALSE, kind, at),
         NEW r, r = [work[w] EXCEPT !.handle = TRUE, !.at = at],
         Placed(w, r) \/ work[w].op = "search"
  PROVE  /\ Moves(w)
         /\ work[w].op = "search" => work'[w] = Idle
         /\ work[w].op # "search" => work'[w] = r
         /\ \A v \in Workers \ {w} :
              IF work[v].kind = kind /\ work[v].at # "mark"
              THEN work'[v].handle = FALSE ELSE work'[v] = work[v]
<1>0. \A v \in Workers : work[v] \in Work
  BY DEF Typed
<1>1. /\ [work[w] EXCEPT !.handle = TRUE, !.at = at] \in Work
      /\ \A v \in Workers : [work[v] EXCEPT !.handle = FALSE] \in Work
  <2>1. ASSUME NEW s \in Work
        PROVE  /\ [s EXCEPT !.handle = FALSE] \in Work
               /\ [s EXCEPT !.handle = TRUE, !.at = at] \in Work
    BY DEF Work
  <2>2. QED
    BY <1>0, <2>1
<1>2. work'[w] = IF work[w].op = "search" THEN Idle
                 ELSE [work[w] EXCEPT !.handle = TRUE, !.at = at]
  BY DEF Holding
<1>3. ASSUME NEW v \in Workers \ {w}
      PROVE  work'[v] = IF work[v].kind = kind /\ work[v].at # "mark"
                        THEN [work[v] EXCEPT !.handle = FALSE] ELSE work[v]
  BY DEF Holding
<1>4. \A v \in Workers : work'[v] \in Work
  BY <1>0, <1>1, <1>2, <1>3, IdleFacts
<1>5. work' \in [Workers -> Work]
  BY <1>4 DEF Holding
<1>6. \A v \in Workers \ {w} : Kept(v)
  BY <1>3 DEF Kept
<1>7. Placed(w, work'[w])
  BY <1>2, IdleFacts
<1>8. ASSUME NEW v \in Workers \ {w}
      PROVE  IF work[v].kind = kind /\ work[v].at # "mark"
             THEN work'[v].handle = FALSE ELSE work'[v] = work[v]
  BY <1>0, <1>3 DEF Work
<1>9. QED
  BY <1>2, <1>5, <1>6, <1>7, <1>8 DEF Moves

-----------------------------------------------------------------------------
(* Items *)

(* Where a worker is, told by its record. *)
Where(r, st) ==
  IF r.at \notin IndexSteps THEN {}
  ELSE IF r.store # st \/ r.op \in {"reindex", "all"} THEN Of(r.kind)
  ELSE IF r.op = "search" THEN {}
  ELSE {r.item}

LEMMA WhereFacts ==
  /\ \A w \in Workers : AtVectors(w) = Where(work[w], stack)
  /\ \A w \in Workers : AtVectors(w)' = Where(work'[w], stack')
  BY DEF AtVectors, Where

LEMMA WhereInside ==
  ASSUME NEW w \in Workers, NEW r \in Work, Placed(w, r), NEW st
  PROVE  Where(r, st) \subseteq Of(r.kind) /\ Of(r.kind) \subseteq Items
<1>1. Of(r.kind) \subseteq Items
  BY DEF Of
<1>2. CASE r.at \notin IndexSteps \/ r.store # st \/ r.op \in {"reindex", "all", "search"}
  BY <1>1, <1>2 DEF Where
<1>3. CASE ~ (r.at \notin IndexSteps \/ r.store # st \/ r.op \in {"reindex", "all", "search"})
  <2>1. r.op \in {"edit", "delete", "ingest", "remove"}
    BY <1>3 DEF Placed, Work, Ops, IndexSteps
  <2>2. r.item \in Of(r.kind)
    BY <2>1 DEF Placed, OnItem
  <2>3. QED
    BY <1>1, <1>3, <2>2 DEF Where
<1>4. QED
  BY <1>2, <1>3

LEMMA WhereKept ==
  ASSUME Typed, NEW v \in Workers, Kept(v), stack' = stack
  PROVE  AtVectors(v)' = AtVectors(v)
<1>1. work[v] \in Work
  BY DEF Typed
<1>2. Where(work'[v], stack') = Where(work[v], stack)
  BY <1>1 DEF Kept, Where, Work
<1>3. QED
  BY <1>2, WhereFacts

(* Nobody else is at an item that is not exposed. *)
LEMMA AloneAt ==
  ASSUME ApartInv, NEW x \in Items \ exposed, NEW w \in Workers, x \in AtVectors(w)
  PROVE  \A v \in Workers \ {w} : x \notin AtVectors(v)
  BY DEF ApartInv, Contended

LEMMA OwnStore ==
  ASSUME Typed, ApartInv, NEW x \in Items \ exposed, NEW w \in Workers, x \in AtVectors(w)
  PROVE  work[w].store = stack
<1>1. work[w] # Idle
  BY WhereFacts, IdleFacts DEF Where, IndexSteps
<1>2. QED
  BY <1>1 DEF ApartInv, Foreign, Active

Same(x) ==
  /\ vectors'[x] = vectors[x]
  /\ x \in Entities => entity'[x] = entity[x]
  /\ x \in Sources => source'[x] = source[x]

(* What a step of w owes an item. *)
Turn(w, x) ==
  /\ vectors'[x] = Nothing \/ vectors'[x].by = stack
  /\ x \in AtVectors(w) /\ Doing(w, x) =>
       IF x \in AtVectors(w)' THEN Doing(w, x)' ELSE Right(x)'
  /\ x \notin AtVectors(w) /\ Right(x) /\ x \in AtVectors(w)' => Doing(w, x)'
  /\ x \notin AtVectors(w) /\ x \notin AtVectors(w)' => Same(x)

LEMMA RightKept ==
  ASSUME NEW x \in Items, Same(x), stack' = stack
  PROVE  Right(x)' <=> Right(x)
  BY DEF Same, Right, Wanted, Items

LEMMA DoingKept ==
  ASSUME Typed, PlaceInv, NEW x \in Items, Same(x), stack' = stack,
         NEW v \in Workers, Kept(v), x \in Of(work[v].kind)
  PROVE  Doing(v, x)' <=> Doing(v, x)
<1>1. Right(x)' <=> Right(x)
  BY RightKept
<1>2. work[v] \in Work
  BY DEF Typed
<1>3. /\ work'[v].op = work[v].op /\ work'[v].at = work[v].at /\ work'[v].batch = work[v].batch
      /\ work'[v].kind = work[v].kind /\ work'[v].item = work[v].item
      /\ work'[v].todo = work[v].todo
      /\ work[v].at = "mark" => work'[v].handle = work[v].handle
  BY <1>2 DEF Kept, Work
<1>4. /\ work[v].kind = "canon" => x \in Entities
      /\ work[v].kind = "kb" => x \in Sources
  BY ItemFacts
<1>5. /\ work[v].op \in {"edit", "delete"} => work[v].kind = "canon"
      /\ work[v].op \in {"ingest", "remove"} => work[v].kind = "kb"
  BY DEF PlaceInv, Placed, OnItem
<1>6. CASE work[v].op \in {"edit", "delete", "ingest", "remove"}
  BY <1>1, <1>3, <1>4, <1>5, <1>6 DEF Doing, Same
<1>7. CASE work[v].op \in {"reindex", "all"}
  BY <1>1, <1>3, <1>4, <1>7 DEF Doing, Same
<1>8. CASE work[v].op \notin {"edit", "delete", "ingest", "remove", "reindex", "all"}
  BY <1>3, <1>8 DEF Doing
<1>9. QED
  BY <1>6, <1>7, <1>8


Core ==
  Typed /\ PlaceInv /\ DownInv /\ HandleInv /\ FirstsAgree /\ ApartInv /\ MirrorInv

LEMMA MirrorStep ==
  ASSUME Core, NEW w \in Workers, Moves(w), stack' = stack, ApartInv',
         \A x \in Items \ exposed' :
           stack # NoModel => \/ x \notin exposed /\ (Good(x) => Turn(w, x))
                              \/ vectors'[x] = Nothing /\ x \in AtVectors(w)' /\ Doing(w, x)'
  PROVE  MirrorInv'
<1> USE DEF Core
<1> SUFFICES ASSUME NEW x \in Items \ exposed', stack # NoModel
             PROVE  Good(x)'
  BY DEF MirrorInv
<1>1. CASE vectors'[x] = Nothing /\ x \in AtVectors(w)' /\ Doing(w, x)'
  <2>1. \A v \in Workers : x \in AtVectors(v)' => v = w
    BY <1>1 DEF ApartInv, Contended
  <2>2. QED
    BY <1>1, <2>1 DEF Good
<1>2. CASE x \notin exposed /\ (Good(x) => Turn(w, x))
  <2>1. Good(x) /\ Turn(w, x) /\ x \in Items \ exposed
    BY <1>2 DEF MirrorInv
  <2>2. \A v \in Workers \ {w} : Kept(v) /\ AtVectors(v)' = AtVectors(v)
    BY WhereKept DEF Moves
  <2>3. \A v, u \in Workers : v # u => x \notin AtVectors(v) \/ x \notin AtVectors(u)
    BY <2>1, AloneAt
  <2>4. \A v, u \in Workers : v # u => x \notin AtVectors(v)' \/ x \notin AtVectors(u)'
    BY DEF ApartInv, Contended
  <2>5. ASSUME \A v \in Workers : x \notin AtVectors(v)'  PROVE Right(x)'
    <3>1. CASE x \in AtVectors(w)
      BY <2>1, <2>5, <3>1 DEF Good, Turn
    <3>2. CASE x \notin AtVectors(w)
      <4>1. Right(x) /\ Same(x)
        BY <2>1, <2>2, <2>5, <3>2 DEF Good, Turn
      <4>2. QED
        BY <4>1, RightKept
    <3>3. QED
      BY <3>1, <3>2
  <2>6. ASSUME x \in AtVectors(w)'  PROVE Doing(w, x)'
    <3>1. CASE x \in AtVectors(w)
      BY <2>1, <2>6, <3>1 DEF Good, Turn
    <3>2. CASE x \notin AtVectors(w)
      <4>1. \A v \in Workers : x \notin AtVectors(v)
        BY <2>2, <2>4, <2>6, <3>2
      <4>2. QED
        BY <2>1, <2>6, <3>2, <4>1 DEF Good, Turn
    <3>3. QED
      BY <3>1, <3>2
  <2>7. ASSUME NEW v \in Workers \ {w}, x \in AtVectors(v)'  PROVE Doing(v, x)'
    <3>1. x \in AtVectors(v) /\ x \notin AtVectors(w) /\ x \notin AtVectors(w)'
      BY <2>2, <2>3, <2>4, <2>7
    <3>2. Doing(v, x) /\ Same(x)
      BY <2>1, <3>1 DEF Good, Turn
    <3>3. x \in Of(work[v].kind)
      <4>1. work[v] \in Work /\ Placed(v, work[v]) /\ AtVectors(v) = Where(work[v], stack)
        BY WhereFacts DEF Typed, PlaceInv
      <4>2. QED
        BY <3>1, <4>1, WhereInside
    <3>4. QED
      BY <2>2, <3>2, <3>3, DoingKept
  <2>8. QED
    BY <2>1, <2>5, <2>6, <2>7 DEF Good, Turn
<1>3. QED
  BY <1>1, <1>2

(* A step that exposes what it must, and keeps its word otherwise. *)
LEMMA ExposedTyped ==
  ASSUME Typed, PlaceInv', work' \in [Workers -> Work],
         NEW repaired, NEW spoilt \in SUBSET Items, Exposing(repaired, spoilt)
  PROVE  exposed' \subseteq Items /\ ApartInv'
<1>1. \A w \in Workers : AtVectors(w)' \subseteq Items
  <2>1. \A w \in Workers : work'[w] \in Work /\ Placed(w, work'[w])
    BY DEF PlaceInv
  <2>2. QED
    BY <2>1, WhereFacts, WhereInside
<1>2. Contended' \subseteq Items /\ Foreign' \subseteq Items
  BY <1>1 DEF Contended, Foreign, Active
<1>3. QED
  BY <1>2 DEF Exposing, ApartInv, Typed

LEMMA CoreStep ==
  ASSUME Core, NEW w \in Workers, Moves(w), up', stack' = stack,
         entity' \in [Entities -> Nat \cup {Gone}],
         source' \in [Sources -> [status : Statuses, chunks : BOOLEAN]],
         meta' \in [Kinds -> Models \cup {Absent}],
         vectors' \in [Items -> [by : Models \cup {Absent}, version : Nat]],
         HandleInv', FirstsAgree',
         NEW spoilt \in SUBSET Items, Exposing({}, spoilt),
         \A x \in Items : x \notin exposed' /\ x \notin spoilt /\ stack # NoModel /\ Good(x)
                            => Turn(w, x)
  PROVE  Core'
<1>1. PlaceInv' /\ work' \in [Workers -> Work]
  BY MovesPlace DEF Core, Moves
<1>2. exposed' \subseteq Items /\ ApartInv'
  BY <1>1, ExposedTyped DEF Core
<1>3. exposed \cup spoilt \subseteq exposed'
  BY DEF Exposing
<1>4. MirrorInv'
  BY <1>2, <1>3, MirrorStep
<1>5. Typed' /\ DownInv'
  BY <1>1, <1>2 DEF Typed, DownInv, Core
<1>6. QED
  BY <1>1, <1>2, <1>4, <1>5 DEF Core

(* Most steps leave the store alone. *)
LEMMA StoreKept ==
  ASSUME Core, NEW w \in Workers, Moves(w), UNCHANGED store, work'[w].at # "write"
  PROVE  HandleInv' /\ FirstsAgree'
<1>1. ASSUME NEW v \in Workers, work'[v].at = "write", work'[v].handle
      PROVE  meta'[work'[v].kind] = work'[v].store
  <2>1. v # w /\ Kept(v) /\ work[v] \in Work
    BY <1>1 DEF Moves, Core, Typed
  <2>2. work'[v] = work[v]
    BY <1>1, <2>1 DEF Kept, Work
  <2>3. QED
    BY <1>1, <2>2 DEF Core, HandleInv, store
<1>2. QED
  BY <1>1 DEF Core, HandleInv, FirstsAgree, store

(* And some concern no item. *)
LEMMA QuietStep ==
  ASSUME Core, NEW w \in Workers, Moves(w), up', stack' = stack, UNCHANGED <<rows, store>>,
         work'[w].at # "write", NEW spoilt \in SUBSET Items, Exposing({}, spoilt),
         \A x \in Items : x \notin exposed' /\ x \notin spoilt /\ stack # NoModel /\ Good(x)
                            => (x \in AtVectors(w) <=> x \in AtVectors(w)')
                               /\ (x \in AtVectors(w) /\ Doing(w, x) => Doing(w, x)')
  PROVE  Core'
<1>1. HandleInv' /\ FirstsAgree'
  BY StoreKept
<1>2. \A x : Same(x)
  BY DEF Same, rows, store
<1>3. \A x \in Items : x \notin exposed' /\ x \notin spoilt /\ stack # NoModel /\ Good(x)
                         => Turn(w, x)
  BY <1>2 DEF Turn, Good, Same
<1>4. QED
  BY <1>1, <1>3, CoreStep DEF Core, Typed, rows, store

-----------------------------------------------------------------------------
(* Steps of the core: requests and jobs begin *)

LEMMA FreeFacts ==
  ASSUME Typed, NEW w \in Workers, Free(w)
  PROVE  /\ up /\ work[w] = Idle /\ AtVectors(w) = {}
         /\ work[w] \in Work
  BY IdleFacts, WhereFacts DEF Free, Where, IndexSteps, Typed

LEMMA BeginCore ==
  ASSUME Core, NEW w \in Workers, w # Job, NEW op \in {"edit", "delete", "search", "reindex"}, NEW at \in Ats,
         NEW item \in Items \cup {Absent}, NEW kind \in Kinds, Begin(w, op, at, item, kind),
         \/ op \in {"edit", "delete"} /\ at = "commit" /\ kind = "canon" /\ item \in Entities
         \/ op = "search" /\ at = "open"
         \/ op = "reindex" /\ at = "drop" /\ kind = "canon" /\ item = Absent
  PROVE  Core'
<1>1. /\ up /\ work[w] = Idle /\ AtVectors(w) = {} /\ stack \in Models
      /\ UNCHANGED <<up, stack, rows, store>> /\ Exposing({}, {})
  BY FreeFacts DEF Begin, config, Core, Typed
<1>0. PICK r : r = [Idle EXCEPT !.op = op, !.at = at, !.store = stack, !.item = item, !.kind = kind]
  OBVIOUS
<1>2. /\ r \in Work /\ Empty(r.batch)
      /\ r.op = op /\ r.at = at /\ r.store = stack /\ r.item = item /\ r.kind = kind
  BY <1>0, <1>1, IdleFacts DEF Ops, Work, Empty
<1>3. Placed(w, r)
  <2>1. CASE op \in {"edit", "delete"} /\ at = "commit" /\ kind = "canon" /\ item \in Entities
    BY <1>2, <2>1, ItemFacts DEF Placed, OnItem
  <2>2. CASE op = "search" /\ at = "open"
    BY <1>2, <2>2 DEF Placed
  <2>3. CASE op = "reindex" /\ at = "drop" /\ kind = "canon" /\ item = Absent
    BY <1>2, <2>3, ItemFacts DEF Placed, Empty, Of
  <2>4. QED
    BY <2>1, <2>2, <2>3
<1>4. Moves(w) /\ work'[w] = r
  BY <1>0, <1>2, <1>3, SetMoves DEF Begin, Core
<1>5. AtVectors(w)' = IF op = "reindex" THEN Of("canon") ELSE {}
  <2>1. AtVectors(w)' = Where(r, stack)
    BY <1>1, <1>4, WhereFacts
  <2>2. QED
    BY <1>2, <2>1 DEF Where, IndexSteps
<1>6. op = "reindex" => \A x : Doing(w, x)'
  BY <1>2, <1>4 DEF Doing
<1>7. HandleInv' /\ FirstsAgree'
  BY <1>1, <1>2, <1>4, StoreKept
<1>8. \A x : Same(x)
  BY <1>1 DEF Same, rows, store
<1>9. \A x \in Items : stack # NoModel /\ Good(x) => Turn(w, x)
  BY <1>1, <1>5, <1>6, <1>8 DEF Turn, Good, Same
<1>10. QED
  BY <1>1, <1>4, <1>7, <1>9, CoreStep DEF Core, Typed, rows, store

LEMMA ArriveCore ==
  ASSUME Core, NEW w \in Requests, Arrive(w)
  PROVE  Core'
<1>0. w \in Workers /\ w # Job
  BY NamesAssumption DEF Workers
<1>1. ASSUME NEW e \in Entities, Edit(w, e) \/ DeleteEntity(w, e)  PROVE Core'
  BY <1>0, <1>1, BeginCore DEF Edit, DeleteEntity, Ats, Items, Kinds
<1>2. ASSUME NEW kind \in Kinds, Search(w, kind)  PROVE Core'
  BY <1>0, <1>2, BeginCore DEF Search, Ats, IndexSteps
<1>3. CASE ReindexProject(w)
  BY <1>0, <1>3, BeginCore DEF ReindexProject, Ats, IndexSteps, Kinds
<1>4. ASSUME NEW s \in Sources, Upload(w, s)  PROVE Core'
  <2>1. /\ up /\ work[w] = Idle /\ AtVectors(w) = {} /\ stack \in Models
        /\ UNCHANGED <<up, stack, entity, store>> /\ Exposing({}, {})
        /\ source' = [source EXCEPT ![s].status = "pending"]
    BY <1>0, <1>4, FreeFacts DEF Upload, config, Core, Typed
  <2>0. PICK r : r = [Idle EXCEPT !.op = "ingest", !.at = "mark", !.store = stack, !.item = s,
                                  !.kind = "kb"]
    OBVIOUS
  <2>2. /\ r \in Work /\ Empty(r.batch)
        /\ r.op = "ingest" /\ r.at = "mark" /\ r.store = stack /\ r.item = s /\ r.kind = "kb"
    BY <2>0, <2>1, IdleFacts DEF Ops, Ats, IndexSteps, Items, Kinds, Work, Empty
  <2>3. Placed(w, r)
    BY <1>0, <2>2, ItemFacts DEF Placed, OnItem
  <2>4. Moves(w) /\ work'[w] = r
    BY <1>0, <1>4, <2>0, <2>2, <2>3, SetMoves DEF Upload, Core
  <2>5. AtVectors(w)' = {s}
    <3>1. AtVectors(w)' = Where(r, stack)
      BY <1>0, <2>1, <2>4, WhereFacts
    <3>2. QED
      BY <2>2, <3>1 DEF Where, IndexSteps
  <2>6. HandleInv' /\ FirstsAgree'
    BY <1>0, <2>1, <2>2, <2>4, StoreKept
  <2>7. Doing(w, s)'
    BY <2>2, <2>4 DEF Doing
  <2>8. \A x \in Items : x # s => Same(x)
    BY <2>1 DEF Same, store, Core, Typed
  <2>9. \A x \in Items : stack # NoModel /\ Good(x) => Turn(w, x)
    BY <2>1, <2>5, <2>7, <2>8 DEF Turn, Good, Same, store
  <2>10. source' \in [Sources -> [status : Statuses, chunks : BOOLEAN]]
    BY <2>1 DEF Core, Typed, Statuses
  <2>11. QED
    BY <1>0, <2>1, <2>4, <2>6, <2>9, <2>10, CoreStep DEF Core, Typed, store
<1>5. ASSUME NEW s \in Sources, Remove(w, s)  PROVE Core'
  <2>1. /\ up /\ work[w] = Idle /\ AtVectors(w) = {} /\ stack \in Models
        /\ UNCHANGED <<up, stack, rows, store>> /\ Exposing({}, {})
        /\ source[s].chunks \in BOOLEAN
    BY <1>0, <1>5, FreeFacts DEF Remove, config, Core, Typed
  <2>0. PICK r : r = [Idle EXCEPT !.op = "remove", !.at = "mark", !.store = stack, !.item = s,
                                  !.kind = "kb", !.handle = source[s].chunks]
    OBVIOUS
  <2>2. /\ r \in Work /\ Empty(r.batch)
        /\ r.op = "remove" /\ r.at = "mark" /\ r.store = stack /\ r.item = s /\ r.kind = "kb"
        /\ r.handle = source[s].chunks
    BY <2>0, <2>1, IdleFacts DEF Ops, Ats, IndexSteps, Items, Kinds, Work, Empty
  <2>3. Placed(w, r)
    BY <1>0, <2>2, ItemFacts DEF Placed, OnItem
  <2>4. Moves(w) /\ work'[w] = r
    BY <1>0, <1>5, <2>0, <2>2, <2>3, SetMoves DEF Remove, Core
  <2>5. AtVectors(w)' = {s}
    <3>1. AtVectors(w)' = Where(r, stack)
      BY <1>0, <2>1, <2>4, WhereFacts
    <3>2. QED
      BY <2>2, <3>1 DEF Where, IndexSteps
  <2>6. HandleInv' /\ FirstsAgree'
    BY <1>0, <2>1, <2>2, <2>4, StoreKept
  <2>7. \A x : Same(x)
    BY <2>1 DEF Same, rows, store
  <2>8. Right(s) => Doing(w, s)'
    BY <2>1, <2>2, <2>4, <2>7, RightKept DEF Doing, rows, Items
  <2>9. \A x \in Items : stack # NoModel /\ Good(x) => Turn(w, x)
    BY <2>1, <2>5, <2>7, <2>8 DEF Turn, Good, Same
  <2>10. QED
    BY <1>0, <2>1, <2>4, <2>6, <2>9, CoreStep DEF Core, Typed, rows, store
<1>6. ASSUME NEW p \in Patches, Save(w, p)  PROVE Core'
  <2>1. /\ up /\ work[w] = Idle /\ AtVectors(w) = {}
        /\ UNCHANGED <<up, stack, rows, store>> /\ Exposing({}, {})
    BY <1>0, <1>6, FreeFacts DEF Save, Core, Typed
  <2>0. PICK r : r = [Idle EXCEPT !.op = "save", !.at = "lock", !.patch = p]
    OBVIOUS
  <2>2. r \in Work /\ r.op = "save" /\ r.at = "lock"
    BY <2>0, IdleFacts DEF Ops, Ats, Work
  <2>3. Placed(w, r)
    BY <1>0, <2>2 DEF Placed
  <2>4. Moves(w) /\ work'[w] = r
    BY <1>0, <1>6, <2>0, <2>2, <2>3, SetMoves DEF Save, Core
  <2>5. AtVectors(w)' = {}
    BY <1>0, <2>2, <2>4, WhereFacts DEF Where, IndexSteps
  <2>6. QED
    BY <1>0, <2>1, <2>2, <2>4, <2>5, QuietStep
<1>7. QED
  BY <1>1, <1>2, <1>3, <1>4, <1>5, <1>6 DEF Arrive

-----------------------------------------------------------------------------
(* Steps of the core: rows *)

LEMMA WorkerFacts ==
  ASSUME Core, NEW w \in Workers
  PROVE  /\ work[w] \in Work /\ Placed(w, work[w]) /\ stack \in Models
         /\ AtVectors(w) \subseteq Of(work[w].kind) /\ AtVectors(w) \subseteq Items
         /\ AtVectors(w) = Where(work[w], stack)
         /\ \A x \in Items \ exposed : x \in AtVectors(w) => work[w].store = stack
  BY WhereFacts, WhereInside, OwnStore DEF Core, Typed, PlaceInv

LEMMA OwnStoreNext ==
  ASSUME NEW repaired, NEW spoilt, Exposing(repaired, spoilt), NEW w \in Workers,
         NEW x, x \notin exposed', x \in AtVectors(w)'
  PROVE  work'[w].store = stack'
<1>1. work'[w] # Idle
  BY WhereFacts, IdleFacts DEF Where, IndexSteps
<1>2. x \notin Foreign'
  BY DEF Exposing
<1>3. QED
  BY <1>1, <1>2 DEF Foreign, Active

(* A worker that ends, or only notes that its document failed. *)
LEMMA FailMoves ==
  ASSUME Core, NEW w \in Workers, work[w].at \in {"open", "write"}, FailTo(w), stack' = stack
  PROVE  Moves(w) /\ work'[w].at # "write" /\ AtVectors(w)' \subseteq AtVectors(w)
<1>1. work[w] \in Work /\ Placed(w, work[w]) /\ AtVectors(w) = Where(work[w], stack)
  BY WorkerFacts
<1>2. CASE Finish(w)
  <2>1. Moves(w) /\ work'[w] = Idle
    BY <1>2, FinishMoves DEF Core
  <2>2. AtVectors(w)' = {}
    BY <2>1, WhereFacts, IdleFacts DEF Where, IndexSteps
  <2>3. QED
    BY <2>1, <2>2, IdleFacts
<1>3. CASE Goto(w, "fail") /\ (work[w].op = "ingest" \/ (work[w].op = "all" /\ work[w].item # Absent))
  <2>1. Placed(w, [work[w] EXCEPT !.at = "fail"])
    BY <1>1, <1>3 DEF Placed, OnItem, Work
  <2>2. Moves(w) /\ work'[w] = [work[w] EXCEPT !.at = "fail"]
    BY <1>3, <2>1, GotoMoves DEF Core, Ats, IndexSteps
  <2>3. AtVectors(w)' = Where(work'[w], stack)
    BY WhereFacts
  <2>4. AtVectors(w)' = AtVectors(w)
    BY <1>1, <2>2, <2>3 DEF Where, IndexSteps, Work
  <2>5. QED
    BY <1>1, <2>2, <2>4 DEF Work
<1>4. QED
  BY <1>2, <1>3 DEF FailTo

LEMMA SpoiltStep ==
  ASSUME Core, NEW w \in Workers, Moves(w), up', stack' = stack, UNCHANGED <<rows, store>>,
         work'[w].at # "write", AtVectors(w)' \subseteq AtVectors(w), Exposing({}, Spoilt(w))
  PROVE  Core'
<1>1. Spoilt(w) \in SUBSET Items
  BY WorkerFacts DEF Spoilt
<1>2. QED
  BY <1>1, QuietStep DEF Spoilt

LEMMA CallFailsCore ==
  ASSUME Core, NEW w \in Workers, CallFails(w)
  PROVE  Core'
  BY FailMoves, SpoiltStep DEF CallFails, config

LEMMA DoneStep ==
  ASSUME Core, NEW w \in Workers, Finish(w), up', stack' = stack, UNCHANGED store,
         entity' \in [Entities -> Nat \cup {Gone}],
         source' \in [Sources -> [status : Statuses, chunks : BOOLEAN]],
         NEW spoilt \in SUBSET Items, Exposing({}, spoilt),
         \A x \in Items \ (exposed \cup spoilt) :
           stack # NoModel => IF x \in AtVectors(w) THEN Doing(w, x) => Right(x)' ELSE Same(x)
  PROVE  Core'
<1>1. Moves(w) /\ work'[w] = Idle
  BY FinishMoves DEF Core
<1>2. AtVectors(w)' = {}
  BY <1>1, WhereFacts, IdleFacts DEF Where, IndexSteps
<1>3. HandleInv' /\ FirstsAgree'
  BY <1>1, StoreKept, IdleFacts
<1>4. \A x \in Items : x \notin exposed' /\ x \notin spoilt /\ stack # NoModel /\ Good(x)
                        => Turn(w, x)
  BY <1>2 DEF Turn, Good, store, Exposing
<1>5. QED
  BY <1>1, <1>3, <1>4, CoreStep DEF Core, Typed, store

LEMMA PlacedOpen ==
  ASSUME NEW w \in Workers \ {Job}, NEW r, r.at \in {"open", "write"},
         \/ r.op = "edit" /\ OnItem("canon", r) /\ Carries(r.batch, r.item)
         \/ r.op = "delete" /\ OnItem("canon", r) /\ Empty(r.batch)
         \/ r.op = "remove" /\ OnItem("kb", r) /\ Empty(r.batch)
         \/ r.op = "ingest" /\ OnItem("kb", r) /\ Carries(r.batch, r.item) /\ r.batch[r.item] = 1
  PROVE  Placed(w, r)
<1>1. CASE r.op = "edit" /\ OnItem("canon", r) /\ Carries(r.batch, r.item)
  BY <1>1 DEF Placed
<1>2. CASE r.op = "delete" /\ OnItem("canon", r) /\ Empty(r.batch)
  BY <1>2 DEF Placed
<1>3. CASE r.op = "remove" /\ OnItem("kb", r) /\ Empty(r.batch)
  BY <1>3 DEF Placed
<1>4. CASE r.op = "ingest" /\ OnItem("kb", r) /\ Carries(r.batch, r.item) /\ r.batch[r.item] = 1
  BY <1>4 DEF Placed
<1>5. QED
  BY <1>1, <1>2, <1>3, <1>4

LEMMA CommitCore ==
  ASSUME Core, NEW w \in Workers, CommitEdit(w) \/ CommitDelete(w)
  PROVE  Core'
<1>0. PICK e : e = work[w].item
  OBVIOUS
<1>1. /\ work[w] \in Work /\ Placed(w, work[w]) /\ work[w].at = "commit"
      /\ work[w].op \in {"edit", "delete"} /\ AtVectors(w) = {}
      /\ up /\ UNCHANGED <<up, stack, source, store>>
      /\ CommitEdit(w) => work[w].op = "edit"
      /\ CommitDelete(w) => work[w].op = "delete"
      /\ w # Job
  BY WorkerFacts DEF Placed, CommitEdit, CommitDelete, At, config, Where, IndexSteps
<1>2. work[w].kind = "canon" /\ e \in Entities /\ e \in Items
  BY <1>0, <1>1, ItemFacts DEF Placed, OnItem, Items
<1>3. CASE entity[e] = Gone
  <2>1. Finish(w) /\ Exposing({}, {}) /\ UNCHANGED entity
    BY <1>0, <1>3 DEF CommitEdit, CommitDelete
  <2>2. \A x : Same(x)
    BY <1>1, <2>1 DEF Same, store
  <2>3. QED
    BY <1>1, <2>1, <2>2, DoneStep DEF Core, Typed
<1>4. CASE entity[e] # Gone
  <2>0. PICK v, b : /\ v = IF work[w].op = "edit" THEN entity[e] + 1 ELSE Gone
                    /\ b = IF work[w].op = "edit" THEN v ELSE 0
    OBVIOUS
  <2>1. entity' = [entity EXCEPT ![e] = v] /\ v \in Nat \cup {Gone} /\ b \in Nat
        /\ (work[w].op = "edit" => b > 0)
        /\ Indexing(w, b) /\ Exposing({}, IF work[w].store = NoModel THEN {e} ELSE {})
    BY <1>0, <1>1, <1>2, <1>4, <2>0 DEF CommitEdit, CommitDelete, Core, Typed, Gone
  <2>2. entity' \in [Entities -> Nat \cup {Gone}]
    BY <1>2, <2>1 DEF Core, Typed
  <2>3. \A x \in Items : x # e => Same(x)
    BY <1>1, <2>1 DEF Same, store, Core, Typed
  <2>4. CASE work[w].store = NoModel
    <3>1. Finish(w) /\ Exposing({}, {e})
      BY <2>1, <2>4 DEF Indexing
    <3>2. QED
      BY <1>1, <1>2, <2>2, <2>3, <3>1, DoneStep DEF Core, Typed
  <2>5. CASE work[w].store # NoModel
    <3>1. PICK r : r = [work[w] EXCEPT !.at = "open", !.batch[e] = b]
      OBVIOUS
    <3>2. /\ r \in Work /\ r.op = work[w].op /\ r.at = "open" /\ r.store = work[w].store
          /\ r.kind = "canon" /\ r.item = e /\ r.batch = [work[w].batch EXCEPT ![e] = b]
      BY <1>0, <1>1, <1>2, <2>1, <3>1 DEF Work, Ats, IndexSteps
    <3>3. r.batch[e] = b
      BY <1>1, <1>2, <3>2 DEF Work
    <3>4. Placed(w, r)
      <4>0. OnItem("canon", r)
        BY <1>2, <3>2, ItemFacts DEF OnItem
      <4>1. CASE work[w].op = "delete"
        <5>1. b = 0
          BY <2>0, <4>1
        <5>2. Empty(r.batch)
          BY <1>1, <1>2, <3>2, <4>1, <5>1 DEF Placed, Empty, Work
        <5>3. QED
          BY <1>1, <3>2, <4>0, <4>1, <5>2, PlacedOpen
      <4>2. CASE work[w].op = "edit"
        <5>1. Carries(r.batch, e)
          <6>1. \A y \in Items \ {e} : work[w].batch[y] = 0
            BY <1>0, <1>1, <4>2 DEF Placed, Empty
          <6>2. QED
            BY <1>1, <2>1, <3>2, <3>3, <4>2, <6>1 DEF Carries, Work
        <5>2. QED
          BY <1>1, <3>2, <4>0, <4>2, <5>1, PlacedOpen
      <4>3. QED
        BY <1>1, <4>1, <4>2
    <3>5. Moves(w) /\ work'[w] = r
      <4>1. work' = [work EXCEPT ![w].at = "open", ![w].batch[e] = b]
        BY <1>0, <2>1, <2>5 DEF Indexing
      <4>2. work' = [work EXCEPT ![w] = r]
        BY <3>1, <4>1 DEF Core, Typed
      <4>3. QED
        BY <3>2, <3>4, <4>2, SetMoves DEF Core
    <3>6. AtVectors(w)' = IF work[w].store = stack THEN {e} ELSE Of("canon")
      <4>1. AtVectors(w)' = Where(r, stack)
        BY <1>1, <3>5, WhereFacts
      <4>2. QED
        BY <1>1, <3>2, <4>1 DEF Where, IndexSteps
    <3>7. Doing(w, e)'
      BY <1>1, <1>2, <2>0, <2>1, <3>2, <3>3, <3>5 DEF Doing, Core, Typed
    <3>8. HandleInv' /\ FirstsAgree'
      BY <1>1, <3>2, <3>5, StoreKept
    <3>9. Exposing({}, {})
      BY <2>1, <2>5
    <3>10. ASSUME NEW x \in Items, x \notin exposed', Good(x)  PROVE Turn(w, x)
      <4>1. x \in AtVectors(w)' => x = e
        BY <1>1, <3>2, <3>5, <3>6, <3>9, <3>10, OwnStoreNext DEF config
      <4>2. x \notin AtVectors(w)' => x # e
        BY <1>2, <3>6, ItemFacts
      <4>3. QED
        BY <1>1, <2>3, <3>7, <3>10, <4>1, <4>2 DEF Turn, Good, store
    <3>11. QED
      BY <1>1, <2>2, <3>5, <3>8, <3>9, <3>10, CoreStep DEF Core, Typed, store
  <2>6. QED
    BY <2>4, <2>5
<1>5. QED
  BY <1>3, <1>4

LEMMA RowGoneCore ==
  ASSUME Core, NEW w \in Workers, up', stack' = stack, UNCHANGED <<entity, store>>, RowGone(w)
  PROVE  Core'
<1>1. UNCHANGED <<rows, store>> /\ Finish(w) /\ Exposing({}, AtVectors(w))
  BY DEF RowGone, Spoilt, rows
<1>2. AtVectors(w) \in SUBSET Items
  BY WorkerFacts
<1>3. \A x : Same(x)
  BY <1>1 DEF Same, rows, store
<1>4. QED
  BY <1>1, <1>2, <1>3, DoneStep DEF Core, Typed, rows

(* A document's row is written, by its ingestion or by the job. *)
LEMMA IngestFacts ==
  ASSUME Core, NEW w \in Workers, work[w].op \in {"ingest", "all"},
         work[w].at \in {"mark", "settle", "fail"}
  PROVE  /\ work[w].item \in Sources /\ work[w].kind = "kb" /\ work[w].item # Absent
         /\ work[w].item \in AtVectors(w)
         /\ work[w].op = "all" => w = Job /\ AtVectors(w) = Sources
         /\ work[w].op = "ingest" =>
              w # Job /\ \A x \in Items \ exposed : x \in AtVectors(w) => x = work[w].item
<1>1. /\ work[w] \in Work /\ Placed(w, work[w]) /\ AtVectors(w) = Where(work[w], stack)
      /\ \A x \in Items \ exposed : x \in AtVectors(w) => work[w].store = stack
  BY WorkerFacts
<1>2. work[w].kind \in Kinds
  BY <1>1 DEF Work
<1>3. work[w].item \in Sources /\ work[w].kind = "kb"
  BY <1>1, <1>2, ItemFacts DEF Placed, OnItem, Kinds
<1>4. work[w].op = "all" => w = Job /\ AtVectors(w) = Sources
  BY <1>1, <1>3, ItemFacts DEF Placed, Where, IndexSteps
<1>5. work[w].op = "ingest" =>
        /\ w # Job
        /\ AtVectors(w) = IF work[w].store # stack THEN Sources ELSE {work[w].item}
  BY <1>1, <1>3, ItemFacts DEF Placed, Where, IndexSteps
<1>6. QED
  BY <1>1, <1>3, <1>4, <1>5, ItemFacts DEF Items

LEMMA MarkCore ==
  ASSUME Core, NEW w \in Workers, Mark(w)
  PROVE  Core'
<1>0. PICK s : s = work[w].item
  OBVIOUS
<1>1. /\ up /\ work[w].op \in {"ingest", "all"} /\ work[w].at = "mark"
      /\ UNCHANGED <<up, stack, entity, store>>
  BY DEF Mark, Ingesting, config
<1>2. /\ s \in Sources /\ work[w].kind = "kb" /\ s \in AtVectors(w) /\ s \in Items
      /\ work[w].op = "all" => w = Job /\ AtVectors(w) = Sources
      /\ work[w].op = "ingest" =>
           w # Job /\ \A x \in Items \ exposed : x \in AtVectors(w) => x = s
  BY <1>0, <1>1, IngestFacts DEF Items
<1>3. /\ work[w] \in Work /\ Placed(w, work[w]) /\ AtVectors(w) = Where(work[w], stack)
      /\ \A x \in Items \ exposed : x \in AtVectors(w) => work[w].store = stack
  BY WorkerFacts
<1>4. CASE RowGone(w)
  BY <1>1, <1>4, RowGoneCore
<1>5. CASE ~ RowGone(w)
  <2>1. /\ source' = [source EXCEPT ![s].status = "processing"] /\ Exposing({}, {})
        /\ IF work[w].store = NoModel THEN Goto(w, "settle")
           ELSE work' = [work EXCEPT ![w].at = "open", ![w].batch[s] = 1]
    BY <1>0, <1>5 DEF Mark
  <2>2. source' \in [Sources -> [status : Statuses, chunks : BOOLEAN]]
    BY <1>2, <2>1 DEF Core, Typed, Statuses
  <2>3. \A x \in Items : x # s => Same(x)
    BY <1>1, <2>1 DEF Same, store, Core, Typed
  <2>4. Empty(work[w].batch) /\ OnItem("kb", work[w])
    BY <1>0, <1>1, <1>2, <1>3, ItemFacts DEF Placed, OnItem
  <2>5. PICK r : r = IF work[w].store = NoModel THEN [work[w] EXCEPT !.at = "settle"]
                     ELSE [work[w] EXCEPT !.at = "open", !.batch[s] = 1]
    OBVIOUS
  <2>6. /\ r \in Work /\ r.op = work[w].op /\ r.store = work[w].store /\ r.kind = "kb"
        /\ r.item = s /\ r.todo = work[w].todo
        /\ r.at = IF work[w].store = NoModel THEN "settle" ELSE "open"
        /\ r.at = "open" => r.batch = [work[w].batch EXCEPT ![s] = 1]
    BY <1>0, <1>2, <1>3, <2>5 DEF Work, Ats, IndexSteps
  <2>7. r.at = "open" => Carries(r.batch, s) /\ r.batch[s] = 1
    BY <1>2, <1>3, <2>4, <2>6 DEF Carries, Empty, Work
  <2>8. Placed(w, r)
    <3>1. OnItem("kb", r)
      BY <1>2, <2>6, ItemFacts DEF OnItem
    <3>2. CASE r.op = "ingest"
      BY <1>2, <2>6, <2>7, <3>1, <3>2 DEF Placed
    <3>3. CASE r.op = "all"
      BY <1>2, <2>6, <2>7, <3>1, <3>3 DEF Placed, OnItem
    <3>4. QED
      BY <1>1, <2>6, <3>2, <3>3
  <2>9. Moves(w) /\ work'[w] = r
    <3>1. work' = [work EXCEPT ![w] = r]
      BY <2>1, <2>5 DEF Goto, Core, Typed
    <3>2. QED
      BY <2>6, <2>8, <3>1, SetMoves DEF Core
  <2>10. AtVectors(w)' = AtVectors(w)
    <3>1. AtVectors(w)' = Where(r, stack)
      BY <1>1, <2>9, WhereFacts
    <3>2. QED
      BY <1>0, <1>1, <1>2, <1>3, <2>6, <3>1 DEF Where, IndexSteps
  <2>11. HandleInv' /\ FirstsAgree'
    BY <1>1, <2>6, <2>9, StoreKept
  <2>12. ASSUME NEW x \in Items, x \notin exposed', stack # NoModel, Good(x)
         PROVE  Turn(w, x)
    <3>1. x \notin exposed
      BY <2>1, <2>12 DEF Exposing
    <3>2. ASSUME x \in AtVectors(w), Doing(w, x)  PROVE Doing(w, x)'
      <4>1. r.at = "open"
        BY <1>3, <2>6, <2>12, <3>1, <3>2
      <4>2. CASE r.op = "ingest"
        BY <2>9, <4>1, <4>2 DEF Doing
      <4>3. CASE r.op = "all"
        <5>1. \/ x \in work[w].todo \/ x = s
              \/ x # s /\ Right(x)
          BY <1>0, <1>1, <1>2, <2>6, <3>2, <4>3 DEF Doing
        <5>2. x # s /\ Right(x) => Right(x)'
          BY <1>1, <2>3, RightKept
        <5>3. QED
          BY <2>6, <2>9, <4>1, <4>3, <5>1, <5>2 DEF Doing
      <4>4. QED
        BY <1>1, <2>6, <4>2, <4>3
    <3>3. QED
      BY <1>1, <1>2, <2>3, <2>10, <2>12, <3>2 DEF Turn, Good, store
  <2>13. QED
    BY <1>1, <2>1, <2>2, <2>9, <2>11, <2>12, CoreStep DEF Core, Typed, store
<1>6. QED
  BY <1>4, <1>5


LEMMA NextCore ==
  ASSUME Core, NEW w \in Workers, work[w].op = "all", work[w].at \in {"settle", "fail"},
         NextSource(w), up', stack' = stack, UNCHANGED <<entity, store>>,
         NEW s, s = work[w].item, \A x \in Sources : x # s => source'[x] = source[x],
         source' \in [Sources -> [status : Statuses, chunks : BOOLEAN]],
         NEW spoilt \in SUBSET Items, Exposing({}, spoilt),
         s \in Items \ (exposed \cup spoilt) /\ stack # NoModel /\ Doing(w, s)
           => s \in work[w].todo \/ Right(s)'
  PROVE  Core'
<1>1. /\ s \in Sources /\ work[w].kind = "kb" /\ s \in Items
      /\ w = Job /\ AtVectors(w) = Sources
  BY IngestFacts DEF Items
<1>2. /\ work[w] \in Work /\ Placed(w, work[w])
      /\ \A x \in Items \ exposed : x \in AtVectors(w) => work[w].store = stack
  BY WorkerFacts
<1>3. \A x \in Items : x # s => Same(x)
  BY <1>1 DEF Same, store
<1>4. PICK r : r = [work[w] EXCEPT !.at = "read", !.item = Absent, !.batch = [x \in Items |-> 0]]
  OBVIOUS
<1>5. /\ r \in Work /\ r.op = "all" /\ r.store = work[w].store /\ r.kind = "kb"
      /\ r.item = Absent /\ r.todo = work[w].todo /\ r.at = "read" /\ Empty(r.batch)
  BY <1>1, <1>2, <1>4 DEF Work, Ats, IndexSteps, Empty
<1>6. Placed(w, r)
  BY <1>1, <1>5 DEF Placed
<1>7. Moves(w) /\ work'[w] = r
  <2>1. work' = [work EXCEPT ![w] = r]
    BY <1>4 DEF NextSource, Core, Typed
  <2>2. QED
    BY <1>5, <1>6, <2>1, SetMoves DEF Core
<1>8. AtVectors(w)' = Sources
  <2>1. AtVectors(w)' = Where(r, stack)
    BY <1>7, WhereFacts
  <2>2. QED
    BY <1>5, <2>1, ItemFacts DEF Where, IndexSteps
<1>9. HandleInv' /\ FirstsAgree'
  BY <1>5, <1>7, StoreKept
<1>10. ASSUME NEW x \in Items, x \notin exposed', x \notin spoilt, stack # NoModel, Good(x)
       PROVE  Turn(w, x)
  <2>1. x \notin exposed
    BY <1>10 DEF Exposing
  <2>2. ASSUME x \in AtVectors(w), Doing(w, x)  PROVE Doing(w, x)'
    <3>1. CASE x = s
      BY <1>5, <1>7, <1>10, <2>1, <2>2, <3>1, ItemFacts DEF Doing
    <3>2. CASE x # s
      <4>1. x \in work[w].todo \/ Right(x)
        BY <1>1, <2>2, <3>2 DEF Doing
      <4>2. Right(x) => Right(x)'
        BY <1>3, <3>2, RightKept
      <4>3. QED
        BY <1>5, <1>7, <4>1, <4>2, ItemFacts DEF Doing
    <3>3. QED
      BY <3>1, <3>2
  <2>3. QED
    BY <1>1, <1>3, <1>8, <1>10, <2>2 DEF Turn, Good, store
<1>11. QED
  BY <1>7, <1>9, <1>10, CoreStep DEF Core, Typed, store

LEMMA SettleCore ==
  ASSUME Core, NEW w \in Workers, Settle(w)
  PROVE  Core'
<1>0. PICK s : s = work[w].item
  OBVIOUS
<1>1. /\ up /\ work[w].op \in {"ingest", "all"} /\ work[w].at = "settle"
      /\ UNCHANGED <<up, stack, entity, store>>
  BY DEF Settle, Ingesting, config
<1>2. /\ s \in Sources /\ work[w].kind = "kb" /\ s \in AtVectors(w) /\ s \in Items
      /\ work[w].op = "all" => w = Job /\ AtVectors(w) = Sources
      /\ work[w].op = "ingest" =>
           w # Job /\ \A x \in Items \ exposed : x \in AtVectors(w) => x = s
  BY <1>0, <1>1, IngestFacts DEF Items
<1>3. \A x \in Items \ exposed : x \in AtVectors(w) => work[w].store = stack
  BY WorkerFacts
<1>4. CASE RowGone(w)
  BY <1>1, <1>4, RowGoneCore
<1>5. CASE ~ RowGone(w)
  <2>1. /\ source' = [source EXCEPT ![s] =
             [status |-> "ready", chunks |-> work[w].store # NoModel]]
        /\ Exposing({}, IF work[w].store # stack THEN {s} ELSE {}) /\ Settled(w)
    BY <1>0, <1>5 DEF Settle
  <2>2. source' \in [Sources -> [status : Statuses, chunks : BOOLEAN]]
    BY <1>2, <2>1 DEF Core, Typed, Statuses
  <2>3. \A x \in Items : x # s => Same(x)
    BY <1>1, <2>1 DEF Same, store, Core, Typed
  <2>4. ASSUME s \in Items \ exposed, stack # NoModel, vectors[s] = Vector(stack, 1)
        PROVE  Right(s)'
    <3>1. source'[s] = [status |-> "ready", chunks |-> TRUE]
      BY <1>2, <1>3, <2>1, <2>4 DEF Core, Typed
    <3>2. vectors'[s] = Vector(stack', 1) /\ s \notin Entities
      BY <1>1, <1>2, <2>4, ItemFacts DEF store
    <3>3. Wanted(s)' = {Vector(stack', 1)}
      BY <3>1, <3>2 DEF Wanted
    <3>4. QED
      BY <3>1, <3>2, <3>3 DEF Right
  <2>5. CASE work[w].op = "ingest"
    <3>1. Finish(w)
      BY <1>2, <2>1, <2>5 DEF Settled
    <3>2. Doing(w, s) => vectors[s] = Vector(stack, 1)
      BY <1>1, <2>5 DEF Doing
    <3>3. \A x \in Items \ exposed :
            stack # NoModel => IF x \in AtVectors(w) THEN Doing(w, x) => Right(x)' ELSE Same(x)
      BY <1>2, <2>3, <2>4, <2>5, <3>2
    <3>4. PICK spoilt \in SUBSET Items : Exposing({}, spoilt)
      BY <1>2, <2>1
    <3>5. entity' \in [Entities -> Nat \cup {Gone}]
      BY <1>1 DEF Core, Typed
    <3>6. QED
      BY <1>1, <2>2, <3>1, <3>3, <3>4, <3>5, DoneStep
  <2>6. CASE work[w].op = "all"
    <3>1. NextSource(w)
      BY <1>2, <2>1, <2>6 DEF Settled
    <3>2. Doing(w, s) => s \in work[w].todo \/ vectors[s] = Vector(stack, 1)
      BY <1>0, <1>1, <1>2, <2>6 DEF Doing
    <3>3. \A x \in Sources : x # s => source'[x] = source[x]
      BY <2>1 DEF Core, Typed
    <3>4. QED
      BY <1>0, <1>1, <1>2, <2>1, <2>2, <2>4, <2>6, <3>1, <3>2, <3>3, NextCore
  <2>7. QED
    BY <1>1, <2>5, <2>6
<1>6. QED
  BY <1>4, <1>5

LEMMA FailCore ==
  ASSUME Core, NEW w \in Workers, Fail(w)
  PROVE  Core'
<1>0. PICK s : s = work[w].item
  OBVIOUS
<1>1. /\ up /\ work[w].op \in {"ingest", "all"} /\ work[w].at = "fail"
      /\ UNCHANGED <<up, stack, entity, store>>
  BY DEF Fail, Ingesting, config
<1>2. /\ s \in Sources /\ work[w].kind = "kb" /\ s \in AtVectors(w) /\ s \in Items
      /\ work[w].op = "all" => w = Job
      /\ work[w].op = "ingest" => w # Job
  BY <1>0, <1>1, IngestFacts DEF Items
<1>3. CASE RowGone(w)
  BY <1>1, <1>3, RowGoneCore
<1>4. CASE ~ RowGone(w)
  <2>1. /\ source' = [source EXCEPT ![s].status = "failed"]
        /\ Exposing({}, {}) /\ Settled(w)
    BY <1>0, <1>4 DEF Fail
  <2>2. source' \in [Sources -> [status : Statuses, chunks : BOOLEAN]]
    BY <1>2, <2>1 DEF Core, Typed, Statuses
  <2>3. \A x \in Items : x # s => Same(x)
    BY <1>1, <2>1 DEF Same, store, Core, Typed
  <2>4. Doing(w, s) => work[w].op = "all" /\ s \in work[w].todo
    BY <1>0, <1>1, <1>2 DEF Doing
  <2>5. CASE work[w].op = "ingest"
    <3>1. Finish(w)
      BY <1>2, <2>1, <2>5 DEF Settled
    <3>2. \A x \in Items : x \in AtVectors(w) => ~ Doing(w, x)
      BY <1>1, <2>5 DEF Doing
    <3>3. QED
      BY <1>1, <1>2, <2>1, <2>2, <2>3, <3>1, <3>2, DoneStep DEF Core, Typed
  <2>6. CASE work[w].op = "all"
    <3>1. NextSource(w)
      BY <1>2, <2>1, <2>6 DEF Settled
    <3>2. \A x \in Sources : x # s => source'[x] = source[x]
      BY <2>1 DEF Core, Typed
    <3>3. QED
      BY <1>0, <1>1, <1>2, <2>1, <2>2, <2>4, <2>6, <3>1, <3>2, NextCore
  <2>7. QED
    BY <1>1, <2>5, <2>6
<1>5. QED
  BY <1>3, <1>4

LEMMA CommitRemoveCore ==
  ASSUME Core, NEW w \in Workers, CommitRemove(w)
  PROVE  Core'
<1>0. PICK s : s = work[w].item
  OBVIOUS
<1>1. /\ up /\ work[w].op = "remove" /\ work[w].at = "mark"
      /\ UNCHANGED <<up, stack, entity, store>>
      /\ source' = [source EXCEPT ![s].status = "gone"]
  BY <1>0 DEF CommitRemove, At, config
<1>2. /\ work[w] \in Work /\ Placed(w, work[w]) /\ AtVectors(w) = Where(work[w], stack)
      /\ \A x \in Items \ exposed : x \in AtVectors(w) => work[w].store = stack
  BY WorkerFacts
<1>3. /\ s \in Sources /\ work[w].kind = "kb" /\ s \in Items /\ w # Job
      /\ OnItem("kb", work[w]) /\ Empty(work[w].batch)
  BY <1>0, <1>1, <1>2, ItemFacts DEF Placed, OnItem, Items
<1>4. s \in AtVectors(w) /\ \A x \in Items \ exposed : x \in AtVectors(w) => x = s
  BY <1>0, <1>1, <1>2, <1>3, ItemFacts DEF Where, IndexSteps
<1>5. source' \in [Sources -> [status : Statuses, chunks : BOOLEAN]]
  BY <1>1, <1>3 DEF Core, Typed, Statuses
<1>6. \A x \in Items : x # s => Same(x)
  BY <1>1 DEF Same, store, Core, Typed
<1>7. Doing(w, s) => Right(s) /\ work[w].handle = source[s].chunks
  BY <1>1 DEF Doing
<1>8. /\ source'[s].status = "gone" /\ source'[s].chunks = source[s].chunks
      /\ s \notin Entities
  BY <1>1, <1>3, ItemFacts DEF Core, Typed
<1>9. CASE source[s].status = "gone" \/ work[w].store = NoModel \/ ~ work[w].handle
  <2>1. Finish(w) /\ Exposing({}, IF work[w].store # stack THEN {s} ELSE {})
    BY <1>0, <1>9 DEF CommitRemove
  <2>2. ASSUME s \in Items \ exposed, stack # NoModel, Doing(w, s)  PROVE Right(s)'
    <3>1. vectors[s] = Nothing
      <4>1. source[s].status = "gone" \/ ~ source[s].chunks
        BY <1>2, <1>4, <1>7, <1>9, <2>2
      <4>2. source[s].status = "gone" => Wanted(s) = {Nothing}
        BY <1>8 DEF Wanted
      <4>3. QED
        BY <1>3, <1>7, <2>2, <4>1, <4>2 DEF Right
    <3>2. Wanted(s)' = {Nothing}
      BY <1>8 DEF Wanted
    <3>3. QED
      BY <1>1, <3>1, <3>2 DEF Right, store
  <2>3. \A x \in Items \ exposed :
          stack # NoModel => IF x \in AtVectors(w) THEN Doing(w, x) => Right(x)' ELSE Same(x)
    BY <1>4, <1>6, <2>2
  <2>4. QED
    BY <1>1, <1>3, <1>5, <2>1, <2>3, DoneStep DEF Core, Typed
<1>10. CASE ~ (source[s].status = "gone" \/ work[w].store = NoModel \/ ~ work[w].handle)
  <2>1. Goto(w, "open") /\ Exposing({}, {})
    BY <1>0, <1>10 DEF CommitRemove
  <2>2. PICK r : r = [work[w] EXCEPT !.at = "open"]
    OBVIOUS
  <2>3. /\ r \in Work /\ r.op = "remove" /\ r.at = "open" /\ r.store = work[w].store
        /\ OnItem("kb", r) /\ r.item = s /\ Empty(r.batch)
    BY <1>0, <1>1, <1>2, <1>3, <2>2 DEF Work, Ats, IndexSteps, OnItem
  <2>4. Placed(w, r)
    BY <1>3, <2>3, PlacedOpen
  <2>5. Moves(w) /\ work'[w] = r
    BY <2>1, <2>2, <2>4, GotoMoves DEF Core, Ats, IndexSteps
  <2>6. AtVectors(w)' = AtVectors(w)
    <3>1. AtVectors(w)' = Where(r, stack)
      BY <1>1, <2>5, WhereFacts
    <3>2. QED
      BY <1>0, <1>1, <1>2, <1>3, <2>3, <3>1 DEF Where, IndexSteps, OnItem
  <2>7. HandleInv' /\ FirstsAgree'
    BY <1>1, <2>3, <2>5, StoreKept
  <2>8. Doing(w, s)'
    BY <1>8, <2>3, <2>5 DEF Doing
  <2>9. \A x \in Items : x \notin exposed' /\ stack # NoModel /\ Good(x) => Turn(w, x)
    BY <1>1, <1>4, <1>6, <2>1, <2>6, <2>8 DEF Turn, Good, store, Exposing
  <2>10. QED
    BY <1>1, <1>5, <2>1, <2>5, <2>7, <2>9, CoreStep DEF Core, Typed, store
<1>11. QED
  BY <1>9, <1>10


-----------------------------------------------------------------------------
(* Steps of the core: rebuilding *)

LEMMA RebuildFacts ==
  ASSUME Core, NEW w \in Workers, work[w].op \in {"reindex", "all"}
  PROVE  /\ work[w] \in Work /\ Placed(w, work[w])
         /\ work[w].op = "all" <=> w = Job
         /\ work[w].at \in IndexSteps => AtVectors(w) = Of(work[w].kind)
         /\ work[w].kind \in {"canon", "kb"} /\ Of(work[w].kind) \subseteq Items
         /\ \A x \in Of(work[w].kind) : x \in Entities <=> work[w].kind = "canon"
<1>1. work[w] \in Work /\ Placed(w, work[w]) /\ AtVectors(w) = Where(work[w], stack)
  BY WorkerFacts
<1>2. work[w].kind \in {"canon", "kb"}
  BY <1>1 DEF Work, Kinds
<1>3. Of(work[w].kind) \subseteq Items /\ \A x \in Of(work[w].kind) : x \in Entities <=> work[w].kind = "canon"
  BY <1>2, ItemFacts DEF Items
<1>4. work[w].op = "all" <=> w = Job
  BY <1>1 DEF Placed
<1>5. work[w].at \in IndexSteps => AtVectors(w) = Of(work[w].kind)
  BY <1>1 DEF Where
<1>6. QED
  BY <1>1, <1>2, <1>3, <1>4, <1>5

LEMMA ListCore ==
  ASSUME Core, NEW w \in Workers, List(w)
  PROVE  Core'
<1>0. PICK stored : stored = {e \in Entities : entity[e] > 0}
  OBVIOUS
<1>1. /\ up /\ work[w].op \in {"reindex", "all"} /\ work[w].at = "list"
      /\ UNCHANGED <<up, stack, rows, store>> /\ Exposing({}, {})
      /\ IF stored = {}
         THEN IF w = Job THEN Goto(w, "sources") ELSE Finish(w)
         ELSE work' = [work EXCEPT ![w].at = "open",
                ![w].batch = [x \in Items |-> IF x \in stored THEN entity[x] ELSE 0]]
  BY <1>0 DEF List, config
<1>2. /\ work[w] \in Work /\ Placed(w, work[w]) /\ (work[w].op = "all" <=> w = Job)
      /\ AtVectors(w) = Of(work[w].kind) /\ work[w].kind \in {"canon", "kb"}
  BY <1>1, RebuildFacts DEF IndexSteps
<1>3. work[w].kind = "canon" /\ work[w].item = Absent
  BY <1>1, <1>2 DEF Placed
<1>4. AtVectors(w) = Entities
  BY <1>2, <1>3, ItemFacts
<1>5. \A x : Same(x)
  BY <1>1 DEF Same, rows, store
<1>6. \A x \in Items : Doing(w, x) => vectors[x] = Nothing
  BY <1>1, <1>3 DEF Doing
<1>7. \A x \in Items : stored = {} /\ x \in AtVectors(w) /\ Doing(w, x) => Right(x)
  BY <1>0, <1>4, <1>6, ItemFacts DEF Right, Wanted
<1>8. \A x \in Items : Right(x) => Right(x)'
  BY <1>1, <1>5, RightKept
<1>9. CASE stored = {} /\ w # Job
  BY <1>1, <1>5, <1>7, <1>8, <1>9, DoneStep DEF Core, Typed, rows
<1>10. CASE stored = {} /\ w = Job
  <2>1. PICK r : r = [work[w] EXCEPT !.at = "sources"]
    OBVIOUS
  <2>2. /\ r \in Work /\ r.op = "all" /\ r.at = "sources" /\ r.kind = "canon" /\ r.item = Absent
        /\ r.batch = work[w].batch
    BY <1>2, <1>3, <1>10, <2>1 DEF Work, Ats, IndexSteps
  <2>3. Placed(w, r)
    BY <1>1, <1>2, <1>3, <1>10, <2>2 DEF Placed
  <2>4. Moves(w) /\ work'[w] = r
    BY <1>1, <1>10, <2>1, <2>3, GotoMoves DEF Core, Ats, IndexSteps
  <2>5. AtVectors(w)' = AtVectors(w)
    <3>1. AtVectors(w)' = Where(r, stack)
      BY <1>1, <2>4, WhereFacts
    <3>2. QED
      BY <1>4, <2>2, <3>1, ItemFacts DEF Where, IndexSteps
  <2>6. \A x \in Items : Right(x)' => Doing(w, x)'
    BY <2>2, <2>4 DEF Doing
  <2>7. QED
    BY <1>1, <1>7, <1>8, <1>10, <2>2, <2>4, <2>5, <2>6, QuietStep
<1>11. CASE stored # {}
  <2>1. PICK b : b = [x \in Items |-> IF x \in stored THEN entity[x] ELSE 0]
    OBVIOUS
  <2>2. b \in [Items -> Nat] /\ \A x \in Of("kb") : b[x] = 0
    BY <1>0, <2>1, ItemFacts DEF Core, Typed, Items, Gone
  <2>3. PICK r : r = [work[w] EXCEPT !.at = "open", !.batch = b]
    OBVIOUS
  <2>4. /\ r \in Work /\ r.op = work[w].op /\ r.at = "open" /\ r.kind = "canon"
        /\ r.item = Absent /\ r.batch = b
    BY <1>2, <1>3, <2>2, <2>3 DEF Work, Ats, IndexSteps
  <2>5. Placed(w, r)
    <3>1. CASE r.op = "reindex"
      BY <1>2, <2>2, <2>4, <3>1 DEF Placed
    <3>2. CASE r.op = "all"
      BY <1>2, <2>2, <2>4, <3>2 DEF Placed
    <3>3. QED
      BY <1>1, <2>4, <3>1, <3>2
  <2>6. Moves(w) /\ work'[w] = r
    <3>1. work' = [work EXCEPT ![w] = r]
      BY <1>1, <1>11, <2>1, <2>3 DEF Core, Typed
    <3>2. QED
      BY <2>4, <2>5, <3>1, SetMoves DEF Core
  <2>7. AtVectors(w)' = AtVectors(w)
    <3>1. AtVectors(w)' = Where(r, stack)
      BY <1>1, <2>6, WhereFacts
    <3>2. QED
      BY <1>1, <1>4, <2>4, <3>1, ItemFacts DEF Where, IndexSteps
  <2>8. ASSUME NEW x \in Items, x \in AtVectors(w), Doing(w, x)  PROVE Doing(w, x)'
    <3>1. vectors'[x] = Nothing /\ x \in Entities /\ entity' = entity
      BY <1>1, <1>4, <1>6, <2>8 DEF store, rows
    <3>2. b[x] = IF entity[x] > 0 THEN entity[x] ELSE 0
      BY <1>0, <2>1, <3>1, ItemFacts
    <3>3. QED
      BY <1>1, <2>4, <2>6, <3>1, <3>2 DEF Doing
  <2>9. QED
    BY <1>1, <2>4, <2>6, <2>7, <2>8, QuietStep
<1>12. QED
  BY <1>9, <1>10, <1>11

LEMMA DropCore ==
  ASSUME Core, NEW w \in Workers, Drop(w)
  PROVE  Core'
<1>0. PICK kind, at, again : /\ kind = work[w].kind /\ again = Rebuilds(w)
                             /\ at = IF kind = "canon" THEN "list" ELSE "read"
  OBVIOUS
<1>1. /\ up /\ work[w].op \in {"reindex", "all"} /\ work[w].at = "drop"
      /\ Dropped(kind, Absent) /\ Holding(w, FALSE, kind, at)
      /\ UNCHANGED <<up, stack, rows>>
      /\ Exposing(again, Of(kind) \ again)
  BY <1>0 DEF Drop, config
<1>2. /\ work[w] \in Work /\ Placed(w, work[w]) /\ (work[w].op = "all" <=> w = Job)
      /\ AtVectors(w) = Of(kind) /\ kind \in {"canon", "kb"} /\ Of(kind) \subseteq Items
      /\ \A x \in Of(kind) : x \in Entities <=> kind = "canon"
  BY <1>0, <1>1, RebuildFacts DEF IndexSteps
<1>3. PICK r : r = [work[w] EXCEPT !.handle = TRUE, !.at = at]
  OBVIOUS
<1>4. /\ r \in Work /\ r.op = work[w].op /\ r.at = at /\ r.kind = kind /\ r.item = work[w].item
      /\ r.batch = work[w].batch /\ r.todo = work[w].todo
  BY <1>0, <1>2, <1>3 DEF Work, Ats, IndexSteps
<1>5. r.item = Absent /\ at \in {"list", "read"}
  BY <1>0, <1>1, <1>2, <1>4 DEF Placed
<1>6. Placed(w, r)
  <2>1. CASE r.op = "reindex"
    BY <1>0, <1>1, <1>2, <1>4, <2>1 DEF Placed
  <2>2. CASE r.op = "all"
    BY <1>0, <1>1, <1>2, <1>4, <2>2 DEF Placed
  <2>3. QED
    BY <1>1, <1>4, <2>1, <2>2
<1>7. /\ Moves(w) /\ work'[w] = r
      /\ \A v \in Workers \ {w} :
           IF work[v].kind = kind /\ work[v].at # "mark"
           THEN work'[v].handle = FALSE ELSE work'[v] = work[v]
  <2>1. at \in Ats /\ Typed
    BY <1>5 DEF Ats, IndexSteps, Core
  <2>2. QED
    <3>1. Holding(w, FALSE, kind, at) /\ work[w].op # "search"
      BY <1>1
    <3>2. Moves(w)
      BY <1>3, <1>6, <2>1, <3>1, DroppedMoves
    <3>3. work'[w] = r
      BY <1>3, <3>1 DEF Holding
    <3>4. \A v \in Workers \ {w} :
           IF work[v].kind = kind /\ work[v].at # "mark"
           THEN work'[v].handle = FALSE ELSE work'[v] = work[v]
      BY <1>3, <1>6, <2>1, <3>1, DroppedMoves
    <3>5. QED
      BY <3>1, <3>2, <3>3, <3>4
<1>8. AtVectors(w)' = Of(kind)
  <2>1. AtVectors(w)' = Where(r, stack)
    BY <1>1, <1>7, WhereFacts
  <2>2. QED
    BY <1>1, <1>4, <1>5, <2>1 DEF Where, IndexSteps
<1>9. /\ meta' \in [Kinds -> Models \cup {Absent}]
      /\ vectors' \in [Items -> [by : Models \cup {Absent}, version : Nat]]
      /\ \A x \in Items : vectors'[x] = IF Kind(x) = kind THEN Nothing ELSE vectors[x]
      /\ \A k \in Kinds \ {kind} : meta'[k] = meta[k]
  BY <1>1 DEF Dropped, Core, Typed, Nothing, Vector
<1>10. HandleInv'
  <2>1. ASSUME NEW v \in Workers, work'[v].at = "write", work'[v].handle
        PROVE  meta'[work'[v].kind] = work'[v].store
    <3>1. v # w /\ work[v] \in Work
      BY <1>4, <1>5, <1>7, <2>1 DEF Core, Typed
    <3>2. CASE work[v].kind = kind /\ work[v].at # "mark"
      BY <1>7, <2>1, <3>1, <3>2 DEF Work
    <3>3. CASE ~ (work[v].kind = kind /\ work[v].at # "mark")
      <4>1. work'[v] = work[v]
        BY <1>7, <3>1, <3>3
      <4>2. work[v].kind \in Kinds \ {kind} /\ meta[work[v].kind] = work[v].store
        BY <2>1, <3>1, <3>3, <4>1 DEF Core, HandleInv, Work
      <4>3. QED
        BY <1>9, <4>1, <4>2
    <3>4. QED
      BY <3>2, <3>3
  <2>2. QED
    BY <2>1 DEF HandleInv
<1>11. FirstsAgree'
  BY <1>9, ItemFacts DEF FirstsAgree, Core
<1>12. PlaceInv' /\ work' \in [Workers -> Work]
  BY <1>7, MovesPlace DEF Core, Moves
<1>13. exposed' \subseteq Items /\ ApartInv'
  <2>1. (Of(kind) \ again) \in SUBSET Items
    BY <1>2
  <2>2. QED
    BY <1>1, <1>12, <2>1, ExposedTyped DEF Core
<1>14. ASSUME NEW x \in Items \ exposed', stack # NoModel
       PROVE  \/ x \notin exposed /\ (Good(x) => Turn(w, x))
              \/ vectors'[x] = Nothing /\ x \in AtVectors(w)' /\ Doing(w, x)'
  <2>1. x \in Of(kind) <=> Kind(x) = kind
    BY DEF Of
  <2>2. x \in Of(kind) => x \in again
    BY <1>1, <1>14 DEF Exposing
  <2>3. CASE x \in Of(kind)
    <3>1. vectors'[x] = Nothing /\ x \in AtVectors(w)'
      BY <1>8, <1>9, <2>1, <2>3
    <3>2. CASE kind = "canon"
      BY <1>0, <1>1, <1>4, <1>7, <3>1, <3>2 DEF Doing
    <3>3. CASE kind = "kb"
      <4>1. x \in work[w].todo \/ source[x].status \in {"none", "gone"}
        BY <1>0, <1>2, <2>2, <2>3, <3>3 DEF Rebuilds
      <4>2. source'[x].status \in {"none", "gone"} => Right(x)'
        <5>1. x \notin Entities
          BY <1>2, <2>3, <3>3
        <5>2. source'[x].status \in {"none", "gone"} => Wanted(x)' = {Nothing}
          BY <5>1 DEF Wanted
        <5>3. QED
          BY <3>1, <5>2 DEF Right
      <4>3. work'[w].op = "all"
        BY <1>1, <1>2, <1>4, <1>7, <1>0, <3>3 DEF Placed
      <4>4. QED
        BY <1>0, <1>1, <1>4, <1>5, <1>7, <3>1, <3>3, <4>1, <4>2, <4>3, ItemFacts
           DEF Doing, rows
    <3>4. QED
      BY <1>2, <3>2, <3>3
  <2>4. CASE x \notin Of(kind)
    <3>1. x \notin exposed
      BY <1>0, <1>1, <1>14, <2>4 DEF Exposing, Rebuilds
    <3>2. Same(x)
      BY <1>1, <1>9, <2>1, <2>4 DEF Same, rows
    <3>3. QED
      BY <1>2, <1>8, <2>4, <3>1, <3>2 DEF Turn, Good, Same
  <2>5. QED
    BY <2>3, <2>4
<1>15. MirrorInv'
  BY <1>1, <1>7, <1>13, <1>14, MirrorStep
<1>16. Typed' /\ DownInv'
  BY <1>1, <1>9, <1>12, <1>13 DEF Typed, DownInv, Core, rows
<1>17. QED
  BY <1>10, <1>11, <1>12, <1>13, <1>15, <1>16 DEF Core


-----------------------------------------------------------------------------
(* Steps of the core: calls on a collection *)

(* What a worker calls for is of the kind it names. *)
LEMMA BatchFacts ==
  ASSUME Core, NEW w \in Workers, work[w].at = "write"
  PROVE  /\ Batched(w) \subseteq Of(work[w].kind)
         /\ \A x \in Items : work[w].batch[x] \in Nat
         /\ work[w].op \in {"edit", "delete", "ingest", "remove", "reindex", "all"}
         /\ work[w].op \in {"delete", "remove"} => Batched(w) = {}
         /\ work[w].op \in {"edit", "ingest"} => Batched(w) = {work[w].item}
         /\ work[w].op = "all" /\ work[w].kind = "kb" => Batched(w) = {work[w].item}
<1>1. /\ work[w] \in Work /\ Placed(w, work[w])
  BY WorkerFacts
<1>2. (\A x \in Items : work[w].batch[x] \in Nat) /\ work[w].kind \in {"canon", "kb"}
  BY <1>1 DEF Work, Kinds
<1>3. work[w].op \in {"edit", "delete", "ingest", "remove", "reindex", "all"}
  BY <1>1 DEF Placed, Work, Ops
<1>4. CASE work[w].op \in {"delete", "remove"}
  <2>1. Empty(work[w].batch)
    BY <1>1, <1>4 DEF Placed
  <2>2. Batched(w) = {}
    BY <2>1 DEF Batched, Empty
  <2>3. QED
    BY <1>2, <1>4, <2>2
<1>5. CASE work[w].op \in {"edit", "ingest"} \/ (work[w].op = "all" /\ work[w].kind = "kb")
  <2>1. Carries(work[w].batch, work[w].item) /\ work[w].item \in Of(work[w].kind)
    BY <1>1, <1>5 DEF Placed, OnItem
  <2>2. Batched(w) = {work[w].item}
    BY <1>2, <2>1 DEF Batched, Carries, Of
  <2>3. QED
    BY <1>2, <1>5, <2>1, <2>2
<1>6. CASE work[w].op \in {"reindex", "all"} /\ work[w].kind = "canon"
  <2>1. \A x \in Of("kb") : work[w].batch[x] = 0
    BY <1>1, <1>6 DEF Placed
  <2>2. \A x \in Batched(w) : x \in Of("canon")
    BY <1>2, <2>1, ItemFacts DEF Batched, Items
  <2>3. QED
    BY <1>2, <1>6, <2>2
<1>7. work[w].op = "reindex" => work[w].kind = "canon"
  BY <1>1 DEF Placed
<1>8. QED
  BY <1>2, <1>3, <1>4, <1>5, <1>6, <1>7

LEMMA OpenCore ==
  ASSUME Core, NEW w \in Workers, Open(w)
  PROVE  Core'
<1>0. PICK kind : kind = work[w].kind
  OBVIOUS
<1>1. /\ up /\ work[w].at = "open" /\ UNCHANGED <<up, stack, rows>> /\ Exposing({}, {})
      /\ CollectionSync(w, kind)
  BY <1>0 DEF Open, config
<1>2. /\ work[w] \in Work /\ Placed(w, work[w]) /\ AtVectors(w) = Where(work[w], stack)
      /\ \A x \in Items \ exposed : x \in AtVectors(w) => work[w].store = stack
      /\ kind \in Kinds /\ work[w].store \in Models /\ "write" \in Ats
  BY <1>0, WorkerFacts DEF Work, Ats, IndexSteps
<1>3. PICK r : r = [work[w] EXCEPT !.handle = TRUE, !.at = "write"]
  OBVIOUS
<1>4. /\ r \in Work /\ r.op = work[w].op /\ r.at = "write" /\ r.kind = kind
      /\ r.item = work[w].item /\ r.store = work[w].store /\ r.batch = work[w].batch
      /\ r.todo = work[w].todo
  BY <1>0, <1>2, <1>3 DEF Work
<1>5. Placed(w, r) \/ work[w].op = "search"
  <2>1. OnItem("canon", work[w]) <=> OnItem("canon", r)
    BY <1>0, <1>4 DEF OnItem
  <2>2. OnItem("kb", work[w]) <=> OnItem("kb", r)
    BY <1>0, <1>4 DEF OnItem
  <2>3. CASE work[w].op \in {"edit", "delete", "ingest", "remove"}
    BY <1>1, <1>2, <1>4, <2>1, <2>2, <2>3 DEF Placed
  <2>4. CASE work[w].op \in {"reindex", "all"}
    BY <1>0, <1>1, <1>2, <1>4, <2>4 DEF Placed
  <2>5. work[w].op \in {"edit", "delete", "ingest", "remove", "reindex", "all", "search"}
    BY <1>1, <1>2 DEF Placed, Work, Ops
  <2>6. QED
    BY <2>3, <2>4, <2>5
(* Whatever is not exposed is dropped with a collection only when there is  *)
(* nothing of it.                                                          *)
<1>6. /\ meta'[kind] = work[w].store /\ \A k \in Kinds \ {kind} : meta'[k] = meta[k]
      /\ meta' \in [Kinds -> Models \cup {Absent}]
      /\ vectors' \in [Items -> [by : Models \cup {Absent}, version : Nat]]
      /\ \A x \in Items : vectors'[x] = vectors[x] \/ vectors'[x] = Nothing
      /\ \A x \in Items : vectors'[x] = vectors[x]
                          \/ (Kind(x) = kind /\ meta[kind] # work[w].store)
      /\ FirstsAgree'
  <2>1. CASE meta[kind] = work[w].store
    <3>1. UNCHANGED store
      BY <1>1, <2>1 DEF CollectionSync
    <3>2. QED
      BY <2>1, <3>1 DEF store, Core, Typed, FirstsAgree
  <2>2. CASE meta[kind] # work[w].store
    <3>1. Dropped(kind, work[w].store)
      BY <1>1, <2>2 DEF CollectionSync
    <3>2. /\ meta' = [meta EXCEPT ![kind] = work[w].store]
          /\ vectors' = [x \in Items |-> IF Kind(x) = kind THEN Nothing ELSE vectors[x]]
          /\ Nothing \in [by : Models \cup {Absent}, version : Nat]
      BY <3>1 DEF Dropped, Nothing, Vector
    <3>3. FirstsAgree'
      BY <1>2, <3>2, ItemFacts DEF Core, Typed, FirstsAgree
    <3>4. QED
      BY <1>2, <2>2, <3>2, <3>3 DEF Core, Typed
  <2>3. QED
    BY <2>1, <2>2
<1>7. /\ Moves(w) /\ (work[w].op = "search" => work'[w] = Idle)
      /\ work[w].op # "search" => work'[w] = r
      /\ \A v \in Workers \ {w} :
           work'[v] = work[v] \/ (work[v].kind = kind /\ ~ work'[v].handle /\ work[v].at # "mark")
  <2>1. CASE meta[kind] = work[w].store
    <3>1. Holding(w, TRUE, kind, "write") /\ Typed
      BY <1>1, <2>1 DEF CollectionSync, Core
    <3>2. work[w].op # "search" => work'[w] = r
      BY <1>3, <3>1 DEF Holding
    <3>3. Moves(w) /\ (work[w].op = "search" => work'[w] = Idle)
      BY <1>2, <1>3, <1>5, <3>1, OpenedMoves
    <3>4. \A v \in Workers \ {w} : work'[v] = work[v]
      BY <1>2, <1>3, <1>5, <3>1, OpenedMoves
    <3>5. QED
      BY <3>2, <3>3, <3>4
  <2>2. CASE meta[kind] # work[w].store
    <3>1. Holding(w, FALSE, kind, "write") /\ Typed
      BY <1>1, <2>2 DEF CollectionSync, Core
    <3>2. work[w].op # "search" => work'[w] = r
      BY <1>3, <3>1 DEF Holding
    <3>3. Moves(w) /\ (work[w].op = "search" => work'[w] = Idle)
      BY <1>2, <1>3, <1>5, <3>1, DroppedMoves
    <3>4. \A v \in Workers \ {w} :
           IF work[v].kind = kind /\ work[v].at # "mark"
           THEN work'[v].handle = FALSE ELSE work'[v] = work[v]
      BY <1>2, <1>3, <1>5, <3>1, DroppedMoves
    <3>5. QED
      BY <3>2, <3>3, <3>4
  <2>3. QED
    BY <2>1, <2>2
<1>8. HandleInv'
  <2>1. ASSUME NEW v \in Workers, work'[v].at = "write", work'[v].handle
        PROVE  meta'[work'[v].kind] = work'[v].store
    <3>1. CASE v = w
      BY <1>4, <1>6, <1>7, <2>1, <3>1, IdleFacts
    <3>2. CASE v # w
      <4>1. work'[v] = work[v]
        BY <1>7, <2>1, <3>2
      <4>2. work[v].kind \in Kinds /\ meta[work[v].kind] = work[v].store
        BY <2>1, <4>1 DEF Core, Typed, HandleInv, Work
      <4>3. CASE work[v].kind = kind /\ meta[kind] # work[w].store
        <5>1. Holding(w, FALSE, kind, "write")
          BY <1>1, <4>3 DEF CollectionSync
        <5>2. work'[v].handle = FALSE
          <6>1. work'[v] = [work[v] EXCEPT !.handle = FALSE] /\ work[v] \in Work
            BY <2>1, <3>2, <4>1, <4>3, <5>1 DEF Holding, Core, Typed
          <6>2. QED
            BY <6>1 DEF Work
        <5>3. QED
          BY <2>1, <5>2
      <4>4. CASE ~ (work[v].kind = kind /\ meta[kind] # work[w].store)
        BY <1>6, <4>1, <4>2, <4>4
      <4>5. QED
        BY <4>3, <4>4
    <3>3. QED
      BY <3>1, <3>2
  <2>2. QED
    BY <2>1 DEF HandleInv
<1>9. ASSUME NEW x \in Items, x \notin exposed', stack # NoModel, Good(x)
      PROVE  Turn(w, x)
  <2>1. x \notin exposed
    BY <1>1, <1>9 DEF Exposing
  <2>2. Same(x)
    <3>1. CASE Kind(x) = kind /\ meta[kind] # work[w].store /\ vectors[x] # Nothing
      <4>1. meta[kind] = stack
        BY <1>9, <3>1 DEF Core, FirstsAgree, Good
      <4>2. x \in AtVectors(w)
        BY <1>0, <1>1, <1>2, <3>1, <4>1, ItemFacts DEF Where, IndexSteps
      <4>3. QED
        BY <1>2, <2>1, <3>1, <4>1, <4>2
    <3>2. vectors'[x] = vectors[x]
      BY <1>6, <1>9, <3>1 DEF Same
    <3>3. QED
      BY <1>1, <3>2 DEF Same, rows
  <2>3. CASE work[w].op = "search"
    <3>1. AtVectors(w)' = {}
      BY <1>7, <2>3, WhereFacts, IdleFacts DEF Where, IndexSteps
    <3>2. x \notin AtVectors(w)
      BY <1>2, <2>1, <2>3 DEF Where
    <3>3. QED
      BY <1>9, <2>2, <3>1, <3>2 DEF Turn, Good, Same
  <2>4. CASE work[w].op # "search"
    <3>1. AtVectors(w)' = AtVectors(w)
      <4>1. AtVectors(w)' = Where(r, stack)
        BY <1>1, <1>7, <2>4, WhereFacts
      <4>2. QED
        BY <1>0, <1>1, <1>2, <1>4, <4>1 DEF Where, IndexSteps
    <3>2. Right(x) => Right(x)'
      BY <1>1, <2>2, RightKept
    <3>3. ASSUME x \in AtVectors(w), Doing(w, x)  PROVE Doing(w, x)'
      <4>1. work[w].op \in {"edit", "delete"} => x \in Entities
        <5>1. x \in Of(kind)
          BY <1>0, <1>2, <3>3, WhereInside
        <5>2. QED
          BY <1>0, <1>2, <5>1, ItemFacts DEF Placed, OnItem
      <4>2. work[w].op = "remove" => x \in Sources
        <5>1. x \in Of(kind)
          BY <1>0, <1>2, <3>3, WhereInside
        <5>2. QED
          BY <1>0, <1>2, <5>1, ItemFacts DEF Placed, OnItem
      <4>3. vectors'[x] = vectors[x] /\ entity' = entity /\ source' = source
        BY <1>1, <2>2 DEF Same, rows
      <4>4. CASE work[w].op \in {"edit", "delete", "ingest", "remove"}
        BY <1>1, <1>4, <1>7, <2>4, <3>3, <4>3, <4>4 DEF Doing
      <4>5. CASE work[w].op \in {"reindex", "all"}
        BY <1>0, <1>1, <1>4, <1>7, <2>4, <3>2, <3>3, <4>3, <4>5 DEF Doing
      <4>6. QED
        BY <3>3, <4>4, <4>5 DEF Doing
    <3>4. QED
      BY <1>9, <2>2, <3>1, <3>3 DEF Turn, Good, Same
  <2>5. QED
    BY <2>3, <2>4
<1>10. QED
  BY <1>1, <1>6, <1>7, <1>8, <1>9, CoreStep DEF Core, Typed, rows


LEMMA WriteCore ==
  ASSUME Core, NEW w \in Workers, Write(w)
  PROVE  Core'
<1>0. PICK kind, item, batch : /\ kind = work[w].kind /\ item = work[w].item
                               /\ batch = work[w].batch
  OBVIOUS
<1>1. up /\ work[w].at = "write" /\ UNCHANGED <<up, stack, rows, meta>>
  BY DEF Write, config
<1>2. /\ work[w] \in Work /\ Placed(w, work[w]) /\ AtVectors(w) = Where(work[w], stack)
      /\ \A x \in Items \ exposed : x \in AtVectors(w) => work[w].store = stack
      /\ AtVectors(w) \subseteq Of(kind)
      /\ kind \in Kinds /\ work[w].store \in Models /\ stack \in Models
  BY <1>0, WorkerFacts DEF Work
<1>3. CASE ~ work[w].handle
  <2>1. UNCHANGED store /\ FailTo(w) /\ Exposing({}, Spoilt(w))
    BY <1>1, <1>3 DEF Write, store
  <2>2. QED
    BY <1>1, <2>1, FailMoves, SpoiltStep
<1>4. CASE work[w].handle
  <2>1. /\ vectors' = [x \in Items |->
               CASE x \in Batched(w) -> Vector(work[w].store, batch[x])
                 [] x = item /\ work[w].op \in {"delete", "remove"} -> Nothing
                 [] OTHER -> vectors[x]]
        /\ AfterWrite(w) /\ Exposing({}, {})
    BY <1>0, <1>4 DEF Write
  <2>2. /\ Batched(w) \subseteq Of(kind) /\ \A x \in Items : batch[x] \in Nat
        /\ work[w].op \in {"edit", "delete", "ingest", "remove", "reindex", "all"}
        /\ work[w].op \in {"delete", "remove"} => Batched(w) = {}
        /\ work[w].op \in {"edit", "ingest"} => Batched(w) = {item}
        /\ work[w].op = "all" /\ kind = "kb" => Batched(w) = {item}
    BY <1>0, <1>1, BatchFacts
  <2>3. /\ \A x \in Batched(w) : vectors'[x] = Vector(work[w].store, batch[x])
        /\ work[w].op \in {"delete", "remove"} /\ item \in Items => vectors'[item] = Nothing
        /\ \A x \in Items \ Batched(w) :
             x # item \/ work[w].op \notin {"delete", "remove"} => vectors'[x] = vectors[x]
    <3>1. ASSUME NEW x \in Batched(w)  PROVE vectors'[x] = Vector(work[w].store, batch[x])
      <4>1. x \in Items /\ ~ (x = item /\ work[w].op \in {"delete", "remove"})
        BY <2>2, <3>1 DEF Batched
      <4>2. QED
        BY <2>1, <3>1, <4>1
    <3>2. ASSUME work[w].op \in {"delete", "remove"}, item \in Items  PROVE vectors'[item] = Nothing
      BY <2>1, <2>2, <3>2
    <3>3. ASSUME NEW x \in Items \ Batched(w), x # item \/ work[w].op \notin {"delete", "remove"}
          PROVE  vectors'[x] = vectors[x]
      BY <2>1, <3>3
    <3>4. QED
      BY <3>1, <3>2, <3>3
  <2>4. \A x \in Items : \/ x \in Batched(w) /\ vectors'[x] = Vector(work[w].store, batch[x])
                         \/ x \notin Batched(w) /\ vectors'[x] = Nothing
                         \/ x \notin Batched(w) /\ vectors'[x] = vectors[x]
    BY <2>2, <2>3
  <2>5. vectors' \in [Items -> [by : Models \cup {Absent}, version : Nat]]
    <3>1. ASSUME NEW x \in Items
          PROVE  vectors'[x] \in [by : Models \cup {Absent}, version : Nat]
      <4>1. Nothing \in [by : Models \cup {Absent}, version : Nat]
        BY DEF Nothing, Vector
      <4>2. vectors[x] \in [by : Models \cup {Absent}, version : Nat]
        BY DEF Core, Typed
      <4>3. Vector(work[w].store, batch[x]) \in [by : Models \cup {Absent}, version : Nat]
        BY <1>2, <2>2 DEF Vector
      <4>4. QED
        BY <2>4, <4>1, <4>2, <4>3
    <3>2. QED
      BY <2>1, <3>1
  <2>6. meta[kind] = work[w].store
    BY <1>0, <1>1, <1>4 DEF Core, HandleInv
  <2>7. FirstsAgree'
    <3>1. ASSUME NEW x \in Items, vectors'[x] # Nothing  PROVE vectors'[x].by = meta'[Kind(x)]
      <4>1. CASE x \in Batched(w)
        <5>1. Kind(x) = kind
          BY <2>2, <4>1 DEF Of
        <5>2. vectors'[x].by = work[w].store
          <6>1. vectors'[x] = Vector(work[w].store, batch[x])
            BY <2>3, <4>1
          <6>2. QED
            BY <6>1 DEF Vector
        <5>3. QED
          BY <1>1, <2>6, <5>1, <5>2
      <4>2. CASE x \notin Batched(w)
        BY <1>1, <2>4, <3>1, <4>2 DEF Core, FirstsAgree
      <4>3. QED
        BY <4>1, <4>2
    <3>2. QED
      BY <3>1 DEF FirstsAgree
(* Where the worker goes from here. *)
  <2>8. PICK at : at = IF work[w].op = "all"
                       THEN IF item = Absent THEN "sources" ELSE "settle"
                       ELSE IF work[w].op = "ingest" THEN "settle" ELSE "idle"
    OBVIOUS
  <2>9. IF at = "idle" THEN Finish(w) ELSE Goto(w, at)
    BY <1>0, <2>1, <2>2, <2>8 DEF AfterWrite
  <2>10. PICK r : r = IF at = "idle" THEN Idle ELSE [work[w] EXCEPT !.at = at]
    OBVIOUS
  <2>11. at # "idle" => /\ r \in Work /\ r.op = work[w].op /\ r.at = at /\ r.kind = kind
                        /\ r.item = item /\ r.store = work[w].store /\ r.batch = batch
                        /\ r.todo = work[w].todo
    BY <1>0, <1>2, <2>8, <2>10 DEF Work, Ats, IndexSteps
  <2>12. r \in Work /\ Placed(w, r)
    <3>1. CASE at = "idle"
      BY <2>10, <3>1, IdleFacts
    <3>2. CASE at # "idle"
      <4>1. OnItem("kb", work[w]) <=> OnItem("kb", r)
        BY <1>0, <2>11, <3>2 DEF OnItem
      <4>2. CASE work[w].op = "ingest"
        BY <1>1, <1>2, <2>8, <2>11, <3>2, <4>1, <4>2 DEF Placed
      <4>3. CASE work[w].op = "all" /\ kind = "canon"
        BY <1>0, <1>1, <1>2, <2>8, <2>11, <3>2, <4>3 DEF Placed
      <4>4. CASE work[w].op = "all" /\ kind = "kb"
        <5>1. item \in Of("kb") /\ item # Absent /\ w = Job
          BY <1>0, <1>1, <1>2, <4>4, ItemFacts DEF Placed, Of
        <5>2. QED
          BY <2>8, <2>11, <3>2, <4>4, <5>1 DEF Placed
      <4>5. QED
        BY <1>2, <2>8, <2>11, <3>2, <4>2, <4>3, <4>4 DEF Kinds
    <3>3. QED
      BY <3>1, <3>2
  <2>13. Moves(w) /\ work'[w] = r
    <3>1. work' = [work EXCEPT ![w] = r]
      BY <2>9, <2>10 DEF Finish, Goto, Core, Typed
    <3>2. QED
      BY <2>12, <3>1, SetMoves DEF Core
  <2>14. HandleInv'
    <3>1. ASSUME NEW v \in Workers, work'[v].at = "write", work'[v].handle
          PROVE  meta'[work'[v].kind] = work'[v].store
      <4>1. v # w
        BY <2>8, <2>10, <2>11, <2>13, <3>1, IdleFacts
      <4>2. work'[v] = work[v]
        BY <2>9, <4>1 DEF Finish, Goto, Core, Typed
      <4>3. QED
        BY <1>1, <3>1, <4>2 DEF Core, HandleInv
    <3>2. QED
      BY <3>1 DEF HandleInv
  <2>15. AtVectors(w)' = IF at = "idle" THEN {} ELSE AtVectors(w)
    <3>1. AtVectors(w)' = Where(r, stack)
      BY <1>1, <2>13, WhereFacts
    <3>2. CASE at = "idle"
      BY <2>10, <3>1, <3>2, IdleFacts DEF Where, IndexSteps
    <3>3. CASE at # "idle"
      BY <1>0, <1>1, <1>2, <2>8, <2>11, <3>1, <3>3 DEF Where, IndexSteps
    <3>4. QED
      BY <3>2, <3>3
  <2>16. ASSUME NEW x \in Items, x \notin exposed', stack # NoModel, Good(x)
         PROVE  Turn(w, x)
    <3>1. x \notin exposed
      BY <2>1, <2>16 DEF Exposing
    <3>2. entity' = entity /\ source' = source
      BY <1>1 DEF rows
    <3>3. ASSUME x \notin AtVectors(w)  PROVE vectors'[x] = vectors[x]
      <4>1. CASE work[w].op \in {"reindex", "all"}
        <5>1. x \notin Of(kind)
          BY <1>0, <1>1, <1>2, <3>3, <4>1 DEF Where, IndexSteps
        <5>2. QED
          BY <2>2, <2>3, <4>1, <5>1
      <4>2. CASE work[w].op \in {"edit", "delete", "ingest", "remove"}
        <5>1. item \in Of(kind)
          BY <1>0, <1>2, <4>2 DEF Placed, OnItem
        <5>2. x # item
          BY <1>0, <1>1, <1>2, <3>3, <4>2, <5>1 DEF Where, IndexSteps
        <5>3. x \notin Batched(w)
          BY <2>2, <4>2, <5>2
        <5>4. QED
          BY <2>3, <5>2, <5>3
      <4>3. QED
        BY <2>2, <4>1, <4>2
    <3>4. ASSUME x \in AtVectors(w)  PROVE vectors'[x] = Nothing \/ vectors'[x].by = stack
      <4>1. work[w].store = stack
        BY <1>2, <3>1, <3>4
      <4>2. Vector(work[w].store, batch[x]).by = stack
        BY <4>1 DEF Vector
      <4>3. vectors[x] = Nothing \/ vectors[x].by = stack
        BY <2>16 DEF Good
      <4>4. QED
        BY <2>4, <4>2, <4>3
    <3>5. ASSUME x \in AtVectors(w), Doing(w, x)
          PROVE  IF at = "idle" THEN Right(x)' ELSE Doing(w, x)'
      <4>1. work[w].store = stack /\ stack' = stack /\ x \in Of(kind)
        BY <1>1, <1>2, <3>1, <3>5
      <4>2. CASE work[w].op \in {"edit", "delete"}
        <5>1. x = item /\ x \in Entities /\ x \notin Sources /\ at = "idle"
          BY <1>0, <1>1, <1>2, <2>8, <3>5, <4>1, <4>2, ItemFacts
             DEF Placed, OnItem, Where, IndexSteps
        <5>2. CASE work[w].op = "edit"
          <6>1. batch[x] = entity[x] /\ batch[x] > 0 /\ x \in Batched(w)
            BY <1>0, <2>2, <3>5, <5>1, <5>2 DEF Doing, Batched
          <6>2. vectors'[x] = Vector(stack, entity[x])
            BY <2>3, <4>1, <6>1
          <6>3. QED
            BY <3>2, <4>1, <5>1, <6>1, <6>2 DEF Right, Wanted
        <5>3. CASE work[w].op = "delete"
          <6>1. vectors'[x] = Nothing /\ entity[x] = Gone
            BY <2>3, <3>5, <5>1, <5>3 DEF Doing
          <6>2. QED
            BY <3>2, <5>1, <6>1 DEF Right, Wanted, Gone
        <5>4. QED
          BY <4>2, <5>2, <5>3
      <4>3. CASE work[w].op = "remove"
        <5>1. x = item /\ x \notin Entities /\ at = "idle"
          BY <1>0, <1>1, <1>2, <2>8, <3>5, <4>1, <4>3, ItemFacts
             DEF Placed, OnItem, Where, IndexSteps
        <5>2. vectors'[x] = Nothing /\ source[x].status = "gone"
          BY <1>1, <2>3, <3>5, <4>3, <5>1 DEF Doing
        <5>3. Wanted(x)' = {Nothing}
          BY <3>2, <5>1, <5>2 DEF Wanted
        <5>4. QED
          BY <5>1, <5>2, <5>3 DEF Right
      <4>4. CASE work[w].op = "ingest"
        <5>1. x = item /\ at = "settle"
          BY <1>0, <1>1, <1>2, <2>8, <3>5, <4>1, <4>4 DEF Where, IndexSteps
        <5>2. batch[item] = 1
          BY <1>0, <1>1, <1>2, <4>4 DEF Placed
        <5>3. vectors'[x] = Vector(stack', 1)
          BY <2>2, <2>3, <4>1, <4>4, <5>1, <5>2
        <5>4. QED
          BY <2>11, <2>13, <4>4, <5>1, <5>3 DEF Doing
      <4>5. CASE work[w].op \in {"reindex", "all"} /\ kind = "canon"
        <5>1. item = Absent /\ x \in Entities /\ x \notin Sources /\ x # item
          BY <1>0, <1>2, <4>1, <4>5, ItemFacts DEF Placed
        <5>2. vectors[x] = Nothing /\ batch[x] = IF entity[x] > 0 THEN entity[x] ELSE 0
          BY <1>0, <1>1, <3>5, <4>5 DEF Doing
        <5>3. Right(x)'
          <6>1. CASE entity[x] > 0
            <7>1. x \in Batched(w)
              BY <1>0, <5>2, <6>1 DEF Batched
            <7>2. vectors'[x] = Vector(stack, entity[x])
              BY <2>3, <4>1, <5>2, <6>1, <7>1
            <7>3. QED
              BY <3>2, <4>1, <5>1, <6>1, <7>2 DEF Right, Wanted
          <6>2. CASE ~ entity[x] > 0
            <7>1. x \notin Batched(w)
              BY <1>0, <5>2, <6>2 DEF Batched
            <7>2. vectors'[x] = Nothing
              BY <2>3, <5>1, <5>2, <7>1
            <7>3. QED
              BY <3>2, <5>1, <6>2, <7>2 DEF Right, Wanted
          <6>3. QED
            BY <6>1, <6>2
        <5>4. CASE work[w].op = "all"
          <6>1. at = "sources"
            BY <2>8, <5>1, <5>4
          <6>2. QED
            BY <2>11, <2>13, <4>5, <5>3, <5>4, <6>1 DEF Doing
        <5>5. CASE work[w].op = "reindex"
          BY <2>8, <5>3, <5>5
        <5>6. QED
          BY <4>5, <5>4, <5>5
      <4>6. CASE work[w].op = "all" /\ kind = "kb"
        <5>1. item # Absent /\ batch[item] = 1 /\ at = "settle"
          BY <1>0, <1>1, <1>2, <2>8, <4>6, ItemFacts DEF Placed, Of
        <5>2. \/ x \in work[w].todo \/ x = item \/ (x # item /\ Right(x))
          BY <1>0, <1>1, <3>5, <4>6 DEF Doing
        <5>3. x # item /\ Right(x) => Right(x)'
          <6>1. x # item => vectors'[x] = vectors[x]
            BY <2>2, <2>3, <4>6
          <6>2. QED
            BY <3>2, <4>1, <6>1, RightKept DEF Same
        <5>4. x = item => vectors'[x] = Vector(stack', 1)
          BY <2>2, <2>3, <4>1, <4>6, <5>1
        <5>5. QED
          BY <2>11, <2>13, <4>6, <5>1, <5>2, <5>3, <5>4 DEF Doing
      <4>7. kind \in {"canon", "kb"} /\ (work[w].op = "reindex" => kind = "canon")
        BY <1>0, <1>2 DEF Kinds, Placed
      <4>8. QED
        BY <2>2, <4>2, <4>3, <4>4, <4>5, <4>6, <4>7
    <3>6. QED
      BY <2>15, <2>16, <3>2, <3>3, <3>4, <3>5 DEF Turn, Good, Same
  <2>17. QED
    BY <1>1, <2>1, <2>5, <2>7, <2>13, <2>14, <2>16, CoreStep DEF Core, Typed, rows
<1>5. QED
  BY <1>3, <1>4


-----------------------------------------------------------------------------
(* Steps of the core: the job *)

LEMMA StartReindexCore ==
  ASSUME Core, StartReindex
  PROVE  Core'
<1>0. Job \in Workers
  BY DEF Workers
<1>1. /\ up /\ work[Job] = Idle /\ AtVectors(Job) = {} /\ UNCHANGED <<up, stack, rows, store>>
      /\ Exposing({}, {}) /\ work' = [work EXCEPT ![Job] = Started(Job)]
  BY <1>0, FreeFacts DEF StartReindex, config, Core
<1>2. PICK r : r = Started(Job)
  OBVIOUS
<1>3. /\ r \in Work /\ r.op = "all" /\ r.at = "begin" /\ r.kind = "canon" /\ r.item = Absent
      /\ Empty(r.batch)
  BY <1>2, IdleFacts DEF Started, Work, Ops, Ats, Empty
<1>4. Placed(Job, r)
  BY <1>3, ItemFacts DEF Placed, Empty, Items
<1>5. Moves(Job) /\ work'[Job] = r
  BY <1>0, <1>1, <1>2, <1>3, <1>4, SetMoves DEF Core
<1>6. AtVectors(Job)' = {}
  BY <1>0, <1>3, <1>5, WhereFacts DEF Where, IndexSteps
<1>7. QED
  BY <1>0, <1>1, <1>3, <1>5, <1>6, QuietStep

LEMMA JobFacts ==
  ASSUME Core, work[Job].op = "all"
  PROVE  /\ Job \in Workers /\ work[Job] \in Work /\ Placed(Job, work[Job])
         /\ work[Job].kind \in {"canon", "kb"}
         /\ AtVectors(Job) = Where(work[Job], stack)
         /\ work[Job].at \in IndexSteps => AtVectors(Job) = Of(work[Job].kind)
         /\ \A x \in Items \ exposed : x \in AtVectors(Job) => work[Job].store = stack
<1>1. Job \in Workers
  BY DEF Workers
<1>2. QED
  BY <1>1, WorkerFacts DEF Work, Kinds, Where

LEMMA BeginJobCore ==
  ASSUME Core, BeginJob
  PROVE  Core'
<1>1. /\ up /\ work[Job].op = "all" /\ work[Job].at = "begin"
      /\ UNCHANGED <<up, stack, rows, store>> /\ Exposing({}, {})
      /\ IF stack = NoModel THEN Finish(Job)
         ELSE work' = [work EXCEPT ![Job].store = stack, ![Job].at = "drop"]
  BY DEF BeginJob, At, config
<1>2. /\ Job \in Workers /\ work[Job] \in Work /\ Placed(Job, work[Job])
      /\ AtVectors(Job) = {} /\ work[Job].kind \in {"canon", "kb"} /\ stack \in Models
  BY <1>1, JobFacts DEF Where, IndexSteps, Core, Typed
<1>3. work[Job].kind = "canon"
  BY <1>1, <1>2 DEF Placed
<1>4. \A x : Same(x)
  BY <1>1 DEF Same, rows, store
<1>5. CASE stack = NoModel
  BY <1>1, <1>2, <1>4, <1>5, DoneStep DEF Core, Typed, rows
<1>6. CASE stack # NoModel
  <2>1. PICK r : r = [work[Job] EXCEPT !.store = stack, !.at = "drop"]
    OBVIOUS
  <2>2. /\ r \in Work /\ r.op = "all" /\ r.at = "drop" /\ r.kind = "canon"
        /\ r.item = work[Job].item /\ r.batch = work[Job].batch
    BY <1>1, <1>2, <1>3, <2>1 DEF Work, Ats, IndexSteps
  <2>3. Placed(Job, r)
    BY <1>1, <1>2, <1>3, <2>2 DEF Placed
  <2>4. Moves(Job) /\ work'[Job] = r
    <3>1. work' = [work EXCEPT ![Job] = r]
      BY <1>1, <1>2, <1>6, <2>1 DEF Core, Typed
    <3>2. QED
      BY <1>2, <2>2, <2>3, <3>1, SetMoves DEF Core
  <2>5. \A x : Doing(Job, x)'
    BY <2>2, <2>4 DEF Doing
  <2>6. HandleInv' /\ FirstsAgree'
    BY <1>1, <1>2, <2>2, <2>4, StoreKept
  <2>7. \A x \in Items : stack # NoModel /\ Good(x) => Turn(Job, x)
    BY <1>2, <1>4, <2>5 DEF Turn, Good, Same
  <2>8. QED
    BY <1>1, <1>2, <2>4, <2>6, <2>7, CoreStep DEF Core, Typed, rows, store
<1>7. QED
  BY <1>5, <1>6

LEMMA ListSourcesCore ==
  ASSUME Core, ListSources
  PROVE  Core'
<1>0. PICK listed : listed = {s \in Sources : source[s].status \notin {"none", "gone"}}
  OBVIOUS
<1>1. /\ up /\ work[Job].op = "all" /\ work[Job].at = "sources"
      /\ UNCHANGED <<up, stack, rows, store>> /\ Exposing({}, {})
      /\ \/ Finish(Job)
         \/ work' = [work EXCEPT ![Job].at = "drop", ![Job].kind = "kb",
                      ![Job].todo = listed, ![Job].batch = [x \in Items |-> 0]]
  BY <1>0 DEF ListSources, EndJob, At, config
<1>2. /\ Job \in Workers /\ work[Job] \in Work /\ Placed(Job, work[Job])
      /\ work[Job].kind \in {"canon", "kb"} /\ AtVectors(Job) = Of(work[Job].kind)
  BY <1>1, JobFacts DEF IndexSteps
<1>3. work[Job].kind = "canon" /\ work[Job].item = Absent /\ AtVectors(Job) = Entities
  BY <1>1, <1>2, ItemFacts DEF Placed
<1>4. \A x : Same(x)
  BY <1>1 DEF Same, rows, store
<1>5. \A x \in Items : (Doing(Job, x) => Right(x)) /\ (Right(x) => Right(x)')
  BY <1>1, <1>3, <1>4, RightKept DEF Doing
<1>6. CASE Finish(Job)
  BY <1>1, <1>2, <1>4, <1>5, <1>6, DoneStep DEF Core, Typed, rows
<1>7. CASE work' = [work EXCEPT ![Job].at = "drop", ![Job].kind = "kb",
                      ![Job].todo = listed, ![Job].batch = [x \in Items |-> 0]]
  <2>1. PICK r : r = [work[Job] EXCEPT !.at = "drop", !.kind = "kb", !.todo = listed,
                                       !.batch = [x \in Items |-> 0]]
    OBVIOUS
  <2>2. /\ r \in Work /\ r.op = "all" /\ r.at = "drop" /\ r.kind = "kb"
        /\ r.item = Absent /\ r.todo = listed /\ Empty(r.batch)
    BY <1>0, <1>1, <1>2, <1>3, <2>1 DEF Work, Ats, IndexSteps, Kinds, Empty
  <2>3. Placed(Job, r)
    BY <2>2 DEF Placed
  <2>4. Moves(Job) /\ work'[Job] = r
    <3>1. work' = [work EXCEPT ![Job] = r]
      BY <1>2, <1>7, <2>1 DEF Core, Typed
    <3>2. QED
      BY <1>2, <2>2, <2>3, <3>1, SetMoves DEF Core
  <2>5. AtVectors(Job)' = Sources
    <3>1. AtVectors(Job)' = Where(r, stack)
      BY <1>1, <1>2, <2>4, WhereFacts
    <3>2. QED
      BY <2>2, <3>1, ItemFacts DEF Where, IndexSteps
  <2>6. ASSUME NEW x \in Sources, Right(x)  PROVE Doing(Job, x)'
    <3>1. x # Absent /\ Right(x)'
      BY <1>5, <2>6, ItemFacts DEF Items
    <3>2. x \in listed \/ source'[x].status \in {"none", "gone"}
      BY <1>0, <1>1 DEF rows
    <3>3. QED
      BY <2>2, <2>4, <3>1, <3>2 DEF Doing
  <2>7. HandleInv' /\ FirstsAgree'
    BY <1>1, <1>2, <2>2, <2>4, StoreKept
  <2>8. \A x \in Items : stack # NoModel /\ Good(x) => Turn(Job, x)
    BY <1>3, <1>4, <1>5, <2>5, <2>6, ItemFacts DEF Turn, Good, Same
  <2>9. QED
    BY <1>1, <1>2, <2>4, <2>7, <2>8, CoreStep DEF Core, Typed, rows, store
<1>8. QED
  BY <1>1, <1>6, <1>7

LEMMA ReadSourceCore ==
  ASSUME Core, NEW s \in Sources, ReadSource(s)
  PROVE  Core'
<1>1. /\ up /\ work[Job].op = "all" /\ work[Job].at = "read" /\ s \in work[Job].todo
      /\ UNCHANGED <<up, stack, rows, store>>
  BY DEF ReadSource, At, config
<1>2. /\ Job \in Workers /\ work[Job] \in Work /\ Placed(Job, work[Job])
      /\ work[Job].kind \in {"canon", "kb"} /\ AtVectors(Job) = Of(work[Job].kind)
  BY <1>1, JobFacts DEF IndexSteps
<1>3. /\ work[Job].kind = "kb" /\ work[Job].item = Absent /\ AtVectors(Job) = Sources
      /\ Empty(work[Job].batch)
  BY <1>1, <1>2, ItemFacts DEF Placed, Of
<1>4. \A x : Same(x)
  BY <1>1 DEF Same, rows, store
<1>5. CASE source[s].status = "gone"
  <2>1. Finish(Job) /\ Exposing({}, Sources)
    BY <1>3, <1>5 DEF ReadSource, Spoilt
  <2>2. Sources \in SUBSET Items
    BY DEF Items
  <2>3. QED
    BY <1>1, <1>2, <1>3, <1>4, <2>1, <2>2, DoneStep DEF Core, Typed, rows
<1>6. CASE source[s].status # "gone"
  <2>1. /\ work' = [work EXCEPT ![Job].todo = @ \ {s}, ![Job].item = s, ![Job].at = "mark"]
        /\ Exposing({}, {})
    BY <1>6 DEF ReadSource
  <2>2. PICK r : r = [work[Job] EXCEPT !.todo = @ \ {s}, !.item = s, !.at = "mark"]
    OBVIOUS
  <2>3. /\ r \in Work /\ r.op = "all" /\ r.at = "mark" /\ r.kind = "kb" /\ r.item = s
        /\ r.todo = work[Job].todo \ {s} /\ r.batch = work[Job].batch
    BY <1>1, <1>2, <1>3, <2>2 DEF Work, Ats, IndexSteps, Items
  <2>4. Placed(Job, r)
    BY <1>3, <2>3, ItemFacts DEF Placed
  <2>5. Moves(Job) /\ work'[Job] = r
    <3>1. work' = [work EXCEPT ![Job] = r]
      BY <1>2, <2>1, <2>2 DEF Core, Typed
    <3>2. QED
      BY <1>2, <2>3, <2>4, <3>1, SetMoves DEF Core
  <2>6. AtVectors(Job)' = AtVectors(Job)
    <3>1. AtVectors(Job)' = Where(r, stack)
      BY <1>1, <1>2, <2>5, WhereFacts
    <3>2. QED
      BY <1>3, <2>3, <3>1, ItemFacts DEF Where, IndexSteps
  <2>7. ASSUME NEW x \in Items, x \in AtVectors(Job), Doing(Job, x)  PROVE Doing(Job, x)'
    <3>1. x \in work[Job].todo \/ Right(x)
      BY <1>1, <1>3, <2>7, ItemFacts DEF Doing
    <3>2. Right(x) => Right(x)'
      BY <1>1, <1>4, RightKept
    <3>3. QED
      BY <2>3, <2>5, <3>1, <3>2 DEF Doing
  <2>8. QED
    BY <1>1, <1>2, <2>1, <2>3, <2>5, <2>6, <2>7, QuietStep
<1>7. QED
  BY <1>5, <1>6

LEMMA AllReadCore ==
  ASSUME Core, AllRead
  PROVE  Core'
<1>1. /\ up /\ work[Job].op = "all" /\ work[Job].at = "read" /\ work[Job].todo = {}
      /\ UNCHANGED <<up, stack, rows, store>> /\ Exposing({}, {}) /\ Finish(Job)
  BY DEF AllRead, EndJob, At
<1>2. /\ Job \in Workers /\ work[Job] \in Work /\ Placed(Job, work[Job])
      /\ work[Job].kind \in {"canon", "kb"}
  BY <1>1, JobFacts
<1>3. work[Job].kind = "kb" /\ work[Job].item = Absent
  BY <1>1, <1>2 DEF Placed
<1>4. \A x : Same(x)
  BY <1>1 DEF Same, rows, store
<1>5. \A x \in Items : Doing(Job, x) => Right(x)
  BY <1>1, <1>3, ItemFacts DEF Doing
<1>6. \A x \in Items : Right(x) => Right(x)'
  BY <1>1, <1>4, RightKept
<1>7. QED
  BY <1>1, <1>2, <1>4, <1>5, <1>6, DoneStep DEF Core, Typed, rows


-----------------------------------------------------------------------------
(* Steps of the core: settings, and the process *)

LEMMA SavingCore ==
  ASSUME Core, NEW w \in Workers, BuildFirst(w) \/ Persist(w) \/ PersistFails(w)
  PROVE  Core'
<1>1. /\ up /\ work[w].op = "save" /\ UNCHANGED <<up, stack, rows, store>> /\ Exposing({}, {})
      /\ work[w].at \in {"lock", "persist"}
  BY DEF BuildFirst, Persist, PersistFails, At
<1>2. work[w] \in Work /\ Placed(w, work[w]) /\ AtVectors(w) = {}
  BY <1>1, WorkerFacts DEF Where, IndexSteps
<1>3. CASE Finish(w)
  <2>1. \A x : Same(x)
    BY <1>1 DEF Same, rows, store
  <2>2. QED
    BY <1>1, <1>2, <1>3, <2>1, DoneStep DEF Core, Typed, rows
<1>4. ASSUME NEW at \in {"persist", "apply"}, Goto(w, at)  PROVE Core'
  <2>1. PICK r : r = [work[w] EXCEPT !.at = at]
    OBVIOUS
  <2>2. r \in Work /\ r.op = "save" /\ r.at = at
    BY <1>1, <1>2, <1>4, <2>1 DEF Work, Ats
  <2>3. Placed(w, r)
    BY <1>1, <1>2, <1>4, <2>2 DEF Placed
  <2>4. Moves(w) /\ work'[w] = r
    <3>1. work' = [work EXCEPT ![w] = r]
      BY <1>4, <2>1 DEF Goto, Core, Typed
    <3>2. QED
      BY <2>2, <2>3, <3>1, SetMoves DEF Core
  <2>5. AtVectors(w)' = {}
    <3>1. AtVectors(w)' = Where(r, stack)
      BY <1>1, <2>4, WhereFacts
    <3>2. QED
      BY <1>4, <2>2, <3>1 DEF Where, IndexSteps
  <2>6. QED
    BY <1>1, <1>2, <1>4, <2>2, <2>4, <2>5, QuietStep
<1>5. QED
  BY <1>3, <1>4 DEF BuildFirst, Persist, PersistFails

LEMMA ApplyCore ==
  ASSUME Core, NEW w \in Workers, Apply(w)
  PROVE  Core'
<1>0. PICK model : model = Model(Merged(running, work[w].patch), release)
  OBVIOUS
<1>1. /\ up /\ work[w].op = "save" /\ work[w].at = "apply" /\ UNCHANGED <<up, rows, store>>
      /\ stack' = model /\ model \in Models
      /\ Exposing({}, IF model # stack THEN Items ELSE {})
  BY <1>0, ModelFacts DEF Apply, At
<1>3. work[w] \in Work /\ Placed(w, work[w]) /\ AtVectors(w) = {} /\ w # Job
  BY <1>1, WorkerFacts DEF Where, IndexSteps, Placed
<1>2. work' = [v \in Workers |-> work'[v]] /\ work'[w] = Idle
  <2>1. PICK f : work' = [v \in Workers |-> f[v]]
    BY DEF Apply
  <2>2. work'[w] = Idle
    BY <1>3 DEF Apply
  <2>3. QED
    BY <2>1, <2>2
<1>7. ASSUME NEW v \in Workers \ {w}
      PROVE  work'[v] = work[v] \/ (v = Job /\ model # stack /\ work'[v] = Started(Job))
  <2>1. CASE v = Job /\ model # stack /\ model # NoModel /\ progress # "running"
    BY <1>0, <1>7, <2>1 DEF Apply
  <2>2. CASE ~ (v = Job /\ model # stack /\ model # NoModel /\ progress # "running")
    BY <1>0, <1>7, <2>2 DEF Apply
  <2>3. QED
    BY <2>1, <2>2
<1>4. CASE model = stack
  <2>1. Finish(w)
    BY <1>2, <1>4, <1>7 DEF Finish, Core, Typed
  <2>2. \A x : Same(x)
    BY <1>1 DEF Same, rows, store
  <2>3. QED
    BY <1>1, <1>3, <1>4, <2>1, <2>2, DoneStep DEF Core, Typed, rows
<1>5. CASE model # stack
  <2>1. Started(Job) \in Work /\ Placed(Job, Started(Job)) /\ Started(Job).at = "begin"
    <3>1. PICK r : r = Started(Job)
      OBVIOUS
    <3>2. /\ r \in Work /\ r.op = "all" /\ r.at = "begin" /\ r.kind = "canon" /\ r.item = Absent
          /\ Empty(r.batch)
      BY <3>1, IdleFacts DEF Started, Work, Ops, Ats, Empty
    <3>3. Placed(Job, r)
      BY <3>2, ItemFacts DEF Placed, Empty, Items
    <3>4. QED
      BY <3>1, <3>2, <3>3
  <2>2. \A v \in Workers : work[v] \in Work /\ Placed(v, work[v])
    BY DEF Core, Typed, PlaceInv
  <2>3. \A v \in Workers : work'[v] \in Work /\ Placed(v, work'[v])
    BY <1>2, <1>7, <2>1, <2>2, IdleFacts
  <2>4. PlaceInv' /\ work' \in [Workers -> Work]
    BY <1>2, <2>3 DEF PlaceInv
  <2>5. Items \in SUBSET Items /\ Items \subseteq exposed'
    BY <1>1, <1>5 DEF Exposing
  <2>6. exposed' \subseteq Items /\ ApartInv'
    BY <1>1, <1>5, <2>4, <2>5, ExposedTyped DEF Core
  <2>7. MirrorInv'
    BY <2>5 DEF MirrorInv
  <2>8. \A v \in Workers : work'[v].at = "write" => work'[v] = work[v]
    BY <1>2, <1>7, <2>1, IdleFacts
  <2>9. HandleInv'
    BY <1>1, <2>8 DEF HandleInv, Core, store
  <2>10. FirstsAgree'
    BY <1>1 DEF FirstsAgree, Core, store
  <2>11. Typed' /\ DownInv'
    BY <1>1, <2>4, <2>6 DEF Typed, DownInv, Core, rows, store
  <2>12. QED
    BY <2>4, <2>6, <2>7, <2>9, <2>10, <2>11 DEF Core
<1>6. QED
  BY <1>4, <1>5

LEMMA KillCore ==
  ASSUME Core, Kill
  PROVE  Core'
<1>1. /\ up' = FALSE /\ UNCHANGED <<stack, rows, store>> /\ lock' = Absent
      /\ work' = [w \in Workers |-> Idle] /\ exposed' = exposed \cup Busy
  BY DEF Kill
<1>2. \A w \in Workers : work'[w] = Idle /\ AtVectors(w)' = {}
  BY <1>1, WhereFacts, IdleFacts DEF Where, IndexSteps
<1>3. PlaceInv' /\ DownInv' /\ work' \in [Workers -> Work]
  BY <1>1, <1>2, IdleFacts DEF PlaceInv, DownInv
<1>4. HandleInv'
  BY <1>2, IdleFacts DEF HandleInv
<1>5. FirstsAgree'
  BY <1>1 DEF FirstsAgree, Core, store
<1>6. ApartInv'
  BY <1>2 DEF ApartInv, Contended, Foreign, Active
<1>7. exposed' \subseteq Items
  <2>1. \A w \in Workers : AtVectors(w) \subseteq Items
    BY WorkerFacts
  <2>2. QED
    BY <1>1, <2>1 DEF Busy, Core, Typed
<1>8. MirrorInv'
  <2>1. SUFFICES ASSUME NEW x \in Items, x \notin exposed', stack # NoModel  PROVE Good(x)'
    BY <1>1 DEF MirrorInv
  <2>2. Good(x) /\ Same(x) /\ \A w \in Workers : x \notin AtVectors(w)
    BY <1>1, <2>1 DEF Core, MirrorInv, Busy, Same, rows, store
  <2>3. Right(x)'
    BY <1>1, <2>2, RightKept DEF Good
  <2>4. QED
    BY <1>1, <1>2, <2>2, <2>3 DEF Good, Same
<1>9. Typed'
  BY <1>1, <1>3, <1>7 DEF Typed, Core, rows, store
<1>10. QED
  BY <1>3, <1>4, <1>5, <1>6, <1>8, <1>9 DEF Core

LEMMA StartCore ==
  ASSUME Core, NEW upgrade, Start(upgrade)
  PROVE  Core'
<1>0. PICK model : model = Model(overrides, upgrade)
  OBVIOUS
<1>1. /\ ~ up /\ up' = TRUE /\ stack' = model /\ model \in Models
      /\ UNCHANGED <<lock, rows, store, work>>
      /\ exposed' = exposed \cup (IF model # stack THEN Items ELSE {})
  BY <1>0, ModelFacts DEF Start
<1>2. \A w \in Workers : work[w] = Idle /\ work'[w] = Idle /\ AtVectors(w)' = {} /\ AtVectors(w) = {}
  BY <1>1, WhereFacts, IdleFacts DEF Where, IndexSteps, Core, DownInv
<1>3. PlaceInv' /\ DownInv'
  BY <1>1, <1>2, IdleFacts DEF PlaceInv, DownInv
<1>4. HandleInv'
  BY <1>2, IdleFacts DEF HandleInv
<1>5. FirstsAgree'
  BY <1>1 DEF FirstsAgree, Core, store
<1>6. ApartInv'
  BY <1>2 DEF ApartInv, Contended, Foreign, Active
<1>7. MirrorInv'
  <2>1. SUFFICES ASSUME NEW x \in Items, x \notin exposed', stack' # NoModel  PROVE Good(x)'
    BY DEF MirrorInv
  <2>2. stack' = stack /\ Good(x) /\ Same(x)
    BY <1>1, <2>1 DEF Core, MirrorInv, Same, rows, store
  <2>3. Right(x)'
    BY <1>2, <2>2, RightKept DEF Good
  <2>4. QED
    BY <1>2, <2>2, <2>3 DEF Good, Same
<1>8. Typed'
  BY <1>1 DEF Typed, Core, rows, store
<1>9. QED
  BY <1>3, <1>4, <1>5, <1>6, <1>7, <1>8 DEF Core

LEMMA StutterCore ==
  ASSUME Core, UNCHANGED vars
  PROVE  Core'
<1>1. UNCHANGED <<up, stack, entity, source, meta, vectors, work, exposed, lock>>
  BY DEF vars, config, rows, store
<1>2. \A w \in Workers : AtVectors(w)' = AtVectors(w) /\ Kept(w)
  BY <1>1, WhereFacts DEF Kept
<1>3. MirrorInv'
  <2>1. SUFFICES ASSUME NEW x \in Items \ exposed, stack # NoModel  PROVE Good(x)'
    BY <1>1 DEF MirrorInv
  <2>2. Good(x) /\ Same(x)
    BY <1>1, <2>1 DEF Core, MirrorInv, Same
  <2>3. Right(x)' <=> Right(x)
    BY <1>1, <2>2, RightKept
  <2>4. ASSUME NEW w \in Workers, x \in AtVectors(w)  PROVE Doing(w, x)'
    <3>1. x \in Of(work[w].kind) /\ Doing(w, x)
      BY <2>2, <2>4, WorkerFacts DEF Good
    <3>2. QED
      BY <1>1, <1>2, <2>1, <2>2, <3>1, DoingKept DEF Core
  <2>5. QED
    BY <1>1, <1>2, <2>2, <2>3, <2>4 DEF Good, Same
<1>4. ApartInv'
  BY <1>1, <1>2 DEF ApartInv, Contended, Foreign, Active, Core
<1>5. QED
  BY <1>1, <1>3, <1>4
     DEF Core, Typed, PlaceInv, DownInv, HandleInv, FirstsAgree


-----------------------------------------------------------------------------
(* Steps of the settings *)

LEMMA CoreNext ==
  ASSUME Core, [Next]_vars
  PROVE  Core'
<1>1. ASSUME NEW w \in Workers, Step(w)  PROVE Core'
  <2>1. CASE Open(w)
    BY <2>1, OpenCore
  <2>2. CASE Write(w)
    BY <2>2, WriteCore
  <2>3. CASE CallFails(w)
    BY <2>3, CallFailsCore
  <2>4. CASE CommitEdit(w) \/ CommitDelete(w)
    BY <2>4, CommitCore
  <2>5. CASE Mark(w)
    BY <2>5, MarkCore
  <2>6. CASE Settle(w)
    BY <2>6, SettleCore
  <2>7. CASE Fail(w)
    BY <2>7, FailCore
  <2>8. CASE CommitRemove(w)
    BY <2>8, CommitRemoveCore
  <2>9. CASE Drop(w)
    BY <2>9, DropCore
  <2>10. CASE List(w)
    BY <2>10, ListCore
  <2>11. CASE BuildFirst(w) \/ Persist(w) \/ PersistFails(w)
    BY <2>11, SavingCore
  <2>12. CASE Apply(w)
    BY <2>12, ApplyCore
  <2>13. QED
    BY <1>1, <2>1, <2>2, <2>3, <2>4, <2>5, <2>6, <2>7, <2>8, <2>9, <2>10, <2>11, <2>12
       DEF Step
<1>2. ASSUME NEW w \in Requests, Arrive(w)  PROVE Core'
  BY <1>2, ArriveCore
<1>3. CASE StartReindex \/ BeginJob \/ ListSources \/ AllRead
  BY <1>3, StartReindexCore, BeginJobCore, ListSourcesCore, AllReadCore
<1>4. ASSUME NEW s \in Sources, ReadSource(s)  PROVE Core'
  BY <1>4, ReadSourceCore
<1>5. CASE Kill
  BY <1>5, KillCore
<1>6. ASSUME NEW upgrade, Start(upgrade)  PROVE Core'
  BY <1>6, StartCore
<1>7. CASE UNCHANGED vars
  BY <1>7, StutterCore
<1>8. QED
  BY <1>1, <1>2, <1>3, <1>4, <1>5, <1>6, <1>7 DEF Next

(* A step of a worker that is not between building and applying, nor gets   *)
(* there, says nothing of the settings.                                    *)
Saving == {"persist", "apply"}
LEMMA ConfigKept ==
  ASSUME Typed, ConfigInv, UNCHANGED <<up, release, overrides, running, lock, stack>>,
         NEW w, work[w].at \notin Saving, work'[w].at \notin Saving,
         \A v \in Workers \ {w} :
           work'[v] = work[v] \/ work'[v] = [work[v] EXCEPT !.handle = FALSE]
  PROVE  ConfigInv'
<1>1. ASSUME NEW v \in Workers, NEW at \in Saving
      PROVE  /\ Saves(v, at)' <=> Saves(v, at)
             /\ Saves(v, at) => work'[v].patch = work[v].patch
  <2>1. CASE v = w
    BY <1>1, <2>1 DEF Saves
  <2>2. CASE v # w
    <3>1. work[v] \in Work
      BY DEF Typed
    <3>2. work'[v].op = work[v].op /\ work'[v].at = work[v].at /\ work'[v].patch = work[v].patch
      BY <2>2, <3>1 DEF Work
    <3>3. QED
      BY <3>2 DEF Saves
  <2>3. QED
    BY <2>1, <2>2
<1>2. \A v \in Workers :
        /\ Saves(v, "persist")' <=> Saves(v, "persist")
        /\ Saves(v, "apply")' <=> Saves(v, "apply")
        /\ Saves(v, "persist") \/ Saves(v, "apply") => work'[v].patch = work[v].patch
  BY <1>1 DEF Saving
<1>3. lock # Absent => lock \in Workers
  BY DEF ConfigInv, Workers
<1>4. QED
  BY <1>2, <1>3 DEF ConfigInv

LEMMA WorkerConfig ==
  ASSUME Core, ConfigInv, NEW w \in Workers, Step(w)
  PROVE  ConfigInv'
<1> USE DEF Core
<1>0. work[w] \in Work /\ Placed(w, work[w]) /\ Idle.at \notin Saving /\ Absent \notin Workers
  BY WorkerFacts, IdleFacts, ItemFacts DEF Saving
<1>1. ASSUME NEW at, at \notin Saving, Goto(w, at) \/ Finish(w), work[w].at \notin Saving,
             UNCHANGED <<up, release, overrides, running, lock, stack>>
      PROVE  ConfigInv'
  <2>1. work'[w].at \notin Saving
    BY <1>0, <1>1 DEF Goto, Finish, Typed, Work
  <2>2. \A v \in Workers \ {w} : work'[v] = work[v]
    BY <1>1 DEF Goto, Finish, Typed
  <2>3. QED
    BY <1>1, <2>1, <2>2, ConfigKept
<1>2. ASSUME NEW r, r.at \notin Saving, work' = [work EXCEPT ![w] = r], work[w].at \notin Saving,
             UNCHANGED <<up, release, overrides, running, lock, stack>>
      PROVE  ConfigInv'
  <2>1. work'[w].at \notin Saving /\ \A v \in Workers \ {w} : work'[v] = work[v]
    BY <1>2 DEF Typed
  <2>2. QED
    BY <1>2, <2>1, ConfigKept
<1>3. ASSUME NEW alive, NEW kind, NEW at, at \notin Saving, Holding(w, alive, kind, at),
             work[w].at \notin Saving,
             UNCHANGED <<up, release, overrides, running, lock, stack>>
      PROVE  ConfigInv'
  <2>1. work'[w].at \notin Saving
    BY <1>0, <1>3 DEF Holding, Work
  <2>2. \A v \in Workers \ {w} :
          work'[v] = work[v] \/ work'[v] = [work[v] EXCEPT !.handle = FALSE]
    BY <1>3 DEF Holding
  <2>3. QED
    BY <1>3, <2>1, <2>2, ConfigKept
<1>4. CASE Open(w)
  <2>1. Holding(w, TRUE, work[w].kind, "write") \/ Holding(w, FALSE, work[w].kind, "write")
    BY <1>4 DEF Open, CollectionSync
  <2>2. "write" \notin Saving /\ work[w].at \notin Saving
    BY <1>4 DEF Open, Saving
  <2>3. UNCHANGED <<up, release, overrides, running, lock, stack>>
    BY <1>4 DEF Open, config
  <2>4. QED
    BY <1>3, <2>1, <2>2, <2>3
<1>5. CASE Write(w) \/ CallFails(w)
  <2>1. Finish(w) \/ \E at \in {"fail", "settle", "sources"} : Goto(w, at)
    BY <1>5 DEF Write, CallFails, FailTo, AfterWrite
  <2>2. work[w].at \notin Saving /\ UNCHANGED <<up, release, overrides, running, lock, stack>>
    BY <1>5 DEF Write, CallFails, config, Saving
  <2>3. QED
    BY <1>1, <2>1, <2>2 DEF Saving
<1>6. CASE CommitEdit(w) \/ CommitDelete(w)
  <2>1. PICK version : Finish(w) \/ Indexing(w, version)
    BY <1>6 DEF CommitEdit, CommitDelete
  <2>2. work[w].at \notin Saving /\ UNCHANGED <<up, release, overrides, running, lock, stack>>
    BY <1>6 DEF CommitEdit, CommitDelete, At, config, Saving
  <2>3. CASE Finish(w)
    BY <1>1, <2>2, <2>3
  <2>4. CASE work' = [work EXCEPT ![w].at = "open", ![w].batch[work[w].item] = version]
    <3>1. PICK r : r = [work[w] EXCEPT !.at = "open", !.batch[work[w].item] = version]
      OBVIOUS
    <3>2. r.at \notin Saving
      BY <1>0, <3>1 DEF Saving, Work
    <3>3. work' = [work EXCEPT ![w] = r]
      BY <2>4, <3>1 DEF Typed
    <3>4. QED
      BY <1>2, <2>2, <3>2, <3>3
  <2>5. QED
    BY <2>1, <2>3, <2>4 DEF Indexing
<1>7. CASE Mark(w) \/ Settle(w) \/ Fail(w)
  <2>1. work[w].at \notin Saving /\ UNCHANGED <<up, release, overrides, running, lock, stack>>
    BY <1>7 DEF Mark, Settle, Fail, Ingesting, config, Saving
  <2>2. \/ Finish(w) \/ Goto(w, "settle") \/ NextSource(w)
        \/ work' = [work EXCEPT ![w].at = "open", ![w].batch[work[w].item] = 1]
    BY <1>7 DEF Mark, Settle, Fail, Settled, RowGone
  <2>3. CASE Finish(w) \/ Goto(w, "settle")
    BY <1>1, <2>1, <2>3 DEF Saving
  <2>4. CASE NextSource(w)
    <3>1. PICK r : r = [work[w] EXCEPT !.at = "read", !.item = Absent, !.batch = [x \in Items |-> 0]]
      OBVIOUS
    <3>2. r.at \notin Saving
      BY <1>0, <3>1 DEF Saving, Work
    <3>3. work' = [work EXCEPT ![w] = r]
      BY <2>4, <3>1 DEF NextSource, Typed
    <3>4. QED
      BY <1>2, <2>1, <3>2, <3>3
  <2>5. CASE work' = [work EXCEPT ![w].at = "open", ![w].batch[work[w].item] = 1]
    <3>1. PICK r : r = [work[w] EXCEPT !.at = "open", !.batch[work[w].item] = 1]
      OBVIOUS
    <3>2. r.at \notin Saving
      BY <1>0, <3>1 DEF Saving, Work
    <3>3. work' = [work EXCEPT ![w] = r]
      BY <2>5, <3>1 DEF Typed
    <3>4. QED
      BY <1>2, <2>1, <3>2, <3>3
  <2>6. QED
    BY <2>2, <2>3, <2>4, <2>5
<1>8. CASE CommitRemove(w)
  BY <1>1, <1>8 DEF CommitRemove, At, config, Saving
<1>9. CASE Drop(w)
  <2>1. PICK at \in {"list", "read"} : Holding(w, FALSE, work[w].kind, at)
    BY <1>9 DEF Drop
  <2>2. at \notin Saving /\ work[w].at \notin Saving
    BY <1>9, <2>1 DEF Drop, Saving
  <2>3. UNCHANGED <<up, release, overrides, running, lock, stack>>
    BY <1>9 DEF Drop, config
  <2>4. QED
    BY <1>3, <2>1, <2>2, <2>3
<1>10. CASE List(w)
  <2>1. work[w].at \notin Saving /\ UNCHANGED <<up, release, overrides, running, lock, stack>>
    BY <1>10 DEF List, config, Saving
  <2>2. \/ Finish(w) \/ Goto(w, "sources")
        \/ \E b : work' = [work EXCEPT ![w].at = "open", ![w].batch = b]
    BY <1>10 DEF List
  <2>3. ASSUME NEW b, work' = [work EXCEPT ![w].at = "open", ![w].batch = b]  PROVE ConfigInv'
    <3>1. PICK r : r = [work[w] EXCEPT !.at = "open", !.batch = b]
      OBVIOUS
    <3>2. r.at \notin Saving
      BY <1>0, <3>1 DEF Saving, Work
    <3>3. work' = [work EXCEPT ![w] = r]
      BY <2>3, <3>1 DEF Typed
    <3>4. QED
      BY <1>2, <2>1, <3>2, <3>3
  <2>4. QED
    BY <1>1, <2>1, <2>2, <2>3 DEF Saving
(* The settings lock is held from building to applying. *)
<1>11. ASSUME work[w].op = "save", up,
              \A v \in Workers \ {w} : work'[v] = work[v],
              \A v \in Workers \ {w} : ~ Saves(v, "persist") /\ ~ Saves(v, "apply")
       PROVE  \A v \in Workers \ {w} : ~ Saves(v, "persist")' /\ ~ Saves(v, "apply")'
  BY <1>11 DEF Saves
<1>12. work[w].op = "save" => w \in Requests /\ w # Absent
  BY <1>0 DEF Placed, Workers
<1>13. CASE BuildFirst(w)
  <2>1. /\ up /\ up' /\ Saves(w, "lock") /\ lock = Absent /\ work[w].op = "save"
        /\ UNCHANGED <<up, release, overrides, running, stack>>
    BY <1>13 DEF BuildFirst, At, Saves
  <2>2. \A v \in Workers : ~ Saves(v, "persist") /\ ~ Saves(v, "apply")
    BY <1>0, <2>1 DEF ConfigInv
  <2>3. CASE Buildable(Merged(running, work[w].patch))
    <3>1. lock' = w /\ Goto(w, "persist")
      BY <1>13, <2>3 DEF BuildFirst
    <3>2. /\ Saves(w, "persist")' /\ ~ Saves(w, "apply")' /\ work'[w].patch = work[w].patch
          /\ \A v \in Workers \ {w} : work'[v] = work[v]
      BY <1>0, <2>1, <3>1 DEF Goto, Saves, Typed, Work
    <3>3. \A v \in Workers \ {w} : ~ Saves(v, "persist")' /\ ~ Saves(v, "apply")'
      BY <1>11, <2>1, <2>2, <3>2
    <3>4. QED
      BY <1>12, <2>1, <2>3, <3>1, <3>2, <3>3 DEF ConfigInv
  <2>4. CASE ~ Buildable(Merged(running, work[w].patch))
    <3>1. UNCHANGED lock /\ Finish(w) /\ work[w].at \notin Saving
      BY <1>13, <2>4 DEF BuildFirst, At, Saving
    <3>2. QED
      BY <1>0, <1>1, <2>1, <3>1
  <2>5. QED
    BY <2>3, <2>4
<1>14. CASE Persist(w) \/ PersistFails(w) \/ Apply(w)
  <2>1. /\ up /\ up' /\ work[w].op = "save" /\ lock = w
        /\ ~ Apply(w) => Saves(w, "persist")
        /\ Apply(w) => Saves(w, "apply")
    BY <1>14 DEF Persist, PersistFails, Apply, At, Saves, ConfigInv
  <2>2. \A v \in Workers \ {w} : ~ Saves(v, "persist") /\ ~ Saves(v, "apply")
    BY <2>1 DEF ConfigInv
  <2>3. CASE Persist(w)
    <3>1. /\ overrides' = Merged(overrides, work[w].patch) /\ Goto(w, "apply")
          /\ UNCHANGED <<release, running, lock, stack>>
      BY <2>3 DEF Persist
    <3>2. /\ Saves(w, "apply")' /\ ~ Saves(w, "persist")' /\ work'[w].patch = work[w].patch
          /\ \A v \in Workers \ {w} : work'[v] = work[v]
      BY <1>0, <2>1, <3>1 DEF Goto, Saves, Typed, Work
    <3>3. \A v \in Workers \ {w} : ~ Saves(v, "persist")' /\ ~ Saves(v, "apply")'
      BY <1>11, <2>1, <2>2, <3>2
    <3>4. running = overrides /\ Buildable(Merged(running, work[w].patch))
      BY <1>12, <2>1, <2>3 DEF ConfigInv, Persist, At, Saves
    <3>5. QED
      BY <1>12, <2>1, <3>1, <3>2, <3>3, <3>4 DEF ConfigInv
  <2>4. CASE PersistFails(w)
    <3>1. lock' = Absent /\ Finish(w) /\ UNCHANGED <<release, overrides, running, stack>>
      BY <2>4 DEF PersistFails
    <3>2. ~ Saves(w, "apply")' /\ ~ Saves(w, "persist")' /\ \A v \in Workers \ {w} : work'[v] = work[v]
      BY <1>0, <3>1, IdleFacts DEF Finish, Saves, Typed
    <3>3. \A v \in Workers \ {w} : ~ Saves(v, "persist")' /\ ~ Saves(v, "apply")'
      BY <1>11, <2>1, <2>2, <3>2
    <3>4. running = overrides
      BY <1>12, <2>1, <2>4 DEF ConfigInv, PersistFails, At, Saves
    <3>5. QED
      BY <2>1, <3>1, <3>2, <3>3, <3>4 DEF ConfigInv
  <2>5. CASE Apply(w)
    <3>1. /\ running' = Merged(running, work[w].patch) /\ lock' = Absent
          /\ stack' = Model(running', release) /\ UNCHANGED <<release, overrides>>
      BY <2>5 DEF Apply
    <3>2. ASSUME NEW v \in Workers  PROVE ~ Saves(v, "persist")' /\ ~ Saves(v, "apply")'
      <4>1. CASE v = w
        <5>1. work'[w] = Idle
          BY <1>0, <2>1, <2>5 DEF Apply, Placed
        <5>2. QED
          BY <4>1, <5>1, IdleFacts DEF Saves
      <4>2. CASE v # w
        <5>1. work'[v] = work[v] \/ work'[v] = Started(v)
          BY <2>5, <4>2 DEF Apply
        <5>2. Started(v).at = "begin"
          BY IdleFacts DEF Started, Work
        <5>3. QED
          BY <2>2, <4>2, <5>1, <5>2 DEF Saves
      <4>3. QED
        BY <4>1, <4>2
    <3>3. overrides = running'
      BY <1>12, <2>1, <2>5, <3>1 DEF ConfigInv
    <3>4. QED
      BY <2>1, <3>1, <3>2, <3>3 DEF ConfigInv
  <2>6. QED
    BY <1>14, <2>3, <2>4, <2>5
<1>15. QED
  BY <1>4, <1>5, <1>6, <1>7, <1>8, <1>9, <1>10, <1>13, <1>14 DEF Step


LEMMA ConfigNext ==
  ASSUME Core, ConfigInv, [Next]_vars
  PROVE  ConfigInv'
<1> USE DEF Core
<1>0. Idle.at \notin Saving /\ Job \in Workers
  BY IdleFacts DEF Saving, Workers
<1>1. ASSUME NEW w \in Workers, Step(w)  PROVE ConfigInv'
  BY <1>1, WorkerConfig
<1>2. ASSUME NEW w \in Workers, NEW r, r.at \notin Saving, work' = [work EXCEPT ![w] = r],
             work[w].at \notin Saving,
             UNCHANGED <<up, release, overrides, running, lock, stack>>
      PROVE  ConfigInv'
  <2>1. work'[w].at \notin Saving /\ \A v \in Workers \ {w} : work'[v] = work[v]
    BY <1>2 DEF Typed
  <2>2. QED
    BY <1>2, <2>1, ConfigKept
<1>3. ASSUME NEW w \in Requests, Arrive(w)  PROVE ConfigInv'
  <2>1. /\ w \in Workers /\ work[w].at \notin Saving
        /\ UNCHANGED <<up, release, overrides, running, lock, stack>>
    BY <1>0, <1>3 DEF Workers, Arrive, Edit, DeleteEntity, Upload, Remove, Search, ReindexProject,
                      Save, Begin, Free, config
  <2>2. ASSUME NEW op, NEW at, at \notin Saving, NEW item, NEW kind, Begin(w, op, at, item, kind)
        PROVE  ConfigInv'
    <3>1. PICK r : r = [Idle EXCEPT !.op = op, !.at = at, !.store = stack, !.item = item,
                                    !.kind = kind]
      OBVIOUS
    <3>2. r.at \notin Saving /\ work' = [work EXCEPT ![w] = r]
      BY <2>2, <3>1, IdleFacts DEF Begin, Work
    <3>3. QED
      BY <1>2, <2>1, <3>2
  <2>3. ASSUME NEW s \in Sources, Upload(w, s)  PROVE ConfigInv'
    <3>1. PICK r : r = [Idle EXCEPT !.op = "ingest", !.at = "mark", !.store = stack, !.item = s,
                                    !.kind = "kb"]
      OBVIOUS
    <3>2. r.at \notin Saving /\ work' = [work EXCEPT ![w] = r]
      BY <2>3, <3>1, IdleFacts DEF Upload, Work, Saving
    <3>3. QED
      BY <1>2, <2>1, <3>2
  <2>4. ASSUME NEW s \in Sources, Remove(w, s)  PROVE ConfigInv'
    <3>1. PICK r : r = [Idle EXCEPT !.op = "remove", !.at = "mark", !.store = stack, !.item = s,
                                    !.kind = "kb", !.handle = source[s].chunks]
      OBVIOUS
    <3>2. r.at \notin Saving /\ work' = [work EXCEPT ![w] = r]
      BY <2>4, <3>1, IdleFacts DEF Remove, Work, Saving
    <3>3. QED
      BY <1>2, <2>1, <3>2
  <2>5. ASSUME NEW p \in Patches, Save(w, p)  PROVE ConfigInv'
    <3>1. PICK r : r = [Idle EXCEPT !.op = "save", !.at = "lock", !.patch = p]
      OBVIOUS
    <3>2. r.at \notin Saving /\ work' = [work EXCEPT ![w] = r]
      BY <2>5, <3>1, IdleFacts DEF Save, Work, Saving
    <3>3. QED
      BY <1>2, <2>1, <3>2
  <2>6. "commit" \notin Saving /\ "open" \notin Saving /\ "drop" \notin Saving
    BY DEF Saving
  <2>7. CASE \E e \in Entities : Edit(w, e) \/ DeleteEntity(w, e)
    BY <2>2, <2>6, <2>7 DEF Edit, DeleteEntity
  <2>8. CASE (\E kind \in Kinds : Search(w, kind)) \/ ReindexProject(w)
    BY <2>2, <2>6, <2>8 DEF Search, ReindexProject
  <2>9. QED
    BY <1>3, <2>3, <2>4, <2>5, <2>7, <2>8 DEF Arrive
<1>4. CASE StartReindex
  <2>1. PICK r : r = Started(Job)
    OBVIOUS
  <2>2. r.at \notin Saving /\ work' = [work EXCEPT ![Job] = r] /\ work[Job].at \notin Saving
    BY <1>0, <1>4, <2>1, IdleFacts DEF StartReindex, Started, Free, Work, Saving
  <2>3. QED
    BY <1>0, <1>2, <1>4, <2>2 DEF StartReindex, config
<1>5. CASE BeginJob \/ ListSources \/ AllRead \/ \E s \in Sources : ReadSource(s)
  <2>1. /\ work[Job].at \notin Saving /\ work[Job] \in Work
        /\ UNCHANGED <<up, release, overrides, running, lock, stack>>
    BY <1>0, <1>5 DEF BeginJob, ListSources, AllRead, ReadSource, EndJob, At, config, Saving, Typed
  <2>2. PICK r : r = Idle
    OBVIOUS
  <2>3. CASE Finish(Job)
    BY <1>0, <1>2, <2>1, <2>2, <2>3 DEF Finish
  <2>4. CASE work' = [work EXCEPT ![Job].store = stack, ![Job].at = "drop"]
    <3>1. PICK q : q = [work[Job] EXCEPT !.store = stack, !.at = "drop"]
      OBVIOUS
    <3>2. q.at \notin Saving /\ work' = [work EXCEPT ![Job] = q]
      BY <1>0, <2>1, <2>4, <3>1 DEF Saving, Work, Typed
    <3>3. QED
      BY <1>0, <1>2, <2>1, <3>2
  <2>5. ASSUME NEW t, work' = [work EXCEPT ![Job].at = "drop", ![Job].kind = "kb",
                      ![Job].todo = t, ![Job].batch = [x \in Items |-> 0]]
        PROVE  ConfigInv'
    <3>1. PICK q : q = [work[Job] EXCEPT !.at = "drop", !.kind = "kb", !.todo = t,
                                         !.batch = [x \in Items |-> 0]]
      OBVIOUS
    <3>2. q.at \notin Saving /\ work' = [work EXCEPT ![Job] = q]
      BY <1>0, <2>1, <2>5, <3>1 DEF Saving, Work, Typed
    <3>3. QED
      BY <1>0, <1>2, <2>1, <3>2
  <2>6. ASSUME NEW s, work' = [work EXCEPT ![Job].todo = @ \ {s}, ![Job].item = s,
                                          ![Job].at = "mark"]
        PROVE  ConfigInv'
    <3>1. PICK q : q = [work[Job] EXCEPT !.todo = @ \ {s}, !.item = s, !.at = "mark"]
      OBVIOUS
    <3>2. q.at \notin Saving /\ work' = [work EXCEPT ![Job] = q]
      BY <1>0, <2>1, <2>6, <3>1 DEF Saving, Work, Typed
    <3>3. QED
      BY <1>0, <1>2, <2>1, <3>2
  <2>7. CASE BeginJob
    BY <2>3, <2>4, <2>7 DEF BeginJob
  <2>8. CASE ListSources
    BY <2>3, <2>5, <2>8 DEF ListSources, EndJob
  <2>9. CASE AllRead
    BY <2>3, <2>9 DEF AllRead, EndJob
  <2>10. ASSUME NEW s \in Sources, ReadSource(s)  PROVE ConfigInv'
    BY <2>3, <2>6, <2>10 DEF ReadSource
  <2>11. QED
    BY <1>5, <2>7, <2>8, <2>9, <2>10
<1>6. CASE Kill
  <2>1. /\ ~ up' /\ lock' = Absent /\ UNCHANGED overrides
        /\ \A w \in Workers : work'[w] = Idle
    BY <1>6 DEF Kill
  <2>2. \A w \in Workers : ~ Saves(w, "persist")' /\ ~ Saves(w, "apply")'
    BY <2>1, IdleFacts DEF Saves
  <2>3. QED
    BY <2>1, <2>2 DEF ConfigInv
<1>7. ASSUME NEW upgrade, Start(upgrade)  PROVE ConfigInv'
  <2>1. /\ ~ up /\ up' /\ release' = upgrade /\ running' = overrides
        /\ stack' = Model(running', release') /\ UNCHANGED <<overrides, lock, work>>
    BY <1>7 DEF Start
  <2>2. lock' = Absent /\ \A w \in Workers : work'[w] = Idle
    BY <2>1 DEF DownInv
  <2>3. \A w \in Workers : ~ Saves(w, "persist")' /\ ~ Saves(w, "apply")'
    BY <2>2, IdleFacts DEF Saves
  <2>4. QED
    BY <2>1, <2>2, <2>3 DEF ConfigInv
<1>8. CASE UNCHANGED vars
  BY <1>8 DEF vars, config, ConfigInv, Saves
<1>9. QED
  BY <1>1, <1>3, <1>4, <1>5, <1>6, <1>7, <1>8 DEF Next

-----------------------------------------------------------------------------
(* From the beginning *)

LEMMA InitInv ==
  ASSUME Init
  PROVE  IndexInv
<1>1. /\ up = TRUE /\ release = 0 /\ lock = Absent /\ stack = Model(overrides, 0)
      /\ overrides = [f \in Fields |-> Unset] /\ running = overrides
      /\ entity = [e \in Entities |-> 0] /\ source = [s \in Sources |-> NoRow]
      /\ meta = [k \in Kinds |-> Absent] /\ vectors = [x \in Items |-> Nothing]
      /\ work = [w \in Workers |-> Idle] /\ exposed = {}
  BY DEF Init
<1>2. \A w \in Workers : work[w] = Idle /\ AtVectors(w) = {}
  BY <1>1, WhereFacts, IdleFacts DEF Where, IndexSteps
<1>3. Typed
  <2>1. Nothing \in [by : Models \cup {Absent}, version : Nat]
    BY DEF Nothing, Vector
  <2>2. NoRow \in [status : Statuses, chunks : BOOLEAN]
    BY DEF NoRow, Statuses
  <2>3. work \in [Workers -> Work] /\ stack \in Models
    BY <1>1, IdleFacts, ModelFacts
  <2>4. QED
    BY <1>1, <2>1, <2>2, <2>3 DEF Typed
<1>4. PlaceInv /\ DownInv /\ HandleInv
  BY <1>1, <1>2, IdleFacts DEF PlaceInv, DownInv, HandleInv
<1>5. ConfigInv
  <2>1. Buildable(overrides)
    <3>1. Effective(overrides).provider = "local"
      BY <1>1 DEF Effective, Fields, Unset, Base
    <3>2. QED
      BY <3>1 DEF Buildable
  <2>2. \A w \in Workers : ~ Saves(w, "persist") /\ ~ Saves(w, "apply")
    BY <1>2, IdleFacts DEF Saves
  <2>3. QED
    BY <1>1, <2>1, <2>2 DEF ConfigInv
<1>6. FirstsAgree
  BY <1>1 DEF FirstsAgree
<1>7. ApartInv
  BY <1>2 DEF ApartInv, Contended, Foreign, Active
<1>8. MirrorInv
  <2>1. SUFFICES ASSUME NEW x \in Items  PROVE Good(x)
    BY DEF MirrorInv
  <2>2. vectors[x] = Nothing
    BY <1>1
  <2>3. Right(x)
    BY <1>1, <2>2, ItemFacts DEF Right, Wanted, NoRow, Items
  <2>4. QED
    BY <1>2, <2>2, <2>3 DEF Good
<1>9. QED
  BY <1>3, <1>4, <1>5, <1>6, <1>7, <1>8 DEF IndexInv

LEMMA InductiveInv ==
  ASSUME IndexInv, [Next]_vars
  PROVE  IndexInv'
  BY CoreNext, ConfigNext DEF IndexInv, Core

LEMMA IndexInvHolds == Spec => []IndexInv
  BY InitInv, InductiveInv, PTL DEF Spec

-----------------------------------------------------------------------------
(* An entity's further chunks                                               *)

(* They are there where its text reaches; elsewhere they are left of a      *)
(* version that reached there.  Nobody writes a version that is yet to come. *)
FurtherInv ==
  /\ tail \in [Entities -> [Places -> [by : Models \cup {Absent}, version : Nat]]]
  /\ \A e \in Entities, i \in Places :
       /\ vectors[e] # Nothing /\ i \in Cut(e, vectors[e].version) => tail[e][i] = vectors[e]
       /\ tail[e][i] # Nothing =>
            /\ vectors[e] # Nothing /\ tail[e][i].by = vectors[e].by
            /\ tail[e][i].version > 0 /\ i \in Cut(e, tail[e][i].version)
PastInv ==
  \A e \in Entities :
    entity[e] # Gone =>
      /\ \A i \in Places : tail[e][i].version <= entity[e]
      /\ \A w \in Workers : work[w].batch[e] <= entity[e]

Grown(e) == entity'[e] = Gone \/ (entity[e] # Gone /\ entity'[e] >= entity[e])
Older(e) == \A w \in Workers : work'[w].batch[e] \in {0, work[w].batch[e]}
Aged(e) ==
  \/ entity'[e] = Gone
  \/ entity[e] # Gone /\ \A w \in Workers :
       work'[w].batch[e] = work[w].batch[e] \/ work'[w].batch[e] <= entity'[e]

LEMMA OneAged ==
  ASSUME Typed, NEW w \in Workers, NEW e \in Entities,
         \E r : work' = [work EXCEPT ![w] = r] /\ r.batch[e] \in {0, work[w].batch[e]}
  PROVE  Older(e)
  BY DEF Older, Typed

LEMMA GoesOlder ==
  ASSUME Typed, NEW w \in Workers, NEW e \in Entities,
         Finish(w) \/ (\E at : Goto(w, at)) \/ NextSource(w)
  PROVE  Older(e)
<1>0. work[w] \in Work /\ e \in Items /\ \A v \in Workers : work[v] \in Work
  BY DEF Typed, Items
<1>1. CASE Finish(w)
  <2>1. work' = [work EXCEPT ![w] = Idle] /\ Idle.batch[e] = 0
    BY <1>0, <1>1, IdleFacts DEF Finish, Empty
  <2>2. QED
    BY <2>1, OneAged
<1>2. ASSUME NEW at, Goto(w, at)  PROVE Older(e)
  <2>1. PICK r : r = [work[w] EXCEPT !.at = at]
    OBVIOUS
  <2>2. work' = [work EXCEPT ![w] = r] /\ r.batch = work[w].batch
    BY <1>0, <1>2, <2>1 DEF Goto, Typed, Work
  <2>3. QED
    BY <2>2, OneAged
<1>3. CASE NextSource(w)
  <2>1. PICK r : r = [work[w] EXCEPT !.at = "read", !.item = Absent, !.batch = [x \in Items |-> 0]]
    OBVIOUS
  <2>2. work' = [work EXCEPT ![w] = r] /\ r.batch[e] = 0
    BY <1>0, <1>3, <2>1 DEF NextSource, Typed, Work
  <2>3. QED
    BY <2>2, OneAged
<1>4. QED
  BY <1>1, <1>2, <1>3

LEMMA HoldsOlder ==
  ASSUME Typed, NEW w \in Workers, NEW e \in Entities, NEW alive, NEW kind, NEW at,
         Holding(w, alive, kind, at)
  PROVE  Older(e)
<1>1. SUFFICES ASSUME NEW v \in Workers  PROVE work'[v].batch[e] \in {0, work[v].batch[e]}
  BY DEF Older
<1>2. work[v] \in Work /\ e \in Items
  BY DEF Typed, Items
<1>3. \/ work'[v] = Idle \/ work'[v] = work[v]
      \/ work'[v] = [work[v] EXCEPT !.handle = TRUE, !.at = at]
      \/ work'[v] = [work[v] EXCEPT !.handle = FALSE]
  BY DEF Holding
<1>4. QED
  BY <1>2, <1>3, IdleFacts DEF Empty, Work

LEMMA FailsOlder ==
  ASSUME Typed, NEW w \in Workers, NEW e \in Entities, FailTo(w)
  PROVE  Older(e)
  BY GoesOlder DEF FailTo

LEMMA OlderAged ==
  ASSUME Typed, NEW e \in Entities, Older(e), entity' = entity
  PROVE  Aged(e) /\ Grown(e)
<1>1. entity[e] \in Nat \cup {Gone}
  BY DEF Typed
<1>2. QED
  BY <1>1 DEF Aged, Older, Grown, Gone

(* Only the edit of an entity and the listing of all make a batch.         *)
LEMMA StepAged ==
  ASSUME Typed, PlaceInv, NEW w \in Workers, NEW e \in Entities, Step(w)
  PROVE  Aged(e) /\ Grown(e)
<1>0. /\ work[w] \in Work /\ Placed(w, work[w]) /\ e \in Items
      /\ entity[e] \in Nat \cup {Gone} /\ \A v \in Workers : work[v] \in Work
  BY DEF Typed, PlaceInv, Items
<1>1. CASE Open(w) \/ Drop(w)
  <2>1. entity' = entity
    BY <1>1 DEF Open, Drop, rows
  <2>2. \E alive, kind, at : Holding(w, alive, kind, at)
    BY <1>1 DEF Open, Drop, CollectionSync
  <2>3. QED
    BY <2>1, <2>2, HoldsOlder, OlderAged
<1>2. CASE Write(w) \/ CallFails(w)
  <2>1. entity' = entity
    BY <1>2 DEF Write, CallFails, rows
  <2>2. AfterWrite(w) \/ FailTo(w)
    BY <1>2 DEF Write, CallFails
  <2>3. CASE AfterWrite(w)
    <3>1. Finish(w) \/ \E at : Goto(w, at)
      BY <2>3 DEF AfterWrite
    <3>2. QED
      BY <2>1, <3>1, GoesOlder, OlderAged
  <2>4. QED
    BY <2>1, <2>2, <2>3, FailsOlder, OlderAged
<1>3. ASSUME NEW version, Indexing(w, version), work[w].item \in Items,
             version \in Nat, entity[work[w].item] # Gone,
             entity'[work[w].item] \in Nat \cup {Gone},
             work[w].item = e => version <= entity'[e] \/ entity'[e] = Gone,
             \A x \in Entities \ {work[w].item} : entity'[x] = entity[x]
      PROVE  Aged(e)
  <2>1. CASE Finish(w)
    <3>1. Older(e)
      BY <2>1, GoesOlder
    <3>2. CASE e = work[w].item
      <4>1. work'[w].batch[e] = 0 /\ \A v \in Workers \ {w} : work'[v] = work[v]
        BY <1>0, <2>1, IdleFacts DEF Finish, Empty, Typed
      <4>2. QED
        <5>1. \A v \in Workers : work'[v].batch[e] = work[v].batch[e] \/ v = w
          BY <4>1
        <5>2. entity'[e] = Gone \/ work'[w].batch[e] <= entity'[e]
          BY <1>3, <3>2, <4>1 DEF Gone
        <5>3. QED
          BY <1>3, <3>2, <5>1, <5>2 DEF Aged
    <3>3. CASE e # work[w].item
      BY <1>0, <1>3, <3>1, <3>3 DEF Aged, Older, Gone
    <3>4. QED
      BY <3>2, <3>3
  <2>2. CASE work' = [work EXCEPT ![w].at = "open", ![w].batch[work[w].item] = version]
    <3>1. PICK r : r = [work[w] EXCEPT !.at = "open", !.batch[work[w].item] = version]
      OBVIOUS
    <3>2. /\ work' = [work EXCEPT ![w] = r]
          /\ r.batch = [work[w].batch EXCEPT ![work[w].item] = version]
      BY <1>0, <2>2, <3>1 DEF Typed, Work
    <3>3. r.batch[e] = IF e = work[w].item THEN version ELSE work[w].batch[e]
      BY <1>0, <1>3, <3>2 DEF Work
    <3>4. work'[w] = r /\ \A v \in Workers \ {w} : work'[v] = work[v]
      BY <3>2 DEF Typed
    <3>5. CASE e = work[w].item
      BY <1>3, <3>3, <3>4, <3>5 DEF Aged
    <3>6. CASE e # work[w].item
      BY <1>0, <1>3, <3>3, <3>4, <3>6 DEF Aged
    <3>7. QED
      BY <3>5, <3>6
  <2>3. QED
    BY <1>3, <2>1, <2>2 DEF Indexing
<1>4. CASE CommitEdit(w) \/ CommitDelete(w)
  <2>1. work[w].item \in Entities /\ work[w].item \in Items
    BY <1>0, <1>4, ItemFacts DEF CommitEdit, CommitDelete, At, Placed, OnItem, Items
  <2>2. CASE entity[work[w].item] = Gone
    <3>1. Finish(w) /\ entity' = entity
      BY <1>4, <2>2 DEF CommitEdit, CommitDelete
    <3>2. QED
      BY <3>1, GoesOlder, OlderAged
  <2>3. CASE entity[work[w].item] # Gone /\ CommitEdit(w)
    <3>1. /\ entity' = [entity EXCEPT ![work[w].item] = @ + 1]
          /\ Indexing(w, entity[work[w].item] + 1)
      BY <2>3 DEF CommitEdit
    <3>2. entity[work[w].item] \in Nat /\ entity'[work[w].item] = entity[work[w].item] + 1
      BY <2>1, <2>3, <3>1 DEF Typed
    <3>3. \A x \in Entities \ {work[w].item} : entity'[x] = entity[x]
      BY <3>1 DEF Typed
    <3>4. Grown(e)
      BY <1>0, <2>3, <3>2, <3>3 DEF Grown, Gone
    <3>5. Aged(e)
      <4>1. entity'[work[w].item] \in Nat \cup {Gone} /\ entity[work[w].item] + 1 \in Nat
        BY <3>2
      <4>2. entity[work[w].item] + 1 <= entity'[work[w].item]
        BY <3>2
      <4>3. QED
        BY <1>3, <2>1, <2>3, <3>1, <3>3, <4>1, <4>2
    <3>6. QED
      BY <3>4, <3>5
  <2>4. CASE entity[work[w].item] # Gone /\ CommitDelete(w)
    <3>1. entity' = [entity EXCEPT ![work[w].item] = Gone] /\ Indexing(w, 0)
      BY <2>4 DEF CommitDelete
    <3>2. entity'[work[w].item] = Gone /\ \A x \in Entities \ {work[w].item} : entity'[x] = entity[x]
      BY <2>1, <3>1 DEF Typed
    <3>3. Grown(e)
      BY <1>0, <3>2 DEF Grown, Gone
    <3>4. Aged(e)
      BY <1>3, <2>1, <2>4, <3>1, <3>2
    <3>5. QED
      BY <3>3, <3>4
  <2>5. QED
    BY <1>4, <2>2, <2>3, <2>4
<1>5. CASE Mark(w)
  <2>1. /\ entity' = entity
        /\ Finish(w) \/ Goto(w, "settle")
           \/ work' = [work EXCEPT ![w].at = "open", ![w].batch[work[w].item] = 1]
    BY <1>5 DEF Mark, RowGone
  <2>2. CASE work' = [work EXCEPT ![w].at = "open", ![w].batch[work[w].item] = 1]
    <3>1. PICK r : r = [work[w] EXCEPT !.at = "open", !.batch[work[w].item] = 1]
      OBVIOUS
    <3>2. work[w].item # e
      <4>1. work[w].op \in {"ingest", "all"} /\ work[w].at = "mark"
        BY <1>5 DEF Mark, Ingesting
      <4>2. work[w].kind \in Kinds
        BY <1>0 DEF Work
      <4>3. work[w].item \in Of("kb")
        BY <1>0, <4>1, <4>2 DEF Placed, OnItem, Kinds
      <4>4. QED
        BY <1>0, <4>3, ItemFacts
    <3>3. work' = [work EXCEPT ![w] = r] /\ r.batch[e] = work[w].batch[e]
      BY <1>0, <2>2, <3>1, <3>2 DEF Typed, Work
    <3>4. QED
      BY <2>1, <3>3, OneAged, OlderAged
  <2>3. QED
    BY <2>1, <2>2, GoesOlder, OlderAged
<1>6. CASE Settle(w) \/ Fail(w) \/ CommitRemove(w)
  <2>1. entity' = entity /\ (Finish(w) \/ NextSource(w) \/ \E at : Goto(w, at))
    BY <1>6 DEF Settle, Fail, CommitRemove, RowGone, Settled
  <2>2. QED
    BY <2>1, GoesOlder, OlderAged
<1>7. CASE List(w)
  <2>1. entity' = entity
    BY <1>7 DEF List, rows
  <2>2. CASE Finish(w) \/ Goto(w, "sources")
    BY <2>1, <2>2, GoesOlder, OlderAged
  <2>3. ASSUME NEW b, b[e] = IF e \in {y \in Entities : entity[y] > 0} THEN entity[e] ELSE 0,
               work' = [work EXCEPT ![w].at = "open", ![w].batch = b]
        PROVE  Aged(e)
    <3>1. PICK r : r = [work[w] EXCEPT !.at = "open", !.batch = b]
      OBVIOUS
    <3>2. work' = [work EXCEPT ![w] = r] /\ r.batch = b
      BY <1>0, <2>3, <3>1 DEF Typed, Work
    <3>3. work'[w] = r /\ \A v \in Workers \ {w} : work'[v] = work[v]
      BY <3>2 DEF Typed
    <3>4. entity[e] # Gone => r.batch[e] <= entity'[e]
      BY <1>0, <2>1, <2>3, <3>2 DEF Gone
    <3>5. QED
      BY <2>1, <3>3, <3>4 DEF Aged
  <2>4. Grown(e)
    BY <1>0, <2>1 DEF Grown
  <2>5. CASE ~ (Finish(w) \/ Goto(w, "sources"))
    <3>1. PICK b : /\ b = [x \in Items |-> IF x \in {y \in Entities : entity[y] > 0}
                                           THEN entity[x] ELSE 0]
                   /\ work' = [work EXCEPT ![w].at = "open", ![w].batch = b]
      BY <1>7, <2>5 DEF List
    <3>2. b[e] = IF e \in {y \in Entities : entity[y] > 0} THEN entity[e] ELSE 0
      BY <1>0, <3>1
    <3>3. QED
      BY <2>3, <2>4, <3>1, <3>2
  <2>6. QED
    BY <2>2, <2>5
<1>8. CASE BuildFirst(w) \/ Persist(w) \/ PersistFails(w)
  <2>1. entity' = entity /\ (Finish(w) \/ \E at : Goto(w, at))
    BY <1>8 DEF BuildFirst, Persist, PersistFails, rows
  <2>2. QED
    BY <2>1, GoesOlder, OlderAged
<1>9. CASE Apply(w)
  <2>1. entity' = entity
    BY <1>9 DEF Apply, rows
  <2>2. ASSUME NEW v \in Workers  PROVE work'[v].batch[e] \in {0, work[v].batch[e]}
    <3>1. work'[v] \in {Idle, Started(v), work[v]}
      BY <1>9 DEF Apply
    <3>2. Started(v).batch = Idle.batch
      BY IdleFacts DEF Started, Work
    <3>3. QED
      BY <1>0, <3>1, <3>2, IdleFacts DEF Empty
  <2>3. QED
    BY <2>1, <2>2, OlderAged DEF Older
<1>10. QED
  BY <1>1, <1>2, <1>4, <1>5, <1>6, <1>7, <1>8, <1>9 DEF Step

LEMMA NextAged ==
  ASSUME Typed, PlaceInv, NEW e \in Entities, [Next]_vars
  PROVE  Aged(e) /\ Grown(e)
<1>0. /\ e \in Items /\ entity[e] \in Nat \cup {Gone} /\ \A v \in Workers : work[v] \in Work
      /\ Job \in Workers
  BY DEF Typed, Items, Workers
<1>1. ASSUME NEW w \in Workers, Step(w)  PROVE Aged(e) /\ Grown(e)
  BY <1>1, StepAged
<1>2. ASSUME NEW w \in Workers, NEW r, r.batch = Idle.batch, work' = [work EXCEPT ![w] = r],
             entity' = entity
      PROVE  Aged(e) /\ Grown(e)
  <2>1. r.batch[e] = 0
    BY <1>0, <1>2, IdleFacts DEF Empty
  <2>2. QED
    BY <1>2, <2>1, OneAged, OlderAged
<1>3. ASSUME NEW w \in Requests, Arrive(w)  PROVE Aged(e) /\ Grown(e)
  <2>1. w \in Workers /\ entity' = entity
    BY <1>3 DEF Workers, Arrive, Edit, DeleteEntity, Upload, Remove, Search, ReindexProject, Save,
                Begin, rows
  <2>2. ASSUME NEW op, NEW at, NEW item, NEW kind, Begin(w, op, at, item, kind)
        PROVE  Aged(e) /\ Grown(e)
    <3>1. PICK r : r = [Idle EXCEPT !.op = op, !.at = at, !.store = stack, !.item = item,
                                    !.kind = kind]
      OBVIOUS
    <3>2. r.batch = Idle.batch /\ work' = [work EXCEPT ![w] = r]
      BY <2>2, <3>1, IdleFacts DEF Begin, Work
    <3>3. QED
      BY <1>2, <2>1, <3>2
  <2>3. ASSUME NEW s \in Sources, Upload(w, s) \/ Remove(w, s)  PROVE Aged(e) /\ Grown(e)
    <3>1. \E h : work' = [work EXCEPT ![w] = [Idle EXCEPT !.op = IF Upload(w, s) THEN "ingest"
                            ELSE "remove", !.at = "mark", !.store = stack, !.item = s,
                            !.kind = "kb", !.handle = h]]
      <4>1. CASE Upload(w, s)
        <5>1. work' = [work EXCEPT ![w] = [Idle EXCEPT !.op = "ingest", !.at = "mark",
                !.store = stack, !.item = s, !.kind = "kb", !.handle = FALSE]]
          BY <4>1, IdleFacts DEF Upload, Work
        <5>2. QED
          BY <4>1, <5>1
      <4>2. CASE ~ Upload(w, s)
        BY <2>3, <4>2 DEF Remove
      <4>3. QED
        BY <4>1, <4>2
    <3>2. PICK r : r.batch = Idle.batch /\ work' = [work EXCEPT ![w] = r]
      BY <3>1, IdleFacts DEF Work
    <3>3. QED
      BY <1>2, <2>1, <3>2
  <2>4. ASSUME NEW p \in Patches, Save(w, p)  PROVE Aged(e) /\ Grown(e)
    <3>1. PICK r : r = [Idle EXCEPT !.op = "save", !.at = "lock", !.patch = p]
      OBVIOUS
    <3>2. r.batch = Idle.batch /\ work' = [work EXCEPT ![w] = r]
      BY <2>4, <3>1, IdleFacts DEF Save, Work
    <3>3. QED
      BY <1>2, <2>1, <3>2
  <2>5. CASE \E x \in Entities : Edit(w, x) \/ DeleteEntity(w, x)
    BY <2>2, <2>5 DEF Edit, DeleteEntity
  <2>6. CASE (\E kind \in Kinds : Search(w, kind)) \/ ReindexProject(w)
    BY <2>2, <2>6 DEF Search, ReindexProject
  <2>7. QED
    BY <1>3, <2>3, <2>4, <2>5, <2>6 DEF Arrive
<1>4. CASE StartReindex
  <2>1. PICK r : r = Started(Job)
    OBVIOUS
  <2>2. r.batch = Idle.batch /\ work' = [work EXCEPT ![Job] = r] /\ entity' = entity
    BY <1>4, <2>1, IdleFacts DEF StartReindex, Started, Work, rows
  <2>3. QED
    BY <1>0, <1>2, <2>2
<1>5. CASE BeginJob \/ ListSources \/ AllRead \/ \E s \in Sources : ReadSource(s)
  <2>1. entity' = entity /\ work[Job] \in Work
    BY <1>0, <1>5 DEF BeginJob, ListSources, AllRead, ReadSource, EndJob, rows
  <2>2. \/ Finish(Job)
        \/ \E r : work' = [work EXCEPT ![Job] = r] /\ r.batch[e] \in {0, work[Job].batch[e]}
    <3>1. CASE BeginJob
      <4>1. PICK r : r = [work[Job] EXCEPT !.store = stack, !.at = "drop"]
        OBVIOUS
      <4>2. Finish(Job) \/ work' = [work EXCEPT ![Job] = r]
        BY <1>0, <2>1, <3>1, <4>1 DEF BeginJob, Typed
      <4>3. r.batch = work[Job].batch
        BY <2>1, <4>1 DEF Work
      <4>4. QED
        BY <4>2, <4>3
    <3>2. CASE ListSources
      <4>1. ASSUME NEW t, work' = [work EXCEPT ![Job].at = "drop", ![Job].kind = "kb",
                      ![Job].todo = t, ![Job].batch = [x \in Items |-> 0]]
            PROVE  \E r : work' = [work EXCEPT ![Job] = r] /\ r.batch[e] = 0
        <5>1. PICK r : r = [work[Job] EXCEPT !.at = "drop", !.kind = "kb", !.todo = t,
                                             !.batch = [x \in Items |-> 0]]
          OBVIOUS
        <5>2. work' = [work EXCEPT ![Job] = r] /\ r.batch[e] = 0
          BY <1>0, <2>1, <4>1, <5>1 DEF Typed, Work
        <5>3. QED
          BY <5>2
      <4>2. QED
        BY <3>2, <4>1 DEF ListSources, EndJob
    <3>3. CASE AllRead
      BY <3>3 DEF AllRead, EndJob
    <3>4. ASSUME NEW s \in Sources, ReadSource(s)
          PROVE  \/ Finish(Job)
                 \/ \E r : work' = [work EXCEPT ![Job] = r] /\ r.batch[e] = work[Job].batch[e]
      <4>1. PICK r : r = [work[Job] EXCEPT !.todo = @ \ {s}, !.item = s, !.at = "mark"]
        OBVIOUS
      <4>2. Finish(Job) \/ work' = [work EXCEPT ![Job] = r]
        BY <1>0, <2>1, <3>4, <4>1 DEF ReadSource, Typed, Work
      <4>3. r.batch = work[Job].batch
        BY <2>1, <4>1 DEF Work
      <4>4. QED
        BY <4>2, <4>3
    <3>5. QED
      BY <1>5, <3>1, <3>2, <3>3, <3>4
  <2>3. QED
    BY <1>0, <2>1, <2>2, GoesOlder, OneAged, OlderAged
<1>6. CASE Kill
  <2>1. entity' = entity /\ \A w \in Workers : work'[w] = Idle
    BY <1>6 DEF Kill, rows
  <2>2. Older(e)
    BY <1>0, <2>1, IdleFacts DEF Older, Empty
  <2>3. QED
    BY <2>1, <2>2, OlderAged
<1>7. CASE (\E upgrade \in 0 .. 1 : Start(upgrade)) \/ UNCHANGED vars
  <2>1. entity' = entity /\ work' = work
    BY <1>7 DEF Start, vars, rows
  <2>2. QED
    BY <2>1, OlderAged DEF Older
<1>8. QED
  BY <1>1, <1>3, <1>4, <1>5, <1>6, <1>7 DEF Next

(* A collection that is dropped, and a write into it.                      *)
LEMMA DropsFurther ==
  ASSUME FurtherInv, NEW kind \in Kinds, NEW m, Dropped(kind, m)
  PROVE  /\ FurtherInv'
         /\ \A e \in Entities, i \in Places : tail'[e][i] \in {Nothing, tail[e][i]}
<1>1. /\ \A e \in Entities : vectors'[e] = IF kind = "canon" THEN Nothing ELSE vectors[e]
      /\ tail' = IF kind = "canon" THEN Bare ELSE tail
  BY ItemFacts DEF Dropped, Kind, Kinds, Items
<1>2. Nothing \in [by : Models \cup {Absent}, version : Nat]
  BY DEF Nothing, Vector
<1>3. QED
  BY <1>1, <1>2 DEF FurtherInv, Bare

LEMMA WritesFurther ==
  ASSUME Typed, PlaceInv, HandleInv, FirstsAgree, FurtherInv, NEW w \in Workers, Write(w)
  PROVE  /\ FurtherInv'
         /\ \A e \in Entities, i \in Places :
              \/ tail'[e][i] \in {Nothing, tail[e][i]}
              \/ tail'[e][i].version = work[w].batch[e]
<1> DEFINE batch == work[w].batch
           item == work[w].item
           made(e) == Vector(work[w].store, batch[e])
<1>0. /\ work[w] \in Work /\ Placed(w, work[w])
      /\ \A e \in Entities : e \in Items /\ Kind(e) = "canon"
      /\ \A e \in Entities : batch[e] \in Nat
  BY DEF Typed, PlaceInv, Items, Kind, Work
<1>1. CASE ~ work[w].handle
  BY <1>1 DEF Write, FurtherInv
<1>2. CASE work[w].handle
  <2>1. work[w].at = "write" /\ meta[work[w].kind] = work[w].store
    BY <1>2 DEF Write, HandleInv
  <2>2. \A e \in Entities : batch[e] > 0 => work[w].kind = "canon" /\ work[w].op # "delete"
    BY <1>0, <2>1, ItemFacts DEF Placed, Empty, Carries, OnItem, Work, Ops, Kinds
  <2>3. ASSUME NEW e \in Entities
        PROVE  /\ batch[e] > 0 => vectors'[e] = made(e)
               /\ work[w].op = "delete" /\ e = item => vectors'[e] = Nothing
               /\ batch[e] = 0 /\ ~ (work[w].op = "delete" /\ e = item) => vectors'[e] = vectors[e]
    <3>1. vectors'[e] = CASE e \in Batched(w) -> made(e)
                          [] e = item /\ work[w].op \in {"delete", "remove"} -> Nothing
                          [] OTHER -> vectors[e]
      BY <1>0, <1>2 DEF Write
    <3>2. e \in Batched(w) <=> batch[e] > 0
      BY <1>0 DEF Batched
    <3>3. work[w].op = "remove" => item # e
      BY <1>0, ItemFacts DEF Placed, OnItem
    <3>4. QED
      BY <1>0, <2>2, <3>1, <3>2, <3>3
  <2>4. ASSUME NEW e \in Entities, NEW i \in Places
        PROVE  tail'[e][i] = IF batch[e] > 0 /\ i \in Cut(e, batch[e]) THEN made(e)
                             ELSE IF work[w].op = "delete" /\ e = item THEN Nothing ELSE tail[e][i]
    <3>1. tail' = Further(w, IF work[w].op = "delete" THEN {item} ELSE {})
      BY <1>2 DEF Write
    <3>2. Upserted(w, e, i) <=> batch[e] > 0 /\ i \in Cut(e, batch[e])
      BY <1>0 DEF Upserted, Batched
    <3>3. tail'[e][i] = CASE Upserted(w, e, i) -> made(e)
                          [] e \in (IF work[w].op = "delete" THEN {item} ELSE {}) -> Nothing
                          [] OTHER -> tail[e][i]
      BY <3>1 DEF Further
    <3>4. CASE Upserted(w, e, i)
      <4>1. batch[e] > 0 /\ i \in Cut(e, batch[e]) /\ work[w].op # "delete"
        BY <2>2, <3>2, <3>4
      <4>2. e \notin (IF work[w].op = "delete" THEN {item} ELSE {})
        BY <4>1
      <4>3. tail'[e][i] = made(e)
        BY <3>3, <3>4, <4>2
      <4>4. QED
        BY <4>1, <4>3
    <3>5. CASE ~ Upserted(w, e, i)
      <4>1. CASE work[w].op = "delete" /\ e = item
        BY <3>2, <3>3, <3>5, <4>1
      <4>2. CASE ~ (work[w].op = "delete" /\ e = item)
        <5>1. e \notin (IF work[w].op = "delete" THEN {item} ELSE {})
          BY <4>2
        <5>2. tail'[e][i] = tail[e][i]
          BY <3>3, <3>5, <5>1
        <5>3. QED
          BY <3>2, <3>5, <4>2, <5>2
      <4>3. QED
        BY <4>1, <4>2
    <3>6. QED
      BY <3>4, <3>5
  <2>5. ASSUME NEW e \in Entities, batch[e] > 0
        PROVE  /\ made(e) # Nothing /\ made(e).by = work[w].store /\ made(e).version = batch[e]
               /\ made(e) \in [by : Models \cup {Absent}, version : Nat]
    BY <1>0, <2>5 DEF Vector, Nothing, Work
  <2>6. tail' \in [Entities -> [Places -> [by : Models \cup {Absent}, version : Nat]]]
    <3>1. \A e \in Entities, i \in Places : tail'[e][i] \in [by : Models \cup {Absent}, version : Nat]
      <4>1. Nothing \in [by : Models \cup {Absent}, version : Nat]
        BY DEF Nothing, Vector
      <4>2. QED
        BY <2>4, <2>5, <4>1 DEF FurtherInv
    <3>2. \E gone : tail' = Further(w, gone)
      BY <1>2 DEF Write
    <3>3. \A e \in Entities : tail'[e] \in [Places -> [by : Models \cup {Absent}, version : Nat]]
      BY <3>1, <3>2 DEF Further
    <3>4. QED
      BY <3>2, <3>3 DEF Further
  <2>7. ASSUME NEW e \in Entities, NEW i \in Places
        PROVE  /\ vectors'[e] # Nothing /\ i \in Cut(e, vectors'[e].version) => tail'[e][i] = vectors'[e]
               /\ tail'[e][i] # Nothing =>
                    /\ vectors'[e] # Nothing /\ tail'[e][i].by = vectors'[e].by
                    /\ tail'[e][i].version > 0 /\ i \in Cut(e, tail'[e][i].version)
    <3>1. CASE batch[e] > 0
      <4>1. vectors'[e] = made(e) /\ work[w].op # "delete"
        BY <2>2, <2>3, <3>1
      <4>2. tail[e][i] # Nothing => tail[e][i].by = work[w].store
        <5>1. vectors[e] # Nothing => vectors[e].by = work[w].store
          BY <1>0, <2>1, <2>2, <3>1 DEF FirstsAgree
        <5>2. QED
          BY <5>1 DEF FurtherInv
      <4>3. QED
        BY <2>4, <2>5, <3>1, <4>1, <4>2 DEF FurtherInv
    <3>2. CASE batch[e] = 0
      BY <1>0, <2>3, <2>4, <3>2 DEF FurtherInv
    <3>3. QED
      BY <1>0, <3>1, <3>2
  <2>8. QED
    BY <2>4, <2>5, <2>6, <2>7 DEF FurtherInv
<1>3. QED
  BY <1>1, <1>2 DEF Work

(* What every step does to the further chunks.                             *)
LEMMA FurtherStep ==
  ASSUME IndexInv, FurtherInv, [Next]_vars
  PROVE  /\ FurtherInv'
         /\ \A e \in Entities, i \in Places :
              \/ tail'[e][i] \in {Nothing, tail[e][i]}
              \/ \E w \in Workers : tail'[e][i].version = work[w].batch[e]
<1> USE DEF IndexInv
<1>1. CASE UNCHANGED <<vectors, tail>>
  BY <1>1 DEF FurtherInv
<1>2. ASSUME NEW w \in Workers, Open(w) \/ Drop(w), ~ UNCHANGED <<vectors, tail>>
      PROVE  \E m : Dropped(work[w].kind, m)
  BY <1>2 DEF Open, Drop, CollectionSync, store
<1>3. CASE \E w \in Workers : Open(w) \/ Drop(w)
  <2>1. PICK w \in Workers : Open(w) \/ Drop(w)
    BY <1>3
  <2>2. work[w].kind \in Kinds
    BY DEF Typed, Work
  <2>3. QED
    BY <1>1, <1>2, <2>1, <2>2, DropsFurther
<1>4. CASE \E w \in Workers : Write(w)
  BY <1>4, WritesFurther
<1>5. CASE ~ \E w \in Workers : Open(w) \/ Drop(w) \/ Write(w)
  <2>1. UNCHANGED store
    <3>1. ASSUME NEW w \in Workers, Step(w)  PROVE UNCHANGED store
      BY <1>5, <3>1 DEF Step, CallFails, CommitEdit, CommitDelete, Mark, Settle, Fail, CommitRemove,
         List, BuildFirst, Persist, PersistFails, Apply
    <3>2. ASSUME NEW w \in Requests, Arrive(w)  PROVE UNCHANGED store
      BY <3>2 DEF Arrive, Edit, DeleteEntity, Upload, Remove, Search, ReindexProject, Save, Begin
    <3>3. CASE StartReindex \/ BeginJob \/ ListSources \/ AllRead \/ \E s \in Sources : ReadSource(s)
      BY <3>3 DEF StartReindex, BeginJob, ListSources, AllRead, ReadSource, EndJob
    <3>4. CASE Kill \/ (\E upgrade \in 0 .. 1 : Start(upgrade)) \/ UNCHANGED vars
      BY <3>4 DEF Kill, Start, vars
    <3>5. QED
      BY <3>1, <3>2, <3>3, <3>4 DEF Next
  <2>2. QED
    BY <1>1, <2>1 DEF store
<1>6. QED
  BY <1>3, <1>4, <1>5

LEMMA PastStep ==
  ASSUME IndexInv, IndexInv', FurtherInv, FurtherInv', PastInv, [Next]_vars
  PROVE  PastInv'
<1>1. SUFFICES ASSUME NEW e \in Entities, entity'[e] # Gone
               PROVE  /\ \A i \in Places : tail'[e][i].version <= entity'[e]
                      /\ \A w \in Workers : work'[w].batch[e] <= entity'[e]
  BY DEF PastInv
<1>2. Aged(e) /\ Grown(e)
  BY NextAged DEF IndexInv
<1>3. /\ entity[e] \in Nat /\ entity'[e] \in Nat /\ entity[e] # Gone /\ entity'[e] >= entity[e]
      /\ e \in Items
  BY <1>1, <1>2 DEF Grown, IndexInv, Typed, Items
<1>4. \A w \in Workers : work[w].batch[e] \in Nat /\ work'[w].batch[e] \in Nat
  BY <1>3 DEF IndexInv, Typed, Work
<1>5. \A i \in Places : tail[e][i].version \in Nat /\ tail'[e][i].version \in Nat
  BY DEF FurtherInv
<1>6. ASSUME NEW w \in Workers  PROVE work'[w].batch[e] <= entity'[e]
  BY <1>1, <1>2, <1>3, <1>4 DEF Aged, PastInv
<1>7. ASSUME NEW i \in Places  PROVE tail'[e][i].version <= entity'[e]
  <2>1. Nothing.version = 0
    BY DEF Nothing, Vector
  <2>2. QED
    BY <1>3, <1>4, <1>5, <2>1, FurtherStep DEF PastInv
<1>8. QED
  BY <1>6, <1>7

FurtherHolds == IndexInv /\ FurtherInv /\ PastInv

LEMMA FurtherHoldsAlways == Spec => []FurtherHolds
<1>1. Init => FurtherHolds
  <2>1. SUFFICES ASSUME Init  PROVE FurtherInv /\ PastInv
    BY InitInv DEF FurtherHolds
  <2>2. /\ \A e \in Entities : vectors[e] = Nothing /\ entity[e] = 0 /\ e \in Items
        /\ tail = [e \in Entities |-> [i \in Places |-> Nothing]]
        /\ \A w \in Workers : work[w] = Idle
    <3>1. /\ entity = [e \in Entities |-> 0] /\ vectors = [x \in Items |-> Nothing]
          /\ tail = Bare /\ work = [w \in Workers |-> Idle]
      BY <2>1 DEF Init
    <3>2. QED
      BY <3>1 DEF Bare, Items
  <2>3. /\ Nothing \in [by : Models \cup {Absent}, version : Nat] /\ Nothing.version = 0
        /\ \A e \in Entities : Idle.batch[e] = 0
    BY <2>2, IdleFacts DEF Nothing, Vector, Empty
  <2>4. FurtherInv
    BY <2>2, <2>3 DEF FurtherInv
  <2>5. PastInv
    BY <2>2, <2>3 DEF PastInv
  <2>6. QED
    BY <2>4, <2>5
<1>2. FurtherHolds /\ [Next]_vars => FurtherHolds'
  BY InductiveInv, FurtherStep, PastStep DEF FurtherHolds
<1>3. QED
  BY <1>1, <1>2, PTL DEF Spec

-----------------------------------------------------------------------------
(* The theorems *)

(* What is on disk can be started from whatever was saved, refused or cut   *)
(* short, and with the lock free it is what the process runs on            *)
(* (SettingsService.update, build-first).                                  *)
THEOREM ConfigurationKept == Spec => []ConfigurationHolds
<1>1. IndexInv => ConfigurationHolds
  BY DEF IndexInv, ConfigInv, ConfigurationHolds
<1>2. QED
  BY <1>1, IndexInvHolds, PTL

(* No write of any request, however late, puts a vector of one model in a   *)
(* collection of another (_collection_sync, and the handles it hands out).  *)
THEOREM ModelsApart == Spec => []OneModelPerCollection
<1>1. FurtherHolds => OneModelPerCollection
  <2>1. SUFFICES ASSUME FurtherHolds  PROVE FurtherAgree
    BY DEF OneModelPerCollection, FurtherHolds, IndexInv
  <2>2. \A e \in Entities : e \in Items /\ Kind(e) = "canon"
    BY DEF Items, Kind
  <2>3. QED
    BY <2>1, <2>2 DEF FurtherHolds, IndexInv, FirstsAgree, FurtherInv, FurtherAgree
<1>2. QED
  BY <1>1, FurtherHoldsAlways, PTL

(* Whatever runs, fails or is rebuilt, an item that nothing disturbed has   *)
(* every vector its row calls for, one that a reindex rebuilt again; and    *)
(* what else an entity has is a chunk of an earlier version of it, where    *)
(* its text no longer reaches (index_entity never deletes).                *)
THEOREM VectorsFollowRows == Spec => []MirrorsRows
<1>1. FurtherHolds => MirrorsRows
  <2>1. SUFFICES ASSUME FurtherHolds, stack # NoModel, NEW x \in Items \ (exposed \cup Busy)
                 PROVE  /\ vectors[x] \in Wanted(x)
                        /\ x \in Entities => \A i \in Places : tail[x][i] \in WantedFurther(x, i)
    BY DEF MirrorsRows
  <2>2. Good(x) /\ \A w \in Workers : x \notin AtVectors(w)
    BY <2>1 DEF FurtherHolds, IndexInv, MirrorInv, Busy
  <2>3. vectors[x] \in Wanted(x)
    BY <2>2 DEF Good, Right
  <2>4. ASSUME x \in Entities, NEW i \in Places  PROVE tail[x][i] \in WantedFurther(x, i)
    <3>1. vectors[x] = IF entity[x] > 0 THEN Vector(stack, entity[x]) ELSE Nothing
      BY <2>3, <2>4 DEF Wanted
    <3>2. CASE ~ entity[x] > 0
      BY <2>1, <2>4, <3>1, <3>2 DEF FurtherHolds, FurtherInv, WantedFurther, Reaches
    <3>3. CASE entity[x] > 0
      <4>1. stack \in Models /\ Absent \notin Models /\ entity[x] \in Nat /\ entity[x] # Gone
        BY <2>1, <2>4, <3>3, NamesAssumption DEF FurtherHolds, IndexInv, Typed, Gone
      <4>2. /\ vectors[x] = Vector(stack, entity[x]) /\ vectors[x] # Nothing
            /\ vectors[x].by = stack /\ vectors[x].version = entity[x]
        BY <3>1, <3>3, <4>1 DEF Vector, Nothing
      <4>3. CASE i \in Cut(x, entity[x])
        BY <2>1, <2>4, <3>3, <4>2, <4>3 DEF FurtherHolds, FurtherInv, WantedFurther, Reaches
      <4>4. CASE i \notin Cut(x, entity[x])
        <5>1. tail[x][i] \in [by : Models \cup {Absent}, version : Nat]
          BY <2>1, <2>4 DEF FurtherHolds, FurtherInv
        <5>2. CASE tail[x][i] # Nothing
          <6>1. /\ tail[x][i].by = stack /\ tail[x][i].version > 0
                /\ i \in Cut(x, tail[x][i].version) /\ tail[x][i].version <= entity[x]
            BY <2>1, <2>4, <4>1, <4>2, <5>2 DEF FurtherHolds, FurtherInv, PastInv
          <6>2. tail[x][i].version \in Outgrown(x, i)
            BY <4>1, <4>4, <5>1, <6>1 DEF Outgrown
          <6>3. tail[x][i] = Vector(stack, tail[x][i].version)
            BY <5>1, <6>1 DEF Vector
          <6>4. QED
            BY <4>4, <6>2, <6>3 DEF WantedFurther, Reaches
        <5>3. QED
          BY <4>4, <5>2 DEF WantedFurther, Reaches
      <4>5. QED
        BY <4>3, <4>4
    <3>4. QED
      BY <3>2, <3>3
  <2>5. QED
    BY <2>3, <2>4
<1>2. QED
  BY <1>1, FurtherHoldsAlways, PTL

=============================================================================
