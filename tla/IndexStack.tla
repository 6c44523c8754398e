----------------------------- MODULE IndexStack -----------------------------
(***************************************************************************)
(* The vector layer of one project and the settings it is built from.      *)
(* Rows (entities, reference documents) are the truth; two collections of  *)
(* one Chroma store, "canon" and "kb", hold what the embedding model made  *)
(* of them.  A request takes the store when it begins and indexes after    *)
(* its commit, in awaited steps; a settings change swaps the store under   *)
(* the requests in flight; one job rebuilds everything in the background.  *)
(* A store is told by its model, for two stores of one model do the same.  *)
(* An entity's text is cut into chunks, each with a vector of its own: the  *)
(* first there always is, the further ones depend on the text.             *)
(***************************************************************************)
EXTENDS Integers, FiniteSets

CONSTANTS
  Entities, Sources, \* ids of entities and of reference documents
  Requests,          \* slots of requests being served
  Patches,           \* the changes the settings page can send
  Places,            \* indexes of chunks after the first
  Cut(_, _),         \* which of them an entity has at a version of its text
  Absent,            \* no collection, no vector
  MaxActive,         \* bound: workers at work at a time, the job included
  MaxVersion,        \* bound: how often an entity is written
  MaxEvents          \* bound: settings changes, failed calls, process deaths

ASSUME IndexAssumption == 
  /\ {MaxActive, MaxVersion, MaxEvents} \subseteq Nat
  /\ \A e \in Entities, v \in 1 .. MaxVersion : Cut(e, v) \subseteq Places

(* Settings: a stored override per field, or Unset.  Keep leaves a field.  *)
Fields == {"provider", "key"}
Unset == "unset"
Keep == "keep"
Base == [provider |-> "local", key |-> ""]
Effective(o) == [f \in Fields |-> IF o[f] = Unset THEN Base[f] ELSE o[f]]
Merged(o, p) == [f \in Fields |-> IF p[f] = Keep THEN o[f] ELSE p[f]]
Buildable(o) == ~ (Effective(o).provider = "remote" /\ Effective(o).key = "")

(* The model of a configuration; a local one has the package's release.    *)
NoModel == "disabled"
Model(o, release) ==
  CASE Effective(o).provider = "disabled" -> NoModel
    [] Effective(o).provider = "remote" -> "remote"
    [] OTHER -> IF release = 0 THEN "local" ELSE "upgraded"
Models == {NoModel, "remote", "local", "upgraded"}

Kinds == {"canon", "kb"}
Items == Entities \cup Sources
Kind(x) == IF x \in Entities THEN "canon" ELSE "kb"
Of(kind) == {x \in Items : Kind(x) = kind}
Job == "job"
Workers == Requests \cup {Job}
Gone == -1

(* Names are told apart. *)
ASSUME NamesAssumption ==
  /\ Entities \cap Sources = {} /\ Job \notin Requests
  /\ Absent \notin Items \cup Workers \cup Models

VARIABLES
  up,        \* whether the process runs
  release,   \* which release of the local model is installed
  overrides, \* settings rows on disk
  running,   \* SettingsProvider._overrides
  lock,      \* who holds the settings lock, or Absent
  stack,     \* the model of the installed store
  stale,     \* EmbeddingStack._index_stale
  entity,    \* version of each entity's row, 0 before it, Gone after it
  source,    \* status and chunk_count > 0 of each document's row
  meta,      \* the model in a collection's metadata
  vectors,   \* what is stored of each item; of an entity, its first chunk
  tail,      \* what is stored of each entity's further chunks
  work,      \* what each worker is doing
  progress,  \* state of the reindex job
  events,    \* settings changes, failures and deaths so far
  exposed    \* history: items whose vectors may not match their rows

config == <<release, overrides, running, lock, stack, stale>>
rows == <<entity, source>>
store == <<meta, vectors, tail>>
vars == <<up, config, rows, store, work, progress, events, exposed>>

Idle == [op |-> "idle", at |-> "idle", store |-> NoModel, kind |-> "canon",
         batch |-> [x \in Items |-> 0], handle |-> FALSE, item |-> Absent,
         todo |-> {}, patch |-> [f \in Fields |-> Keep]]
Vector(m, v) == [by |-> m, version |-> v]
Nothing == Vector(Absent, 0)
Bare == [e \in Entities |-> [i \in Places |-> Nothing]]
NoRow == [status |-> "none", chunks |-> FALSE]

Statuses == {"none", "pending", "processing", "ready", "failed", "gone"}
Batches == [Items -> 0 .. MaxVersion]
Vectors == [by : Models \cup {Absent}, version : 0 .. MaxVersion]

TypeOK ==
  /\ up \in BOOLEAN /\ stale \in BOOLEAN /\ release \in 0 .. 1
  /\ {overrides, running} \subseteq [Fields -> STRING]
  /\ lock \in Requests \cup {Absent} /\ stack \in Models
  /\ entity \in [Entities -> Gone .. MaxVersion]
  /\ source \in [Sources -> [status : Statuses, chunks : BOOLEAN]]
  /\ meta \in [Kinds -> Models \cup {Absent}]
  /\ vectors \in [Items -> Vectors] /\ tail \in [Entities -> [Places -> Vectors]]
  /\ \A w \in Workers : work[w].batch \in Batches /\ work[w].todo \subseteq Sources
  /\ progress \in {"idle", "running", "done", "error"}
  /\ events \in 0 .. MaxEvents
  /\ exposed \subseteq Items

Init ==
  /\ up = TRUE /\ release = 0 /\ lock = Absent /\ stale = FALSE
  /\ overrides = [f \in Fields |-> Unset] /\ running = overrides
  /\ stack = Model(overrides, 0)
  /\ entity = [e \in Entities |-> 0] /\ source = [s \in Sources |-> NoRow]
  /\ meta = [k \in Kinds |-> Absent] /\ vectors = [x \in Items |-> Nothing]
  /\ tail = Bare
  /\ work = [w \in Workers |-> Idle] /\ progress = "idle"
  /\ events = 0 /\ exposed = {}

-----------------------------------------------------------------------------
(* History.  An item is exposed when two workers are at its vectors, or one *)
(* with the store of another model is: nothing orders their steps.          *)
IndexSteps == {"open", "write", "drop", "list", "mark", "settle", "fail",
               "read", "sources"}
AtVectors(w) ==
  IF work[w].at \notin IndexSteps THEN {}
  ELSE IF work[w].store # stack \/ work[w].op \in {"reindex", "all"} THEN Of(work[w].kind)
  ELSE IF work[w].op = "search" THEN {}
  ELSE {work[w].item}

Active == {w \in Workers : work[w] # Idle}
Contended ==
  LET touched == [w \in Workers |-> AtVectors(w)] IN
  {x \in Items : \E v, w \in Workers : v # w /\ x \in touched[v] \cap touched[w]}
Foreign == UNION {AtVectors(w) : w \in {v \in Active : work[v].store # stack}}

(* The last conjunct of every step: what it repairs, what it leaves behind. *)
Exposing(repaired, spoilt) ==
  exposed' = (exposed \ repaired) \cup spoilt \cup Contended' \cup Foreign'

-----------------------------------------------------------------------------
(* A worker's steps *)
At(w, op, at) == up /\ work[w].op = op /\ work[w].at = at
Goto(w, at) == work' = [work EXCEPT ![w].at = at]
Finish(w) == work' = [work EXCEPT ![w] = Idle]
Free(w) == up /\ work[w] = Idle /\ Cardinality(Active) < MaxActive

(* A request takes the installed store, through its dependencies.          *)
Begin(w, op, at, item, kind) ==
  /\ Free(w)
  /\ work' = [work EXCEPT ![w] = [Idle EXCEPT !.op = op, !.at = at,
                !.store = stack, !.item = item, !.kind = kind]]
  /\ UNCHANGED <<up, config, rows, store, progress, events>>
  /\ Exposing({}, {})

(* A collection that is dropped leaves the handles on it dead (what a      *)
(* removal holds before its commit is a count).  A search only reads from  *)
(* here on.                                                                *)
Dropped(kind, m) ==
  /\ meta' = [meta EXCEPT ![kind] = m]
  /\ vectors' = [x \in Items |-> IF Kind(x) = kind THEN Nothing ELSE vectors[x]]
  /\ tail' = IF kind = "canon" THEN Bare ELSE tail
Holding(w, alive, kind, at) ==
  work' = [v \in Workers |->
    CASE v = w -> IF work[v].op = "search" THEN Idle
                  ELSE [work[v] EXCEPT !.handle = TRUE, !.at = at]
      [] v # w /\ ~ alive /\ work[v].kind = kind /\ work[v].at # "mark"
           -> [work[v] EXCEPT !.handle = FALSE]
      [] OTHER -> work[v]]

(* Variant, to test OneModelPerCollection: the metadata is not compared.   *)
CollectionSync_Trusting(w, kind) ==
  IF meta[kind] # Absent
  THEN UNCHANGED store /\ Holding(w, TRUE, kind, "write")
  ELSE Dropped(kind, work[w].store) /\ Holding(w, FALSE, kind, "write")

(* _collection_sync: the collection of another model is dropped and made    *)
(* anew, empty.                                                            *)
CollectionSync(w, kind) ==
  IF meta[kind] = work[w].store
  THEN UNCHANGED store /\ Holding(w, TRUE, kind, "write")
  ELSE Dropped(kind, work[w].store) /\ Holding(w, FALSE, kind, "write")

Batched(w) == {x \in Items : work[w].batch[x] > 0}

(* What follows a failed call of the vector layer: a request logs it, an    *)
(* ingestion marks its document failed, a job ends in error.               *)
Spoilt(w) == AtVectors(w)
FailTo(w) ==
  \/ /\ work[w].op \in {"edit", "delete", "remove", "search", "reindex"}
     /\ Finish(w) /\ UNCHANGED progress
  \/ /\ work[w].op = "ingest" \/ (work[w].op = "all" /\ work[w].item # Absent)
     /\ Goto(w, "fail") /\ UNCHANGED progress
  \/ /\ work[w].op = "all" /\ work[w].item = Absent
     /\ Finish(w) /\ progress' = "error"

Open(w) ==
  /\ up /\ work[w].at = "open"
  /\ CollectionSync(w, work[w].kind)
  /\ UNCHANGED <<up, config, rows, progress, events>>
  /\ Exposing({}, {})

(* The call on the collection that follows, and where it leads.            *)
AfterWrite(w) ==
  CASE work[w].op = "ingest" -> Goto(w, "settle")
    [] work[w].op = "all" ->
         Goto(w, IF work[w].item = Absent THEN "sources" ELSE "settle")
    [] OTHER -> Finish(w)

(* A chunk replaces the one of its entity and index; those that the text is *)
(* now too short for stay.  The chunks of what is deleted all go, found by  *)
(* their entity.                                                           *)
Upserted(w, e, i) == e \in Batched(w) /\ i \in Cut(e, work[w].batch[e])
Further(w, gone) ==
  [e \in Entities |-> [i \in Places |->
     CASE Upserted(w, e, i) -> Vector(work[w].store, work[w].batch[e])
       [] e \in gone -> Nothing
       [] OTHER -> tail[e][i]]]

(* Variant, to test MirrorsRows: only what is written again is replaced.   *)
Write_KeepsDeleted(w) ==
  /\ up /\ work[w].at = "write"
  /\ UNCHANGED <<up, config, rows, meta, events>>
  /\ IF work[w].handle
     THEN /\ vectors' = [x \in Items |->
               IF x \in Batched(w) THEN Vector(work[w].store, work[w].batch[x])
                                   ELSE vectors[x]]
          /\ tail' = Further(w, {})
          /\ AfterWrite(w) /\ UNCHANGED progress /\ Exposing({}, {})
     ELSE UNCHANGED <<vectors, tail>> /\ FailTo(w) /\ Exposing({}, Spoilt(w))

Write(w) ==
  /\ up /\ work[w].at = "write"
  /\ UNCHANGED <<up, config, rows, meta, events>>
  /\ IF work[w].handle
     THEN /\ vectors' = [x \in Items |->
               CASE x \in Batched(w) -> Vector(work[w].store, work[w].batch[x])
                 [] x = work[w].item /\ work[w].op \in {"delete", "remove"} -> Nothing
                 [] OTHER -> vectors[x]]
          /\ tail' = Further(w, IF work[w].op = "delete" THEN {work[w].item} ELSE {})
          /\ AfterWrite(w) /\ UNCHANGED progress /\ Exposing({}, {})
     ELSE UNCHANGED <<vectors, tail>> /\ FailTo(w) /\ Exposing({}, Spoilt(w))

(* The embedder or the store fails.                                        *)
CallFails(w) ==
  /\ up /\ work[w].at \in {"open", "write"} /\ events < MaxEvents
  /\ events' = events + 1
  /\ FailTo(w)
  /\ UNCHANGED <<up, config, rows, store>>
  /\ Exposing({}, Spoilt(w))

-----------------------------------------------------------------------------
(* Entities: commit first, then the index *)
Writers(e) == {w \in Requests : work[w].op = "edit" /\ work[w].at = "commit"
                                /\ work[w].item = e}
Edit(w, e) ==
  /\ entity[e] # Gone /\ entity[e] + Cardinality(Writers(e)) < MaxVersion
  /\ Begin(w, "edit", "commit", e, "canon")
DeleteEntity(w, e) == entity[e] > 0 /\ Begin(w, "delete", "commit", e, "canon")

(* The store of the request is NoModel: the write is not indexed.          *)
Indexing(w, version) ==
  IF work[w].store = NoModel THEN Finish(w)
  ELSE work' = [work EXCEPT ![w].at = "open", ![w].batch[work[w].item] = version]

CommitEdit(w) ==
  LET e == work[w].item IN
  /\ At(w, "edit", "commit")
  /\ UNCHANGED <<up, config, source, store, progress, events>>
  /\ IF entity[e] = Gone
     THEN UNCHANGED entity /\ Finish(w) /\ Exposing({}, {})
     ELSE /\ entity' = [entity EXCEPT ![e] = @ + 1]
          /\ Indexing(w, entity[e] + 1)
          /\ Exposing({}, IF work[w].store = NoModel THEN {e} ELSE {})

CommitDelete(w) ==
  LET e == work[w].item IN
  /\ At(w, "delete", "commit")
  /\ UNCHANGED <<up, config, source, store, progress, events>>
  /\ IF entity[e] = Gone
     THEN UNCHANGED entity /\ Finish(w) /\ Exposing({}, {})
     ELSE /\ entity' = [entity EXCEPT ![e] = Gone]
          /\ Indexing(w, 0)
          /\ Exposing({}, IF work[w].store = NoModel THEN {e} ELSE {})

Search(w, kind) == stack # NoModel /\ Begin(w, "search", "open", Absent, kind)

-----------------------------------------------------------------------------
(* Reference documents *)
Upload(w, s) ==
  /\ Free(w) /\ source[s].status = "none"
  /\ source' = [source EXCEPT ![s].status = "pending"]
  /\ work' = [work EXCEPT ![w] = [Idle EXCEPT !.op = "ingest", !.at = "mark",
                !.store = stack, !.item = s, !.kind = "kb"]]
  /\ UNCHANGED <<up, config, entity, store, progress, events>>
  /\ Exposing({}, {})

(* update_status raises for a row that has gone, in the handler as well:    *)
(* an ingestion dies, a job ends in error.                                 *)
RowGone(w) ==
  /\ source[work[w].item].status = "gone"
  /\ UNCHANGED source /\ Finish(w)
  /\ progress' = IF w = Job THEN "error" ELSE progress
  /\ Exposing({}, Spoilt(w))

NextSource(w) ==
  work' = [work EXCEPT ![w].at = "read", ![w].item = Absent,
                       ![w].batch = [x \in Items |-> 0]]
Settled(w) == IF w = Job THEN NextSource(w) ELSE Finish(w)
Ingesting(w, at) == up /\ work[w].op \in {"ingest", "all"} /\ work[w].at = at

Mark(w) ==
  LET s == work[w].item IN
  /\ Ingesting(w, "mark")
  /\ UNCHANGED <<up, config, entity, store, events>>
  /\ \/ RowGone(w)
     \/ /\ source[s].status # "gone"
        /\ source' = [source EXCEPT ![s].status = "processing"]
        /\ IF work[w].store = NoModel THEN Goto(w, "settle")
           ELSE work' = [work EXCEPT ![w].at = "open", ![w].batch[s] = 1]
        /\ UNCHANGED progress
        /\ Exposing({}, {})

Settle(w) ==
  LET s == work[w].item IN
  /\ Ingesting(w, "settle")
  /\ UNCHANGED <<up, config, entity, store, events>>
  /\ \/ RowGone(w)
     \/ /\ source[s].status # "gone"
        /\ source' = [source EXCEPT ![s] =
             [status |-> "ready", chunks |-> work[w].store # NoModel]]
        /\ Settled(w)
        /\ UNCHANGED progress
        /\ Exposing({}, IF work[w].store # stack THEN {s} ELSE {})

Fail(w) ==
  LET s == work[w].item IN
  /\ Ingesting(w, "fail")
  /\ UNCHANGED <<up, config, entity, store, events>>
  /\ \/ RowGone(w)
     \/ /\ source[s].status # "gone"
        /\ source' = [source EXCEPT ![s].status = "failed"]
        /\ Settled(w)
        /\ UNCHANGED progress
        /\ Exposing({}, {})

(* Deleting reads chunk_count, deletes the row, and removes that many.      *)
Remove(w, s) ==
  /\ Free(w) /\ source[s].status \notin {"none", "gone"}
  /\ work' = [work EXCEPT ![w] = [Idle EXCEPT !.op = "remove", !.at = "mark",
                !.store = stack, !.item = s, !.kind = "kb",
                !.handle = source[s].chunks]]
  /\ UNCHANGED <<up, config, rows, store, progress, events>>
  /\ Exposing({}, {})

CommitRemove(w) ==
  LET s == work[w].item IN
  /\ At(w, "remove", "mark")
  /\ UNCHANGED <<up, config, entity, store, progress, events>>
  /\ source' = [source EXCEPT ![s].status = "gone"]
  /\ IF source[s].status = "gone" \/ work[w].store = NoModel \/ ~ work[w].handle
     THEN /\ Finish(w)
          /\ Exposing({}, IF work[w].store # stack THEN {s} ELSE {})
     ELSE Goto(w, "open") /\ Exposing({}, {})

-----------------------------------------------------------------------------
(* Reindexing: of the project's canon by a request, of everything by the job *)
ReindexProject(w) == stack # NoModel /\ Begin(w, "reindex", "drop", Absent, "canon")

(* start: the job reads the stack when its task first runs.                *)
Started(w) == [Idle EXCEPT !.op = "all", !.at = "begin"]
StartReindex ==
  /\ Free(Job) /\ stack # NoModel /\ progress # "running"
  /\ progress' = "running"
  /\ work' = [work EXCEPT ![Job] = Started(Job)]
  /\ UNCHANGED <<up, config, rows, store, events>>
  /\ Exposing({}, {})

BeginJob ==
  /\ At(Job, "all", "begin")
  /\ IF stack = NoModel
     THEN Finish(Job) /\ progress' = "done"
     ELSE /\ work' = [work EXCEPT ![Job].store = stack, ![Job].at = "drop"]
          /\ UNCHANGED progress
  /\ UNCHANGED <<up, config, rows, store, events>>
  /\ Exposing({}, {})

(* What a rebuild writes again: not a document that came after it listed    *)
(* them, whose vectors go with the collection.                             *)
Rebuilds(w) ==
  {x \in Of(work[w].kind) :
     x \in Entities \cup work[w].todo \/ source[x].status \in {"none", "gone"}}

Drop(w) ==
  /\ up /\ work[w].op \in {"reindex", "all"} /\ work[w].at = "drop"
  /\ Dropped(work[w].kind, Absent)
  /\ Holding(w, FALSE, work[w].kind, IF work[w].kind = "canon" THEN "list" ELSE "read")
  /\ UNCHANGED <<up, config, rows, progress, events>>
  /\ Exposing(Rebuilds(w), Of(work[w].kind) \ Rebuilds(w))

List(w) ==
  LET stored == {e \in Entities : entity[e] > 0} IN
  /\ up /\ work[w].op \in {"reindex", "all"} /\ work[w].at = "list"
  /\ IF stored = {}
     THEN IF w = Job THEN Goto(w, "sources") ELSE Finish(w)
     ELSE work' = [work EXCEPT ![w].at = "open",
            ![w].batch = [x \in Items |-> IF x \in stored THEN entity[x] ELSE 0]]
  /\ UNCHANGED <<up, config, rows, store, progress, events>>
  /\ Exposing({}, {})

(* The end of a clean pass: the flag falls whatever the stack is by now.   *)
EndJob ==
  /\ Finish(Job) /\ progress' = "done" /\ stale' = FALSE
  /\ UNCHANGED <<up, release, overrides, running, lock, stack,
                 rows, store, events>>

ListSources ==
  LET listed == {s \in Sources : source[s].status \notin {"none", "gone"}} IN
  /\ At(Job, "all", "sources")
  /\ \/ listed = {} /\ EndJob
     \/ /\ listed # {}
        /\ work' = [work EXCEPT ![Job].at = "drop", ![Job].kind = "kb",
                      ![Job].todo = listed, ![Job].batch = [x \in Items |-> 0]]
        /\ UNCHANGED <<up, config, rows, store, progress, events>>
  /\ Exposing({}, {})

(* The stored file of the next document; its row may have gone.            *)
ReadSource(s) ==
  /\ At(Job, "all", "read") /\ s \in work[Job].todo
  /\ UNCHANGED <<up, config, rows, store, events>>
  /\ IF source[s].status = "gone"
     THEN Finish(Job) /\ progress' = "error" /\ Exposing({}, Spoilt(Job))
     ELSE /\ work' = [work EXCEPT ![Job].todo = @ \ {s}, ![Job].item = s,
                                  ![Job].at = "mark"]
          /\ UNCHANGED progress /\ Exposing({}, {})

AllRead ==
  /\ At(Job, "all", "read") /\ work[Job].todo = {}
  /\ EndJob /\ Exposing({}, {})

-----------------------------------------------------------------------------
(* Settings: read, build, persist and apply under one lock *)
Save(w, p) ==
  /\ Free(w) /\ events < MaxEvents
  /\ events' = events + 1
  /\ work' = [work EXCEPT ![w] = [Idle EXCEPT !.op = "save", !.at = "lock",
                !.patch = p]]
  /\ UNCHANGED <<up, release, overrides, running, lock, stack, stale, rows, store,
                 progress>>
  /\ Exposing({}, {})

(* Variant, to test ConfigurationHolds: saves do not wait for each other.  *)
BuildFirst_Unlocked(w) ==
  /\ At(w, "save", "lock")
  /\ UNCHANGED <<up, release, overrides, running, stack, stale, rows, store,
                 progress, events>>
  /\ IF Buildable(Merged(running, work[w].patch))
     THEN lock' = w /\ Goto(w, "persist")
     ELSE UNCHANGED lock /\ Finish(w)
  /\ Exposing({}, {})

(* A candidate that cannot be built is refused before anything is stored.  *)
BuildFirst(w) ==
  /\ At(w, "save", "lock") /\ lock = Absent
  /\ IF Buildable(Merged(running, work[w].patch))
     THEN lock' = w /\ Goto(w, "persist")
     ELSE UNCHANGED lock /\ Finish(w)
  /\ UNCHANGED <<up, release, overrides, running, stack, stale, rows, store,
                 progress, events>>
  /\ Exposing({}, {})

Persist(w) ==
  /\ At(w, "save", "persist")
  /\ overrides' = Merged(overrides, work[w].patch)
  /\ Goto(w, "apply")
  /\ UNCHANGED <<up, release, running, lock, stack, stale, rows, store,
                 progress, events>>
  /\ Exposing({}, {})

PersistFails(w) ==
  /\ At(w, "save", "persist") /\ events < MaxEvents
  /\ events' = events + 1 /\ lock' = Absent /\ Finish(w)
  /\ UNCHANGED <<up, release, overrides, running, stack, stale, rows, store,
                 progress>>
  /\ Exposing({}, {})

(* No await from here to the end: swap the settings, rebuild the stack (the *)
(* flag falls), let go of the lock, start a reindex unless one is running. *)
Apply(w) ==
  LET merged == Merged(running, work[w].patch)
      model == Model(merged, release)
      starts == model # stack /\ model # NoModel /\ progress # "running" IN
  /\ At(w, "save", "apply")
  /\ running' = merged /\ stack' = model /\ stale' = FALSE /\ lock' = Absent
  /\ progress' = IF starts THEN "running" ELSE progress
  /\ work' = [v \in Workers |->
       CASE v = w -> Idle [] v = Job /\ starts -> Started(v) [] OTHER -> work[v]]
  /\ UNCHANGED <<up, release, overrides, rows, store, events>>
  /\ Exposing({}, IF model # stack THEN Items ELSE {})

-----------------------------------------------------------------------------
(* The process *)
Busy == UNION {AtVectors(w) : w \in Workers}

Kill ==
  /\ up /\ events < MaxEvents
  /\ events' = events + 1 /\ up' = FALSE
  /\ work' = [w \in Workers |-> Idle] /\ lock' = Absent /\ progress' = "idle"
  /\ UNCHANGED <<release, overrides, running, stack, stale, rows, store>>
  /\ exposed' = exposed \cup Busy

(* Only the collection named after the project is examined for staleness.  *)
Start(upgrade) ==
  LET model == Model(overrides, upgrade) IN
  /\ ~ up /\ Buildable(overrides) /\ upgrade >= release
  /\ up' = TRUE /\ release' = upgrade
  /\ running' = overrides /\ stack' = model
  /\ stale' = (model # NoModel /\ meta["canon"] \notin {Absent, model})
  /\ UNCHANGED <<overrides, lock, rows, store, work, progress, events>>
  /\ exposed' = exposed \cup (IF model # stack THEN Items ELSE {})

Step(w) ==
  \/ Open(w) \/ Write(w) \/ CallFails(w)
  \/ CommitEdit(w) \/ CommitDelete(w)
  \/ Mark(w) \/ Settle(w) \/ Fail(w) \/ CommitRemove(w)
  \/ Drop(w) \/ List(w)
  \/ BuildFirst(w) \/ Persist(w) \/ PersistFails(w) \/ Apply(w)

Arrive(w) ==
  \/ \E e \in Entities : Edit(w, e) \/ DeleteEntity(w, e)
  \/ \E s \in Sources : Upload(w, s) \/ Remove(w, s)
  \/ \E kind \in Kinds : Search(w, kind)
  \/ ReindexProject(w)
  \/ \E p \in Patches : Save(w, p)

Next ==
  \/ \E w \in Workers : Step(w)
  \/ \E w \in Requests : Arrive(w)
  \/ StartReindex \/ BeginJob \/ ListSources \/ AllRead
  \/ \E s \in Sources : ReadSource(s)
  \/ Kill
  \/ \E upgrade \in 0 .. 1 : Start(upgrade)

Spec == Init /\ [][Next]_vars

-----------------------------------------------------------------------------
(* What is on disk can always be started from, whatever was saved, refused  *)
(* or cut short; and while nobody holds the settings lock, the settings in  *)
(* use are those on disk and the installed store is the one they describe.  *)
ConfigurationHolds ==
  /\ Buildable(overrides)
  /\ up /\ lock = Absent =>
       running = overrides /\ stack = Model(running, release)

(* A collection never holds a vector of another model than its metadata    *)
(* names, though requests write through stores that have been replaced.    *)
FirstsAgree ==
  \A x \in Items : vectors[x] # Nothing => vectors[x].by = meta[Kind(x)]
FurtherAgree ==
  \A e \in Entities, i \in Places : tail[e][i] # Nothing => tail[e][i].by = meta["canon"]
OneModelPerCollection == FirstsAgree /\ FurtherAgree

(* Away from exposed items, what is stored is what the rows call for: every *)
(* chunk of each entity's last version, each ready document, nothing of     *)
(* what was deleted; so a reindex repairs whatever nobody disturbs.  Not    *)
(* only that: an entity that has become shorter keeps chunks of earlier     *)
(* versions, where its text no longer reaches (index_entity upserts).      *)
Wanted(x) ==
  IF x \in Entities
  THEN {IF entity[x] > 0 THEN Vector(stack, entity[x]) ELSE Nothing}
  ELSE CASE source[x].status = "ready" -> {Vector(stack, 1)}
         [] source[x].status \in {"none", "gone"} -> {Nothing}
         [] OTHER -> {Nothing, Vector(stack, 1)}
Reaches(e, i) == entity[e] > 0 /\ i \in Cut(e, entity[e])
Outgrown(e, i) == {v \in 1 .. entity[e] - 1 : i \in Cut(e, v)}
WantedFurther(e, i) ==
  IF Reaches(e, i) THEN {Vector(stack, entity[e])}
  ELSE {Nothing} \cup {Vector(stack, v) : v \in Outgrown(e, i)}
MirrorsRows ==
  up /\ stack # NoModel =>
    \A x \in Items \ (exposed \cup Busy) :
      /\ vectors[x] \in Wanted(x)
      /\ x \in Entities => \A i \in Places : tail[x][i] \in WantedFurther(x, i)

(* "Ask the store whether anything it persisted is now unreadable": after a *)
(* start the flag is up if some collection is of another model.            *)
UnreadableIsFlagged ==
  [][~ up /\ up' /\ stack' # NoModel
       /\ (\E k \in Kinds : meta[k] \notin {Absent, stack'}) => stale']_vars
=============================================================================
