# Loregraph in TLA+

Loregraph is a self-hosted world-building tool: a game master keeps a graph of
lore entities, an LLM agent proposes additions to it, players see what is
revealed, and connectors carry the world to Obsidian, Foundry and back.  Its
central promise is that nothing the agent writes reaches the world without the
game master's decision.  This directory models how that promise and those around
it are kept, checks them with TLC on small instances, and proves the core with
TLAPS for every instance.

Paths below are relative to `src/`; `loregraph/` stands for
`backend/src/loregraph/`.

## 1. Inventory

The backend is one asyncio process over SQLite.  Within a request, code runs
without interruption from one `await` to the next; every `await` is a place where
another request runs.  Each request has one SQLAlchemy session, shared by all its
stores (`loregraph/api/deps.py`), and every store call commits by itself.  The
auth service is a separate Go process, where every request is a goroutine.

| Component | State it keeps | Operations | Talks to |
|---|---|---|---|
| Agent conversation (`api/routers/agent.py`, `agent/runner.py`, `agent/graph.py`, `agent/nodes/`) | session row (status, review snapshot, committed ids); LangGraph checkpoint of the thread | message, skill run, review; the graph's nodes; finalize | LLM, stores, event bus, connector push |
| Commit of a proposal (`agent/nodes/commit.py`, `agent/relationships.py`) | progress of one batch | preflight, create, patch, relationship operations, compensation | entity and edge services |
| Entity and edge services and stores | rows; vectors as derived data | create, update, patch, player view, icon, delete, link, relink, unlink | SQLite, vector index |
| Bulk import (`agent/import_*.py`, `api/routers/import_jobs.py`) | job row, import checkpoint | start, extract, merge, review page, commit page, commit relationships | LLM, services |
| Realtime events (`services/event_bus.py`, `api/routers/realtime.py`) | ring buffer and subscriber queues per project | publish, subscribe with catch-up | runner, WebSocket clients |
| Settings, knowledge base and embeddings (`services/knowledge_*.py`, `embedding_stack.py`, `reindex_job.py`, `api/routers/settings.py`) | overrides, installed store, source rows, collections and their model, staleness flag | save, upload, ingest, delete, index, search, rebuild, reindex | vector store, embedder |
| Auth service (`auth/`, Go) | users and refresh tokens in memory, saved as JSON; key pair and salt in files | register, login, refresh, logout, logout all, cleanup | the backend's proxy |
| Shared play (`api/routers/play.py`, `players.py`, `services/player_view.py`, `files.py`) | players and token hashes, flags of entities and fields, notes, attachments and their files | start, look, read and write notes; reveal, save, patch, revoke, upload, delete | browsers of players and of the game master |
| Connectors (`connectors/`, `services/connector_push.py`) | connection row, links, cached clients and their processes | export, push, import, edit and delete a connection | Foundry's bridge, a vault on disk, MCP servers |
| Reading the world (`agent/nodes/tools.py`, `services/lore_search.py`, `graph_query.py`, `retrieve_context.py`) | none of their own | search, neighbourhood, pages of relationships, retrieval for a proposal | stores, vector store |
| Validation of a proposal (`validate_changes.py`, `agent/relationships.py`) | draft, warnings, attempts in the graph's state | list, drop or keep, warn, retry, review, preflight | stores |
| Exchange formats (`connectors/markdown_codec.py`, `longstoryshort/`, `services/project_transfer.py`, `llm/structured.py`) | none of their own | convert, parse, merge, export and rebuild, ask and retry | files, sites, providers |
| Templates and formulas, network and updates, MCP server, frontend, launchers | rows, configuration, views | single-row writes and calls to the outside | - |

What is hard, and what must be right:

* **Agent conversation.** The status check is made twice, both times before the
  turn loads the checkpoint; two turns of one thread can overlap, and each saves
  its own copy of the state.  A turn ends in an answer, an exception, the
  600-second ceiling, a cancelled request, a generator abandoned at a `yield`, or
  the death of the process, and registry and checkpoint are separate databases.
  Right means: only approved content is written, a proposal is written once, the
  review card shows what an approval approves, registry and thread agree between
  turns, the retry loop ends.
* **Commit.** A dozen separately committed writes with awaits in between, while
  the game master edits the same rows.  Right means: the preflight foresees every
  failure a still world can produce, a failure is compensated and comes before
  the first irreversible delete, and what was done is what is reported.
* **Events.** The browser resumes a lost connection from the last number it saw;
  the server replays from a bounded buffer while publishers go on, drops what does
  not fit a slow client's queue, and does not notice a dead client until it next
  sends.  Right means: nothing arrives twice or out of order, what was in flight on
  a dead connection is replayed, and what is skipped is skipped for a known reason.
* **Bulk import.** The same gate, page by page, over a graph that may fail, be
  abandoned or die on any page.  Right means: what is in canon was decided, a page
  is written whole or not at all, relationships between pages are all written, row
  and thread agree, a job comes to rest.
* **Vector layer.** A request uses the store it began with while a settings change
  installs another and a background job drops and rebuilds the collections.  Right
  means: what is saved can be started from, a collection is of one model, and
  vectors mirror rows wherever nobody raced.
* **Auth.** Rotation, logout and registration in separately locked steps, saves
  that copy under one lock and write under another, and a process that may be
  killed between any two.  Right means: a token whose end was acknowledged stays
  dead, one handed out works, accounts stay, the keys match.
* **Shared play.** A player's request reads in several awaits while the game master
  hides, revokes and deletes; three writers put back whole columns they have read
  before.  Right means: an answer holds nothing its player could not see, the
  flags are those the game master chose, a row of an attachment has its file.
* **Connectors.** Calls that fail after they were done, ids read from answers,
  clients under a lock, a vault the user works in too.  Right means: a link names
  the document that was made, a note survives its renaming, no process is left
  behind that nobody will close.
* **Reading and validating.** Pages are cut by offset out of a list read anew for
  each; a draft is held against entities listed at one moment, edges read at another
  and ids shown before both.  Right means: "this is all of them" is true of a world at
  rest, a ranking is fair to what it ranks, what is dropped is said, and what was kept
  is refused only for what changed.
* **Exchange.** Retries nested three deep; worlds rebuilt under new ids; documents
  that go to Markdown and come home; sheets merged into rows the game master edits.

`PROJECT.json` lists these hazards at their lines, each with the properties that
would catch it or the reason why none does.

## 2. Modules

| Module | What it is |
|---|---|
| `ReviewGate` | The promise: approvals and writes, a write only of content an approval grants, at most one of each per request, nothing taken back. |
| `AgentTurn` | One conversation: session row, checkpoint, any number of client requests and their turns. |
| `CommitBatch` | One run of the commit node against a world others edit. `AgentTurn`'s `CommitApplies`, `CommitRaises` and `CommitNothing` are its summary. |
| `EventBus` | The realtime feed of one project to one page: publishers, the handler of each WebSocket, the browser's channel. Independent of the others: nothing waits for it. |
| `ImportMerge`, `ImportJob` | The pure part of a bulk import (registry and merge as functions of sequences), and the jobs, their graphs and runners, which extend it. |
| `AuthTokens` | The auth service: both repositories, their files, the secrets, and requests as goroutines. |
| `IndexStack` | Settings, the installed embedding stack, the two collections, entity and document rows, the reindex job. |
| `SharedPlay` | Players, notes, flags, the editor, the agent's patches, attachments and files. |
| `Connections` | One connection to a tool: row, links, the cache of clients and their processes. `FoundrySync` and `ObsidianVault` extend it with what each connector does; `ConnectorSync` composes the three. |
| `StructuredCall`, `ProjectTransfer`, `MarkdownNotes`, `CharacterImport` | What crosses the border of the program, each with its own small state machine. |
| `LoreTools` | The assistant's read tools and the searches and graph queries behind them. |
| `ProposalCheck` | A proposal from retrieval to preflight, in detail: `AgentTurn` has its place in the conversation, `CommitBatch` the writes that follow. |
| `AgentProofs` | Theorems about `AgentTurn`, `StructuredCall` and `ProposalCheck`. |
| `ImportProofs` | Theorems about `ImportJob` and `ProjectTransfer`. |
| `CommitBatchProofs`, `ConnectorSyncProofs`, `EventBusProofs`, `AuthTokensProofs`, `IndexStackProofs`, `SharedPlayProofs` | Theorems about the module of that name. |
| `MC...` | Instances for TLC: symmetry, starting points, inputs, bounds. `MCExchange` composes the six modules from `StructuredCall` to `ProposalCheck`, one kind of input at a time. |

### AgentTurn and the code

`session` is the row of `AgentSessionStore`; `ckpt` the thread's latest
checkpoint: its values, the node it would execute next, whether an interrupt is
stored with it, and which turn saved it.  `pc[r]` says where request `r` is:

    new -> guarded -> required -> starting -> (resuming | graph) ...
        -> [applied] -> finalizing -> reconciled -> [announcing] -> done

| Action | Code |
|---|---|
| `Arrive` | the router's guards, `api/routers/agent.py:92-155` |
| `RequireSession` | `AgentRunner._require` and the repeated check, `runner.py:138-151, 203-215, 237-246` |
| `StartTurn` | status to `running`, `runner.py:285` |
| `LoadForInput`, `LoadForReview` | `astream` of an input, or of a resume command |
| `Assistant` ... `CommitSaved` | the nodes in `agent/nodes/`, one action each with its routing function |
| `ReadState`, `ReconcilePending`, `ReconcileResolved` | `_finalize`, `runner.py:395-431`: two reads of the checkpoint with an await in between, then the update |
| `Announce` | `runner.py:361-384` |
| `NodeError`, `Timeout`, `Cancel` | the three handlers, `runner.py:323-349`, wherever the stream is open (`InStream`): its end after the checkpoint of `commit` included, so that a turn may fail with its commit saved and untold |
| `Abandon`, `Crash` | no handler runs: the client goes away while the stream is suspended at a `yield`, or anywhere outside the handlers; or the process dies |

LangGraph is modelled from how the runner uses it: a new input merges into the
thread's latest values and starts at the entry node, whatever the thread was in
the middle of; a resume continues at the recorded node; each node's update is
merged and saved before the next node starts; an interrupt belongs to the
checkpoint its turn saved last.  The `commit` node is split where a crash
matters: after its writes (`CommitApplies`) and at its checkpoint
(`CommitSaved`).

The graph state keeps what control depends on.  `over_budget` stands for the
token counts, `retry_feedback` for a non-empty text.  `approved`, `writes`,
`origin`, `shown`, `announced` and the field `grant` are history: no guard of
the code's reads them.

### CommitBatch and the code

A service call that reads a row, awaits and writes it back is two actions
(`PatchRead`/`PatchWrite`, `RelateRead`/`LinkWrite`...); creating commits the row
(`CreateRow`) before its id is recorded (`CreateReturns`), because the call goes on
to index the entity.  `usable` is whether the shared database session works: a
flush that fails on a vanished row or a foreign key leaves it broken, since
nothing calls `rollback()`, and then each deletion of the compensation fails and is
only logged.  `Turn(k)` says whose turn it is among the operations not yet `tried`: the
three loops over one list, as the choice of the next position.  `moved` and `cancelled`
are history.

### EventBus and the code

| State | Code |
|---|---|
| `seq`, `Evicted` | `_seq` and the bounded `_buffer` of `_ProjectChannel`: the buffer holds the numbers from `Evicted + 1` to `seq` |
| `stage`, `asked`, `todo`, `queue` | one coroutine of `project_events_ws` per connection: not yet accepted, in the replay loop of `subscribe`, or draining its queue |
| `socket`, `wire`, `lastSeq` | `ProjectEventChannel` in `useProjectEvents.ts`: its socket, the events sent and not yet received, the number it resumes from |
| `epoch`, `log`, `missed` | history: which process numbered an event, what the page received, what the feed is entitled to lose |

`Publish` is one step, being free of awaits; the end of the last replay send and
the registration of the queue are two (`SendReplay`, `Register`).  `Notice` is the
failed send that ends a handler; a handler with nothing to send outlives its
client.  `missed` is filled by where the parties stand when an event is published
or a replay begins (`LetGo`, `OutOfReach`), never by what is then sent, so that a
wrong replay is not excused by itself.

### ImportJob, ImportMerge and the code

A job has the name of the request that started it.  `job` is its row, `ckpt` its
graph's checkpoint, `mem[r]` the copy a turn works on, `batch[r]` the
`created_ids` of the page being committed (a set: their order is only that of the
compensation).  Each node of `import_graph.py` is an
action; `commit_slice` is one action per created entity (`CreateEntity`), the
checkpoint (`CommitSlice`), and the compensation in `NodeError` and `Cancelled`.
`WriteEdges` is `commit_relationships` broken off after any number of its edges, by an
exception, the ceiling or a cancellation.  `InStream` is where the runner's handlers stand:
while the stream is opened, while a node is at work, and while it ends.
`BuildRegistryNode` merges the windows in whichever order their tasks end
(`import_registry.py:138`).  What the LLM finds in a window is drawn from `Documents`; `AddRegistryEntry` and
`MergeExtractions` say what the code makes of it, with `Similar` for the fuzzy
ratio of titles.  A page is the set of its entities' places in the merged list, so
that an edit is a subset of it and `PageOf` tells which page an entity came from.
`decided`, `overlap`, `cut`, `left` and `deleted` are history.

### AuthTokens and the code

A token and an account have the name of the request that made them.  An action is
what a goroutine does under one lock: `users`/`roles` and `stored`/`revoked` are
the maps of the repositories, `saveMu` the copy a save has taken, `disk` what was
written by rename.  `RevokedAt` is set on a model the map shares with snapshots
already taken, and a save marshals those outside the lock: whether such a snapshot
sees the revocation is a choice.  `over` (history) holds the tokens an acknowledged request
used or revoked itself, `told` those a logout reported gone because it found them so.  `files`
and `secret` are key pair, salt and
pepper by generation.  A kill may fall anywhere, including between the two key
files (`torn`).

### IndexStack and the code

A store is told by its model, since two stores of one model do the same.  `vectors` holds
the first chunk of an entity and `tail` the others: `Cut` gives the chunks a version has, an
upsert replaces those and leaves the rest (`vector_index.py:128-129`), a removal takes all.  `work[w]`
holds the store a request was given by its dependencies, the handle on the
collection it opened and the batch it will write; dropping a collection kills the
handles on it.  `Exposing` is history, the last conjunct of every step: an item is
exposed while two workers, or one with a replaced store, are at its vectors, until
a rebuild that will write it again (`Rebuilds`) begins with nobody else there.  A
document that comes between the job's listing of the documents and its drop of their
collection is not on that list, so the drop exposes it.  `MirrorsRows` is about all other
items.

### SharedPlay and the code

`req[r]` is one request, its reads so far and its answer; `hidden` (history) loses a
thing as soon as the player may see it, so an answer may hold what was visible at
any moment since the question, and nothing else.  `Read`/`WriteEntity` are the three
writers of an entity's columns; `page` is the editor's copy in the browser.  `muddled`
(history) marks an entity written from a copy that was out of date.

### Connections, FoundrySync, ObsidianVault and the code

`cache`, `lock` and `proc` are `ConnectorRuntime` and the processes behind it;
`link` the rows of `ConnectionEntityLink`; `req[r]` an export, push, import or tool
call with the plan it has read.  Each call to Foundry's bridge and each write of a
row is a step, and a call may fail before or after the server did it.  In the vault
each note is a path with the entity its frontmatter names; the thread that `_write_note`
starts is two steps, `WriteNote` and `RemoveStale`, between which the thread of another export
may do the like; `WriteNoteFails` leaves a torn file, or the stale one, and the user moves,
copies, writes and deletes notes.  `Upsert` looks for the link it saw when it was asked
(`seen`), and so may insert a second row (`older`) beside one that came meanwhile.

### StructuredCall, ProjectTransfer, MarkdownNotes, CharacterImport and the code

* `StructuredCall`: `ResolveCapabilities`, the classification of an exception by its
  marks, and the three nested loops as one record with a program counter; `tokens`
  (history) is what the provider reported and what the code lost.
* `ProjectTransfer`: one action per await of `export_project` while `original` changes,
  and one per row of `import_project`; ids are pairs of a project and a number, so a
  reference left to the old project shows.  `IsProject` says what any file may hold,
  `IsLinked` what the foreign keys of the database add for a project that exists.  An entity
  created during an export may take the id of one deleted before, which ids drawn at
  random do not do: the model allows more than the code.
* `MarkdownNotes`: a line is a sequence of tokens; rendering and parsing are recursive
  operators over blocks, so no theorem is stated about them.
* `CharacterImport`: a sheet is a function from JSON paths to values; parsing, the lookup
  of the entity by link or name (`ImportCharacter`), the reading of its row (`ReadCharacter`),
  of the default template (`DefaultTemplate`) and the write (`SaveCharacter`), with the game
  master's edits in between.

### LoreTools, ProposalCheck and the code

* `LoreTools`: `call` is one tool call, an action per await; `tie` and `lore` are the rows.
  `Explored` is the breadth-first loop of `get_subgraph`; `ReciprocalRankFusion` adds the
  shares of `1 / (60 + rank)` over a common denominator; `StoreQuery` folds chunks into
  entities; scores of words or vectors are any order (`AnyOrder`, `Pools`), and a store that
  fails answers nothing.  The pool is cut by chunks, `PoolSize(k)` of them.
  `tour` (history) is an enumeration: what its pages held and
  what happened to its relationships meanwhile.
* `ProposalCheck`: `canon` is the world, `context` what retrieval showed, `proposal` the
  draft with where it is.  `Validate` is `validate_changes` between its two reads
  (`ListExisting` is the first), `Objections` and `Conflicts` are the two functions of
  `agent/relationships.py`, `Stale` is `_preflight`.  `Alike` is the fuzzy ratio of titles.
  The lists of a draft are sets: validation and preflight judge each item by itself, and
  their order matters only to the writes, where `CommitBatch` has it.
  `raw`, `drafted`, `rewritten` and `moves` are history, but for `raw` and `drafted` until
  validation, where they are the state's draft.

## 3. Runs

| Run | Asks | Instance | States |
|---|---|---|---|
| `OneClient` | type correctness, the gate, bounded regeneration that leaves no retry owed, registry against thread, what was shown is what is approved, one write per proposal, every write told once | 3 requests one after another from a new session or from a pending review, 2 drafts, all faults | 904k |
| `TwoClients` | refinement of `ReviewGate`; every turn ends | pending review, 2 further requests overlapping, fairness | 338k |
| `CommitRaces` | the four properties of the commit | 75 proposals, 2 edits, cancellation | 839k |
| `EventFeed` | order without repetition, nothing skipped without a reason, every event settles | 4 events per process, buffer of 2, queue and socket of 1, 3 handlers, 2 mishaps | 457k |
| `ImportPages` | the page's gate, row and world against the thread, links in and between pages, jobs settle | 2 windows, 3 entities on 2 pages, 2 decisions that may overlap, a fault | 627k |
| `AuthSessions` | revoked tokens are refused, held ones work, keys match, accounts stay | 3 requests in flight, 3 addresses, limit of 2 accounts, 2 faults | 1.02M |
| `IndexStack` | configuration holds, one model per collection, vectors mirror rows | an entity of two chunks made one, two documents, 2 requests and the job, of which 2 at work, 2 events | 339k |
| `SharedPlay` | answers were visible, flags follow the game master, rows have files | 2 players, an entity, a field, a note, a file, 2 requests in flight | 223k |
| `ConnectorSync` | clients are owned, documents are real, notes survive | Foundry, Obsidian or MCP; up to 3 entities, 2 requests in flight, two exports of one note among them | 1.10M |
| `Exchange` | usage adds up, the world is rebuilt, notes come back, safe refresh; answers of the tools are exact, the review is informed, refusals have a reason | 144 worlds and three hand-made files, documents of every block, sheets of every form, every sequence of failures; 5 relationships in pages of 2 under 2 edits, every ranking of up to 4 chunks; 20 drafts, an edit at any step | 861k |

Two further runs exhibit a disagreement between a comment and the code:

| Run | The comment | What happens |
|---|---|---|
| `MessageOverReview` | a message on an interrupted thread is refused (`runner.py:140-144`) | checked too early: a turn that was running reaches the gate after the check |
| `NotesAreTheirOwn` | two entities can never fight over one note file (`obsidian/connector.py:185-186`) | titles are counted before they are sanitized: two titles, one file |

The modules keep more such statements, which TLC refutes when they are added to a
run: `KickoffIsOneShot`, `ReviewStartsOnlyWhileAwaiting`, `EveryChangeAnnounced`
(`AgentTurn`), `CreatesCompensated` (`CommitBatch`), `ResumeMissesNothingBuffered`
(`EventBus`), `EditsAreOfTheirPage` and, with two imports, `OneActiveImport` (`ImportJob`), `LogoutIsIdempotent`
(`AuthTokens`), `UnreadableIsFlagged` (`IndexStack`), `PatchKeepsFlags`
(`SharedPlay`), `ActorImportedOnce` (`FoundrySync`, with two entities yet to come).
`PROJECT.json` quotes the comment of each under "findings", with a few more that need no run.  Each module's
`TypeOK` can be added to its run likewise.

What the properties except is as much a result as what they hold:

* `WritesAreAccounted` (`AnnouncedOnce`, `CommittedIsTold`) holds of turns that do not overlap.
  It does not say that a turn announces its own writes and no other: one that fails, or is
  cancelled, after the checkpoint of its commit tells nobody, and the next turn that ends on
  `committed` announces and pushes those ids as its own (`runner.py:361-367`); if none comes, nobody
  does.  A second write to an entity is not announced again.
* `ProposalWrittenOnce` and `RegistryMatchesThread` too hold of turns that do not overlap: two
  decisions that both pass the status check may each write one proposal.  The gate itself
  holds regardless.
* A crash, or a client that leaves at a `yield`, leaves a session in `running` and a
  job in `extracting`: nothing at startup looks at them.  A document being ingested
  stays `processing`.
* Nothing keeps a proposal from giving one ref to two entities (`commit.py:333`).  The first
  is then in the world and in neither the report nor the compensation:
  `CompensatedIfUsable` and `NothingSilentlyDropped` claim it only if `RefsDiffer`.  A
  relationship deleted twice is given up the second time with a warning, which is the one
  thing `PreflightSuffices` does not foresee.
* `JobsTellTheTruth` excepts what was cut off or left.  A ceiling or a cancellation in the midst of
  a flush also breaks the request's session, so that the compensation and the status update
  fail; that case is one of these and is not told apart from them.
* `LinksAreWritten` excepts jobs in which an entity was approved on two pages.  A second
  decision on a page, sent while the first is being written, is handed to the thread
  once the next page awaits review; if it carries an edited draft, that draft takes
  the place of the next page's: the first page's entities are written twice, the next
  page's never (`EditsAreOfTheirPage`).
* `MirrorsRows` does not hold of the places behind the end of an entity that has become
  shorter: `index_entity` upserts its chunks and deletes none, so the tail of an earlier
  version stays until the entity is removed or its collection rebuilt, and a search finds
  it.  `Outgrown` names these places; no overlap and no failure is needed.
* `MirrorsRows` excepts exposed items, and they are real: chunks of a document
  deleted during its ingestion stay behind; one uploaded and indexed between the
  reindex job's listing of the documents and its drop of their collection loses its
  vectors while its row says `ready`; a request in flight with the old store
  drops the collection the job has just rebuilt; a reindex that ends after another
  change of settings marks the index fresh all the same; the reindex a change
  requires is not started while one is running.
* `RevokedIsRefused` claims two things.  What a request used or revoked itself stays refused,
  on disk and after any kill (`OwnRevocationHolds`).  What a logout found dead already stays refused
  by this process (`FoundDeadStaysDead`) and no longer: a second `LogoutAll` finds nothing to
  change (`refresh_token_repo.go:108-110`), or a logout finds its token cleaned up, and answers
  success while the revocation of the first is not yet saved; a kill then, or a failed save
  and a kill later, brings the tokens back.  `KeysMatch` excepts a start cut
  off while a new private key lies beside the public key of a lost one.
* `RegisteredIsKept` excepts registrations that overlapped: of the same address the
  later replaces the earlier, and together they may pass the limit.  The check before the
  creation is therefore not what it shows; that an acknowledged account is saved is.
* `FlagsFollowTheGameMaster` excepts writers that worked from a copy since changed.
* `NotesSurvive` excepts notes another export took (`NotesAreTheirOwn`), the user's own
  work, a torn write, and two exports that move one note at once (`Crossing`): each may remove
  the file the other has just written.  With two edits TLC reaches a vault without the
  note; it comes back with the next export.  Seen on the way: a note written without an id is imported
  again after its entity was renamed; the import of a note of a deleted entity
  makes a new one; the import's update leaves out `template_id` and the flags.
* `WorldIsRebuilt` excepts projects that changed during the export: an entity created
  and linked between the two reads has an edge in the file and is not in it.
  Attachment fields keep the ids of the old project.
* `SafeRefresh` says what a refresh keeps; it does not keep the flags of the
  sheet's own fields, nor edits of fields made between its read and its write.  Two
  characters of one name in a batch become one entity.  Nor does it spare an entity that was
  a party member when its name was looked up and an NPC when its row was read: nothing asks
  the type a second time.
* `SearchIsFair` (in `AnswersAreExact`) promises k entities, or all the store has, unless one
  has more chunks in the pool than its part of it (`Crowded`).  The pool is counted in chunks,
  `max(4k, 20)` of 350 characters, so a long entity can fill it and the answer has fewer,
  against `chroma_store.py:160-162`; without the exception TLC refutes the property.
* `PagesAreComplete` (in `AnswersAreExact`): for each relationship that leaves between two pages
  one that stayed may be passed over, and for each that comes one shown twice, since
  the cursor is an offset.  A world at rest is enumerated completely.
* `DroppedIsSaid` (in `ReviewIsInformed`) excepts an entity that shares its ref with a clone:
  both are dropped, and only the clone is spoken of.  `ConflictIsSaid` excepts a new
  entity whose ref is an id of the world.
* `RefusedForAReason`: an id that retrieval returned although no entity has it passes
  validation, which checks ends against what was retrieved and not against what
  exists; the preflight then refuses the whole proposal.
* `NotesComeBack` asks everything back of documents Markdown can say (`Sayable`), and of
  all others their words in order: lists inside a quote are flattened.

### Bounds, and why they suffice

* *Agent.* Three consecutive turns reach every status and every hand-over
  between turns: propose, decide, and a third that finds what a failure left.  A
  second commit of one conversation takes a fourth, which the runs from a pending
  review save (`First`); there at most one turn fails (`FewMishaps`).  Two
  overlapping turns are enough for each to overwrite the other, since the checkpoint
  remembers only the last writer.  *Drafts* 2: the approved one and another.
  *Entities* 1: touched twice or not.  `MAX_GENERATION_ATTEMPTS` is 2 as in the code, 1
  in `TwoClients`.  `MaxActive` bounds requests in flight; the proofs leave it
  arbitrary.
* *CommitBatch*: proposals of up to two entities, two patches and three operations
  in an order the code must change, with one ref for both entities and one relationship
  deleted twice among them; two edits are needed to delete one row between
  a read and a write and another before the compensation; `Ids` holds enough
  unborn ids for the largest proposal and every edit.
* *EventFeed*: four events let one be received, one fall out of the buffer, one be
  published during the replay and one after it.  Two mishaps leave up to two
  handlers serving nobody, so three handlers are enough for the browser never to
  wait for one.  Each reason in `Reasons` is needed: without any one of them
  `SkippedForAReason` fails.
* *ImportPages*: two windows that name one entity and one relationship both, so that the order
  of merging is seen; three entities make a full and a partial page, with a
  link across them, one within a page and one that leads nowhere; the second decision overlaps the
  first, follows it, or repeats it.  One fault at a time.
* *AuthSessions*: three requests are two rivals and a witness (a save between
  another's snapshot and its write; a refresh, its replay and a logout of all; two logouts
  of all and the pair they revoke).
* *IndexStack*: `SecondEventEarly` follows two settings changes, failures or deaths
  only while there is nothing to index; `OneKind` lets workers race over the entity or
  over the document, which meet only in the job and the stack; `TwoDocumentsAtPeace` follows a second
  document while no setting changes and nothing fails, which is where one of the two
  comes too late for the job's list.
* *SharedPlay*: `OneTopic` and `OneReader` put files, notes and the editor in play one
  at a time, and serve one reader beside one writer: they meet only in the entity's
  row, which each instance has.
* *ConnectorSync*: `InBounds` gives each kind of connection its own hazards (clients to
  MCP, renamings to Obsidian, failed calls to Foundry, which begins with at most one
  actor of its own) and one edit or mishap.  Two exports of notes may be in flight at once,
  with nothing else going wrong; a push or an import has no export of notes beside it.
* *Exchange*: the inputs are chosen to take every branch; `MaxTransport` and
  `MaxAttempts` are the code's, as is `MAX_ATTEMPTS`.  A hub of three relationships with a
  fourth to come makes two pages of two, and two edits let one leave and one come;
  `OneTool` keeps calls that only answer from following one another.  The pool's factor and
  minimum are 1 and 3 instead of 4 and 20, and the chunks are few: two of one entity can
  precede one of another, and one entity can fill a pool, and `Shares` is exact for
  five.  One edit (`MaxMoves`) is one too many for each of the checks it can follow.
* Symmetry is used over requests, players, drafts, entities and unborn ids, where
  they are only compared, and in no run that checks liveness.
* `CHECK_DEADLOCK FALSE` stands where an instance ends when its events, ids or
  bounded edits are used up (`EventFeed`, `IndexStack`, `SharedPlay`, `ConnectorSync`,
  `Exchange`, `NotesAreTheirOwn`); elsewhere deadlock is checked, and the end is a
  stuttering step of its own (`Quiet`, `Finished`).

### Fairness

`Fairness` of `AgentTurn` is weak fairness of the runner's own steps (the event loop
runs what is ready) and of `Timeout` (the wall clock reaches the ceiling, and
`asyncio.timeout` cancels the graph run).  Nothing is assumed of clients, of the
model, or of any node.  `Faults` is off in `TwoClients`: a process that dies ends no
turn.  `ImportJob` assumes the same of its runner and its ceiling (`FairSpec`), and
`JobSettles` excepts jobs whose turn was lost.

In `EventBus` the handlers and the socket are weakly fair, and so are the
reconnection of an open page (a timer re-armed by every `onclose`) and the closing
of a socket whose process has ended.  Publishing, losing connections and
restarting are not.

## 4. Proofs

A theorem is about every value of the constants, under the named assumptions of the
module it is about.  Each rests on an inductive invariant, a conjunction of named
parts in the proof module, which TLC checked on the component's run first; a
preservation proof has a lemma for each action that can disturb the part.

### AgentTurn, for any number of overlapping turns

Assumed: `NoDraft` and `NoOne` are no draft and no request, `MAX_GENERATION_ATTEMPTS` and
`MaxActive` are positive.

* `TypeCorrect`: `Spec => []TypeOK`.  Inductive together with `AskedOK`: a request past
  the router asks for something, and only a review resumes at the gate, which is
  what makes the decision's fields exist when `Decide` reads them.
* `LoopSettles` (`RegenerationIsSettled`): the inductive invariant `LoopInv` relates the next node
  to the counters, in each running turn and in the checkpoint a review resumes: fresh
  at `retrieve_context`, attempts left at `generate_changes`, no feedback pending at
  `validate_changes` and `human_review`.
* `GateHolds`: only approved content is written.  The property alone is not
  inductive: a write takes its content from the turn's copy of the state, which
  came from a checkpoint another turn may have saved.  `GateInv` adds that wherever
  `commit` is next with a decision to approve, in a turn or in the checkpoint, that
  very content has been approved; and that a request's approval and write lie
  behind its position, so neither happens twice.
* `GateRefined`: `AgentTurn` implements `ReviewGate` with the identity mapping on
  `approved` and `writes`.  `Decide` is `Approve` or a stutter, `CommitApplies` and
  `CommitRaises` are `Write`, everything else stutters.

### AgentTurn, one turn at a time

What two overlapping turns really break holds of one at a time: each theorem is
`MaxActive = 1 => (Spec => []P)`, for any number of requests one after another, any faults
and crashes, and TLC refutes each `P` with two turns in flight.

* `RegistryIsTrue` (`RegistryMatchesThread`), `ApprovalIsInformed` (`ApprovedWasShown`):
  between turns the registry's snapshot is the checkpoint's draft, and a turn on its
  way to reconcile has read exactly the checkpoint it will publish.
* `OneWritePerRound` (`ProposalWrittenOnce`): a round written is a round whose checkpoint is
  past `commit`, or whose turn was lost before it got there and left the session where
  no review can resume it.
* `WritesAccounted` (`WritesAreAccounted`): the checkpoint's list of committed ids is the
  registry's and what broken turns left; while a turn is at work its list is that and what it
  wrote, and what it announces is the difference to the registry's list as it began.

### CommitBatch

Assumed: a proposal is made of refs, titles, ids and operations (`ProposalAssumption`), what is
absent is none of these and no ref is an id (`AbsentAssumption`), and the world begins with
relationships between entities it has (`StandingAssumption`).  Refs may repeat, a draft may
patch or delete anything, and the number of edits is any.

* `TypeAndPlace`: types, and where the node stands (`PlaceInv`): items passed, nothing tried
  before its stage, the operation being written the one whose turn it is.
* `NoFailureDestroys` (`FailureDestroysNothing`): by `OrderInv`, whatever was tried comes before
  whatever was not, so once a relationship has been deleted only deletions are left, and a
  deletion cannot raise.
* `Compensated` (`CompensatedIfUsable`): by `CreatedInv`, what was created is recorded or is the row
  in flight, and while the compensation runs on a working session what is recorded and
  still in the world is in `todo`.  Rows drawn by the game master have other ids, and
  a deleted id never comes back (`RowsAge`).
* `Preflight` (`PreflightSuffices`): by `StillInv`, what the preflight saw stands until it is used.
  It is the longest of these proofs, since each stage must find what it looks for after
  all earlier stages have written: an end of a link that is a ref is named by the entities
  passed, one that is an id was listed; a relationship to be changed is there unless an
  earlier operation of the same draft deleted it.
* `NothingDropped` (`NothingSilentlyDropped`): by `CountInv`, as many rows as entities passed, as many
  relationships drawn as links tried and not given up.

### ConnectorSync

Assumed: a project has finitely many entities, a vault finitely many names of files and a
Foundry world finitely many actors; every title is sanitized to one of the names; npcs are
entities; `None`, `Gone` and the title that stands for an id not told are nothing else.
Npcs, titles, ids and the number of edits and mishaps are any.

* `WorkFits`: types, and what a request has left to do (`WorkInv`): an export has entities, an
  import of actors actors, an import of notes scanned notes, and whoever has one in hand has
  it first.  Proved together with `HandInv`: a journal, actor or new npc that is about to be
  linked is that of the entity in hand.  Neither is inductive alone, since an npc's
  origin has the type of an actor only because the request had one in hand.
* `NoStrayClient` (`ClientsAreOwned`): the property says nothing of a client that is being closed a
  second time, or of two being started; `OwnInv` adds that the lock is held by whoever starts
  a client, that the cache is empty while it is, and that a client in the cache or being
  closed has been started.
* `LinksNameTheirOwn` (`DocumentsAreReal`): two facts about every step carry it.  Documents and rows
  only age (`Grown`): a document stays what it is or goes, an id given to an entity is
  given to no other.  And a new link names a document that is the entity's (`Made`).
* `NoNoteIsLost` (`NotesSurvive`): `MoveInv` adds that of a note still counted on at most one
  export stands between the two files, that it has written the new one, which is not the
  stale one, and that the new one is there.

### ProposalCheck

Assumed (`ProposalAssumption`): a title is like itself, and the world begins with titles of the
given kind.  Drafts, rewrites, what retrieval returned and the edits of the game master
are any.  `CheckInv` adds to the two properties:

* `FreshInv`: as long as nobody edited the world since, what was retrieved and what was listed
  is still so.
* `DraftInv`: before the game master and before the preflight, a draft that was not
  rewritten is sound with respect to what it was compared with.  Its patches are of
  entities that were listed, no entity is a clone, and each end of a new relationship is a
  ref of the draft or was retrieved.

`Informed` (`ReviewIsInformed`) then needs nothing but the step of validation
(`DroppedHasAWord`, `ConflictHasAWord`: what is dropped and what conflicts has a word in the
warnings).  `Reasons` (`RefusedForAReason`) reads each of the four complaints of the preflight against
`DraftInv` and `FreshInv` (`StaleForAReason`).  One that neither explains is an end that was
retrieved and has no row, which is why the property names that case.

### StructuredCall

Assumed (`CallAssumption`): costs are natural numbers, the limits of attempts positive ones.
`TokensCounted` (`UsageAddsUp`): by `CallInv`, while a strategy is at work, what the provider has reported is what earlier strategies
handed on, what this one has used in its answers and in its failed requests, and what
was lost.

### EventBus

`OrderKept` (`InOrderOnce`) and `GapsExplained` (`SkippedForAReason`) from `FeedInv`: what was
received, what is on the wire, what the current handler still has to replay and what its
queue holds are, one after the other, increasing numbers of one epoch; and each number
between two neighbours of that sequence, or between its end and `seq`, is in `missed`.  The
second half is needed because a gap is made long before the page passes over it.
Handlers left behind by a lost connection are kept apart from the current one by
`StageInv` and `SocketInv`.

### ImportJob

Assumed: a page has room for an entity (`PageAssumption`), a request is not an import and a
decision at once (`RequestsAssumption`).  Nothing is assumed of what the registry and the
merge make of a document: any pages, any links.  Types are a part of both invariants
(`TypeInv`): the pages ahead of the one a thread is at are as the merge left them.

* `ImportGateHolds` (`OnlyDecidedPages`), with overlapping turns: by `GateInv`, a state about to
  write a page, in a turn or in the checkpoint, may write it.  Either a decision on
  this job left the page as it is, or an earlier page was approved with all that
  remain, and this one still holds its own entities.
* `JobsAreTruthful` (`JobsTellTheTruth`: `RowMatchesThread` and `PagesAreWhole`), for jobs whose
  turns did not overlap: by `ThreadInv`, one turn is at work on such a job, it
  holds everything the checkpoint lists as committed and ends on the checkpoint as it
  read it, and every entity of the job is committed in the checkpoint, in the batch of
  the turn that is writing, or cut off.  A job not yet begun has nothing, which is what lets its first turn find an
  empty checkpoint.

### ProjectTransfer

Assumed (`TransferAssumption`): ids are those of the old project, no id is of two kinds, each
field refers to its own kind (`IsProject`), and a project that exists has both ends of its
relationships and the entity of each of its files (`IsLinked`, which the foreign keys enforce).
Nothing is assumed of the relationships or the files of a file no export wrote.

`Rebuilt` (`WorldIsRebuilt`): by `ExportInv`, the file of an export nobody disturbed has both ends
of each of its relationships; by `ImportInv`, at every step the maps of ids are defined for exactly
what has been created and give each id its copy, which no other id has (`OldIds`), and the new
rows are the images of what has been passed.  The second pass over the entities needs
the maps complete, so each part says what they hold at each stage.

### AuthTokens

Assumed (`AuthAssumption`): the addresses are a finite set, since the limit counts accounts;
the owner and `None` are no requests.

* `KeysBelongTogether` (`KeysMatch`): by the generations of the files and of the process.
* `RevokedIsDead`, `HeldWorks`, `AccountsStay`: what a request has been told is true of memory, of
  the disk, *and of every snapshot a save has taken and not yet written*: the
  acknowledged change is in each of them, or the goroutine that holds it stands
  before the save that will be acknowledged.  Without the snapshots none is inductive: an
  old copy written late would undo it.

### SharedPlay

Assumed (`PlayAssumption`): `None` is no player, entity or file.

* `AnswersHold` (`AnswersWereVisible`): what a request has read so far was visible when it
  was read, and `hidden` has lost it since.
* `FlagsHold` (`FlagsFollowTheGameMaster`): as long as an entity is not `muddled`, every copy
  a writer may still put back agrees with the row on the flags.
* `FilesHold` (`RowsHaveFiles`): a row has its file at every step of upload and deletion, and
  an icon names an attachment of its own entity.

### IndexStack

Assumed (`NamesAssumption`): entities are not documents, the job is no request, and
`Absent` is nothing else.
`IndexInv` has eight parts: types, where each worker stands (`PlaceInv`), what a process
that is down has lost (`DownInv`), settings against the installed stack (`ConfigInv`),
handles (`HandleInv`), the models in each collection, who is at work on which item
(`ApartInv`), and what the vectors of an unexposed item are (`MirrorInv`).

* `ConfigurationKept` (`ConfigurationHolds`): the check before the save and the save happen
  under one lock, and nothing but a save changes what a start reads.
* `ModelsApart` (`OneModelPerCollection`): a live handle's store has the model in the metadata
  of the collection it was opened on, since dropping the collection kills the handle.
* `VectorsFollowRows` (`MirrorsRows`): at most one worker is at the vectors of an unexposed item,
  and it works with the installed store.  `MirrorInv` gives each place of such a worker
  what it promises: a batch in hand is of the row as it is, a listed document not yet
  written will be, a row marked before its vectors are removed counts what is there.
  This theorem was false of an earlier form of the model, in which a drop was taken to
  reset every document it did not rebuild: the document that came too late, now exposed,
  was the counterexample, found when the promise of the job could not be kept.

### Only model-checked

Liveness (`TwoClients`, `EventFeed`, `ImportPages`) and `ENABLED` are out of the prover's
reach.  So is what a recursive definition or a fold computes, which needs induction over data:
`MarkdownNotes` (`NotesComeBack`), the breadth-first search and the rankings of `LoreTools`
(`AnswersAreExact`), and the merge of `ImportMerge` (and with it `LinksAreWritten` of
`ImportJob`).  Selections by a predicate (`SelectSeq`) belong to the same kind, and two models
do without: the order of operations of `CommitBatch` is the choice of the next position,
and the drafts of `ProposalCheck` are sets.  `SafeRefresh` of `CharacterImport` speaks of the documents
that a recursive operator cleans.

## 5. What is abstracted

Texts, prompts, token counts, citations, entity types, edge types and labels.
Similarity of titles is a given relation.  `ValidateChanges` of `AgentTurn` may send any draft back
while attempts last, and otherwise may replace it by any draft.  A storage error
other than a vanished row (a full disk, a locked file) is left out of `CommitBatch`:
it could strike between two deletions.  A page's event types and listeners, and
the delays of its timers, are left out of `EventBus`.  The tool loop's own ceiling is
LangGraph's recursion limit, an instance of `NodeError`.  A document's chunks are one
item, a vector is its model and version, a password or a hash is a name.  Contents of
files and the inline level of Markdown are words.

External code is modelled from its use: LangGraph's checkpointer, SQLAlchemy's
sessions, Chroma's collections, the MCP client and Foundry's bridge, the provider of
the model, the file systems of the vault and of the auth service.

## 6. Not modelled

* Built-in templates and sheets (`templates/builtins.py`) and project templates: tables
  of data and single-row writes.  Formulas (`schemas/formula.py`): the server only
  checks their syntax, and a model of that would be the grammar again.
* Scores of words and vectors, similarity of titles as arithmetic, prompt texts and
  prompt caching.
* The browser's state other than its event channel: a view of the server's, whose
  requests are inputs here.  Its timers are their effect.
* Router ports and UPnP, update checks, tracing, the rate limiter's window, launchers
  and build files: input and output to the outside.
* The MCP server's tools, and the agent's tools that ask the knowledge base, an external
  source or an MCP server: adapters over modelled services.  `Tools` of `AgentTurn` is the
  place of all tools in a turn.
* Of the connectors: Foundry's live queries and its knowledge ingestion, the copying of
  attachments and the last pass over wikilinks in an Obsidian import, resources,
  positions and presets of a character sheet.
* The backend's verification of access tokens and its fetch of the public key.

Seen while reading these, and not claimed by any property: `api/go_auth.py:42-43` says
a 4xx is not retried, and the exception `raise_for_status` raises is caught by the
same loop and retried; the client of an MCP server that has died is never evicted.

## 7. Plan

Done: the conversation with its gate, its runs and proofs; the commit; the feed of
events; bulk import; auth; the vector layer; shared play; connectors; exchange; the
read tools; the validation of proposals; and the theorems of section 4.

Left: `LinksAreWritten`, `NotesComeBack`, `AnswersAreExact` and `SafeRefresh` as theorems, for which the provers
would have to reason by induction about recursive definitions and folds; liveness; and what section 6
leaves out.
