---------------------------- MODULE Connections ----------------------------
(***************************************************************************)
(* A connection to an external tool: its row, which the connections router *)
(* edits and deletes; the cache of long-lived clients of ConnectorRuntime  *)
(* and the server processes behind them; the links that remember which     *)
(* external object an entity has; and the requests that work with it.      *)
(* FoundrySync and ObsidianVault say what exports and imports do.          *)
(***************************************************************************)
EXTENDS Naturals, Sequences, FiniteSets

CONSTANTS
  Entities, Titles, \* ids of entities, and the titles they may have
  Requests,         \* slots of requests being served
  Clients,          \* client processes, each started once
  None,             \* no entity, client, request or external object
  Gone,             \* a row or an object that has been deleted
  MaxActive,        \* bound: requests served at a time
  MaxEdits,         \* bound: edits of the connection and of entities
  MaxMishaps        \* bound: failures, deaths and changes outside Loregraph

(* A project has finitely many entities; what stands for nothing, and for   *)
(* what is gone, is no id, title or state of a process.                    *)
ASSUME EntityAssumption == IsFiniteSet(Entities)
ASSUME AbsentAssumption ==
  /\ None # Gone
  /\ {None, Gone} \cap (Entities \cup Titles \cup Requests \cup Clients \cup {"starting", "up"}) = {}

VARIABLES
  kind,    \* the connector_type of the connection, which never changes
  row,     \* whether the connection is there
  entity,  \* rows of entities: the title, None before and Gone after
  link,    \* rows of links: the external id of each entity and kind; of
           \* several rows the newest, whose id is the one that is read
  older,   \* the ids of the rows before it, the oldest first
  cache,   \* the client the runtime holds for the connection
  lock,    \* the request that holds the runtime's lock
  proc,    \* each client's process
  req,     \* what each request is doing
  edits, mishaps

rows == <<kind, row, entity, link, older, edits>>
clients == <<cache, lock, proc>>

LinksOf(k) == [e \in Entities |-> link[e][k]]
LinkKinds == {"md_file", "journal", "actor"}
NoLinks == [k \in LinkKinds |-> None]
NoOlder == [k \in LinkKinds |-> <<>>]
Here(e) == entity[e] \in Titles
Present == {e \in Entities : Here(e)}

(* A request: its client, what is left of its work and what is done of it,  *)
(* the titles, the links of one kind and the ids by title as it has read    *)
(* them, the object it has in hand and whether it has seen a link's row;   *)
(* a push is an export with a limit on its time.                           *)
Idle == [op |-> "idle", at |-> "idle", client |-> None, todo |-> <<>>, done |-> <<>>,
         titles |-> [e \in Entities |-> None], links |-> [e \in Entities |-> None],
         found |-> [t \in Titles |-> None], id |-> None, npc |-> None, seen |-> FALSE]

Active == {r \in Requests : req[r] # Idle}
At(r, ops, at) == req[r].op \in ops /\ req[r].at = at
Exports == {"export", "push"}

Put(r, record) == req' = [req EXCEPT ![r] = record]
Goto(r, at) == Put(r, [req[r] EXCEPT !.at = at])
Finish(r) == Put(r, Idle)
Begin(r, record) == req[r] = Idle /\ Cardinality(Active) < MaxActive /\ Put(r, record)

(* On to the next item, or done.                                           *)
NextItem(r) ==
  IF Len(req[r].todo) = 1 THEN Finish(r)
  ELSE Put(r, [req[r] EXCEPT !.todo = Tail(@), !.at = "item", !.id = None, !.npc = None,
                             !.seen = FALSE])
Work(r, items, at) == IF items = <<>> THEN Finish(r)
                      ELSE Put(r, [req[r] EXCEPT !.todo = items, !.at = at])
Orders(S) == {s \in [1..Cardinality(S) -> S] : \A i, j \in DOMAIN s : s[i] = s[j] => i = j}

(* An id that was never used; which one does not matter.                   *)
Unused(ids, uses) == {i \in ids : uses[i] = None}
AnUnused(ids, uses) == CHOOSE i \in Unused(ids, uses) : TRUE

Mishap == mishaps < MaxMishaps /\ mishaps' = mishaps + 1

-----------------------------------------------------------------------------
(* A connector is built from the row, if it is there.                      *)
Open(r, op, at) ==
  /\ row
  /\ Begin(r, [Idle EXCEPT !.op = op, !.at = at])
  /\ UNCHANGED <<rows, clients, mishaps>>

(* An edit is saved and then the client of the old configuration dropped.  *)
UpdateConnection(r) ==
  /\ row /\ edits < MaxEdits /\ edits' = edits + 1
  /\ Begin(r, [Idle EXCEPT !.op = "edit", !.at = "invalidate"])
  /\ UNCHANGED <<kind, row, entity, link, older, clients, mishaps>>

DeleteConnection(r) ==
  /\ row /\ row' = FALSE /\ edits < MaxEdits /\ edits' = edits + 1
  /\ link' = [e \in Entities |-> NoLinks] /\ older' = [e \in Entities |-> NoOlder]
  /\ Begin(r, [Idle EXCEPT !.op = "edit", !.at = "invalidate"])
  /\ UNCHANGED <<kind, entity, clients, mishaps>>

-----------------------------------------------------------------------------
(* ConnectorRuntime and McpStdioClient *)

(* Variant, to test ClientsAreOwned: a client is started outside the lock. *)
UseClient_Unlocked(r) ==
  /\ req[r].at = "client" /\ cache = None /\ Unused(Clients, proc) # {}
  /\ LET k == AnUnused(Clients, proc) IN
       /\ proc' = [proc EXCEPT ![k] = "starting"]
       /\ Put(r, [req[r] EXCEPT !.at = "starting", !.client = k])
  /\ UNCHANGED <<rows, cache, lock, mishaps>>

(* get_or_create under the lock: the client that is there, or a new one.    *)
UseClient(r) ==
  /\ req[r].at = "client" /\ lock = None
  /\ \/ /\ cache # None
        /\ Put(r, [req[r] EXCEPT !.at = "ready", !.client = cache])
        /\ UNCHANGED <<lock, proc>>
     \/ /\ cache = None /\ lock' = r /\ Unused(Clients, proc) # {}
        /\ LET k == AnUnused(Clients, proc) IN
             /\ proc' = [proc EXCEPT ![k] = "starting"]
             /\ Put(r, [req[r] EXCEPT !.at = "starting", !.client = k])
  /\ UNCHANGED <<rows, cache, mishaps>>

Started(r) ==
  /\ req[r].at = "starting"
  /\ proc' = [proc EXCEPT ![req[r].client] = "up"]
  /\ cache' = req[r].client /\ lock' = None
  /\ Goto(r, "ready")
  /\ UNCHANGED <<rows, mishaps>>

(* start closes what it has opened before it raises.                       *)
StartFails(r) ==
  /\ req[r].at = "starting" /\ Mishap
  /\ proc' = [proc EXCEPT ![req[r].client] = Gone] /\ lock' = None
  /\ Finish(r)
  /\ UNCHANGED <<rows, cache>>

Invalidate(r) ==
  /\ req[r].at = "invalidate" /\ lock = None
  /\ cache' = None
  /\ IF cache = None THEN Finish(r) ELSE Put(r, [req[r] EXCEPT !.at = "close", !.client = cache])
  /\ UNCHANGED <<rows, lock, proc, mishaps>>

Close(r) ==
  /\ req[r].at = "close"
  /\ proc' = [proc EXCEPT ![req[r].client] = Gone]
  /\ Finish(r)
  /\ UNCHANGED <<rows, cache, lock, mishaps>>

(* A server dies by itself; nothing takes its client out of the cache.     *)
ServerDies ==
  /\ Mishap
  /\ \E k \in Clients : proc[k] = "up" /\ proc' = [proc EXCEPT ![k] = Gone]
  /\ UNCHANGED <<rows, cache, lock, req>>

Connected(r) == proc[req[r].client] = "up"

(* A tool of the server is listed or called: by the agent, for a question to *)
(* a live source, or to test the connection.                               *)
CallTool(r) ==
  /\ At(r, {"tool"}, "ready")
  /\ Finish(r)
  /\ UNCHANGED <<rows, clients, mishaps>>

-----------------------------------------------------------------------------
(* One link per connection, entity and kind: upsert selects its row and,    *)
(* awaits later, updates it or adds one, which no constraint forbids when   *)
(* another has come since the request last looked.  Of several rows the     *)
(* oldest is updated, the newest read.  Entity and connection must be there. *)
Sees(e, k) == link[e][k] # None
Names(e, k, id) == link' = [link EXCEPT ![e][k] = id]

(* Variant, to test DocumentsAreReal: one link per connection and entity.  *)
Upsert_AnyKind(r, e, k, id) ==
  LET old == {x \in LinkKinds : link[e][x] # None} IN
  /\ link' = IF old = {} THEN [link EXCEPT ![e][k] = id]
             ELSE [link EXCEPT ![e] = [x \in LinkKinds |-> IF x \in old THEN id ELSE None]]
  /\ UNCHANGED older

Upsert(r, e, k, id) ==
  \E seen \in {req[r].seen, Sees(e, k)} :
    IF seen /\ older[e][k] # <<>>
    THEN older' = [older EXCEPT ![e][k][1] = id] /\ UNCHANGED link
    ELSE /\ Names(e, k, id)
         /\ older' = IF seen \/ ~ Sees(e, k) THEN older
                     ELSE [older EXCEPT ![e][k] = Append(@, link[e][k])]
CanLink(e) == row /\ Here(e)

Rename(e, t) ==
  /\ Here(e) /\ entity[e] # t /\ edits < MaxEdits /\ edits' = edits + 1
  /\ entity' = [entity EXCEPT ![e] = t]
  /\ UNCHANGED <<kind, row, link, older, clients, req, mishaps>>

DeleteEntity(e) ==
  /\ Here(e) /\ edits < MaxEdits /\ edits' = edits + 1
  /\ entity' = [entity EXCEPT ![e] = Gone]
  /\ link' = [link EXCEPT ![e] = NoLinks] /\ older' = [older EXCEPT ![e] = NoOlder]
  /\ UNCHANGED <<kind, row, clients, req, mishaps>>

(* The time of a push is over, or an agent's turn is cancelled: so is what it *)
(* waits for, and a client being started is closed.  The thread that moves  *)
(* a note cannot be: what it has begun it ends, whoever waits for it.       *)
Cancelled(r) ==
  /\ req[r].op \in {"push", "tool"} /\ req[r].at # "stale" /\ Mishap
  /\ IF req[r].at = "starting"
     THEN proc' = [proc EXCEPT ![req[r].client] = Gone] /\ lock' = None
     ELSE UNCHANGED <<proc, lock>>
  /\ Finish(r)
  /\ UNCHANGED <<rows, cache>>

(* The process dies and is started again; its servers end with it.         *)
Kill ==
  /\ (Active # {} \/ cache # None) /\ Mishap
  /\ req' = [r \in Requests |-> Idle] /\ cache' = None /\ lock' = None
  /\ proc' = [k \in Clients |-> IF proc[k] = None THEN None ELSE Gone]
  /\ UNCHANGED rows

ConnectionsNext ==
  \/ \E r \in Requests :
       \/ UseClient(r) \/ Started(r) \/ StartFails(r)
       \/ UpdateConnection(r) \/ DeleteConnection(r) \/ Invalidate(r) \/ Close(r)
       \/ kind \in {"mcp", "foundry"} /\ Open(r, "tool", "client")
       \/ CallTool(r) \/ Cancelled(r)
  \/ \E e \in Entities : DeleteEntity(e) \/ \E t \in Titles : Rename(e, t)
  \/ ServerDies \/ Kill

-----------------------------------------------------------------------------
(* No server is left running that nobody will ever close: it is in the      *)
(* cache, is being started by the holder of the lock, or is being closed    *)
(* (ConnectorRuntime.get_or_create, invalidate and aclose).                 *)
ClientsAreOwned ==
  \A k \in Clients : proc[k] \in {"starting", "up"} =>
    \/ cache = k
    \/ \E r \in Requests : req[r].client = k /\ req[r].at \in {"starting", "close"}
=============================================================================
