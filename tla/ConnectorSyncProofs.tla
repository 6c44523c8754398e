------------------------- MODULE ConnectorSyncProofs -------------------------
(***************************************************************************)
(* Theorems about ConnectorSync, for any number of requests, clients and   *)
(* entities, any world outside and any mishaps.                            *)
(***************************************************************************)
EXTENDS ConnectorSync, FiniteSetTheorems, SequenceTheorems, TLAPS

(* Where a request can be while it has, or waits for, its client; while an *)
(* export has an entity in hand; an import of actors, an actor; and an      *)
(* import of notes, a note.                                                *)
Dialing == {"client", "starting", "ready"}
Exporting == {"item", "link", "npc", "npclink", "stale", "mdlink"}
Drafting == {"item", "create", "actorlink"}
Matching == {"list", "match", "update", "notelink"}
Places == {"idle", "invalidate", "close", "plan", "notes", "scan"}
            \cup Dialing \cup Exporting \cup Drafting \cup Matching

ExternalIds == Journals \cup Actors \cup Paths \cup {None, ByTitle}
Scanned == [path : Paths, of : Entities \cup {None}, title : Titles,
            id : Entities \cup {None}]
Works == Seq(Entities) \cup Seq(Actors) \cup Seq(Scanned)
Request == [op : {"idle", "edit", "tool", "import"} \cup Exports, at : Places,
            client : Clients \cup {None}, todo : Works, done : Seq(Scanned),
            titles : [Entities -> Titles \cup {None, Gone}],
            links : [Entities -> ExternalIds],
            found : [Titles -> Entities \cup {None}],
            id : ExternalIds, npc : Entities \cup {None}, seen : BOOLEAN]

TypeOK ==
  /\ kind \in Kinds
  /\ row \in BOOLEAN
  /\ entity \in [Entities -> Titles \cup {None, Gone}]
  /\ link \in [Entities -> [LinkKinds -> ExternalIds]]
  /\ cache \in Clients \cup {None}
  /\ lock \in Requests \cup {None}
  /\ proc \in [Clients -> {None, Gone, "starting", "up"}]
  /\ req \in [Requests -> Request]
  /\ edits \in Nat /\ mishaps \in Nat
  /\ journal \in [Journals -> Entities \cup {None, Gone}]
  /\ actor \in [Actors -> Entities \cup {None, Gone, "foreign"}]
  /\ origin \in [Entities -> Actors \cup {None}]
  /\ vault \in [Paths -> Notes \cup {None}]
  /\ kept \subseteq Entities

(* Where a request for each operation can be. *)
Placed(q) ==
  /\ q.op = "idle" => q.at = "idle"
  /\ q.op = "edit" => q.at \in {"invalidate", "close"}
  /\ q.op = "tool" => q.at \in Dialing
  /\ q.op \in Exports =>
       q.at \in IF kind = "foundry"
                THEN {"plan", "item", "link", "npc", "npclink"} \cup Dialing
                ELSE {"notes", "item", "stale", "mdlink"}
  /\ q.op = "import" =>
       q.at \in IF kind = "foundry" THEN Drafting \cup Dialing ELSE {"scan"} \cup Matching

(* What it has left to do: whoever has something in hand has it first.     *)
Busy(q) ==
  /\ q.op \in Exports /\ q.at \in Dialing => q.todo \in Seq(Entities)
  /\ q.op \in Exports /\ q.at \in Exporting => q.todo \in Seq(Entities) /\ q.todo # <<>>
  /\ q.op = "import" /\ q.at \in Drafting => q.todo \in Seq(Actors) /\ q.todo # <<>>
  /\ q.op = "import" /\ q.at \in Matching => q.todo \in Seq(Scanned) /\ q.todo # <<>>
  /\ q.op \in Exports /\ q.at \in {"item", "stale", "mdlink"} /\ kind = "obsidian" =>
       \A n \in DOMAIN q.todo : q.titles[q.todo[n]] \in Titles

WorkInv == \A r \in Requests : Placed(req[r]) /\ Busy(req[r])

(* The lock is held by whoever starts a client, while the cache is empty;   *)
(* a client that is in the cache, or is being closed, has been started.    *)
OwnInv ==
  /\ lock # None => cache = None
  /\ cache # None => proc[cache] \in {"up", Gone}
  /\ \A r \in Requests : req[r].at = "starting" =>
       lock = r /\ req[r].client \in Clients /\ proc[req[r].client] = "starting"
  /\ \A r \in Requests : req[r].at = "close" =>
       req[r].client \in Clients /\ proc[req[r].client] \in {"up", Gone}
  /\ \A k \in Clients : proc[k] = "starting" =>
       \E r \in Requests : req[r].client = k /\ req[r].at = "starting"
  /\ \A k \in Clients : proc[k] = "up" =>
       cache = k \/ \E r \in Requests : req[r].client = k /\ req[r].at = "close"

(* The document a request is about to link is the entity's.                *)
Holds(q) ==
  /\ q.at = "link" => /\ q.id \in Journals \cup {ByTitle}
                      /\ q.id \in Journals => journal[q.id] \in {Head(q.todo), Gone}
  /\ q.at = "npclink" => q.id \in Actors /\ actor[q.id] \in {Head(q.todo), Gone}
  /\ q.at = "create" => q.id \in Actors
  /\ q.at = "actorlink" =>
       /\ q.id \in Actors /\ q.npc \in Entities
       /\ entity[q.npc] # None /\ origin[q.npc] = q.id

HandInv ==
  /\ \A r \in Requests : Holds(req[r])
  /\ \A e \in Entities : entity[e] = None => link[e].actor = None
-----------------------------------------------------------------------------
(* Requests *)

(* A request and what a step changes of it. *)
LEMMA AtTypes ==
  ASSUME NEW q \in Request, NEW a \in Places
  PROVE  /\ [q EXCEPT !.at = a] \in Request
         /\ [q EXCEPT !.at = a].at = a
         /\ [q EXCEPT !.at = a].op = q.op
         /\ [q EXCEPT !.at = a].client = q.client
         /\ [q EXCEPT !.at = a].todo = q.todo
         /\ [q EXCEPT !.at = a].titles = q.titles
         /\ [q EXCEPT !.at = a].id = q.id
         /\ [q EXCEPT !.at = a].npc = q.npc
  BY DEF Request

LEMMA IdleTypes ==
  /\ Idle \in Request
  /\ Idle.op = "idle" /\ Idle.at = "idle" /\ Idle.client = None
<1>1. <<>> \in Works /\ <<>> \in Seq(Scanned)
  BY DEF Works
<1>2. None \in ExternalIds
  BY DEF ExternalIds
<1>3. [e \in Entities |-> None] \in [Entities -> Titles \cup {None, Gone}]
      /\ [e \in Entities |-> None] \in [Entities -> ExternalIds]
      /\ [t \in Titles |-> None] \in [Titles -> Entities \cup {None}]
  BY <1>2
<1> QED BY <1>1, <1>2, <1>3 DEF Idle, Request, Places

LEMMA TailTypes ==
  ASSUME NEW S, NEW s \in Seq(S), s # <<>>
  PROVE  /\ Head(s) = s[1] /\ 1 \in DOMAIN s /\ Head(s) \in S
         /\ Tail(s) \in Seq(S)
         /\ Len(s) # 1 => Tail(s) # <<>>
         /\ \A n \in DOMAIN Tail(s) : n + 1 \in DOMAIN s /\ Tail(s)[n] = s[n + 1]
<1>1. Len(s) \in Nat \ {0} /\ DOMAIN s = 1 .. Len(s)
  BY EmptySeq
<1>2. Head(s) = s[1] /\ 1 \in DOMAIN s /\ Head(s) \in S
  BY <1>1
<1>3. /\ Tail(s) \in Seq(S) /\ Len(Tail(s)) = Len(s) - 1
      /\ \A n \in 1 .. Len(s) - 1 : Tail(s)[n] = s[n + 1]
  BY <1>1
<1>4. DOMAIN Tail(s) = 1 .. Len(s) - 1
  BY <1>3
<1>5. Len(s) # 1 => Tail(s) # <<>>
  BY <1>1, <1>3
<1> QED BY <1>1, <1>2, <1>3, <1>4, <1>5

(* A request as it should be; a step of one request leaves the others be.  *)
Fit(q) == q \in Request /\ Placed(q) /\ Busy(q)

LEMMA PutFits ==
  ASSUME TypeOK, WorkInv, UNCHANGED kind, NEW r \in Requests, NEW q, Fit(q), Put(r, q)
  PROVE  /\ req' \in [Requests -> Request]
         /\ req'[r] = q /\ \A s \in Requests \ {r} : req'[s] = req[s]
         /\ WorkInv'
<1>1. req' \in [Requests -> Request]
  BY DEF TypeOK, Put, Fit
<1>2. req'[r] = q /\ \A s \in Requests \ {r} : req'[s] = req[s]
  BY DEF TypeOK, Put
<1>3. \A s \in Requests : Placed(req'[s]) /\ Busy(req'[s])
  BY <1>2 DEF WorkInv, Fit
<1>4. WorkInv'
  BY <1>3 DEF WorkInv, Placed, Busy
<1> QED BY <1>1, <1>2, <1>4

LEMMA IdleFits == Fit(Idle)
  BY IdleTypes DEF Fit, Placed, Busy, Dialing, Exporting, Drafting, Matching, Exports

(* The next entity or actor, or the end: nothing else changes of the request. *)
LEMMA NextItemFits ==
  ASSUME TypeOK, WorkInv, NEW r \in Requests, NextItem(r),
         \/ req[r].op \in Exports /\ req[r].at \in Exporting
         \/ req[r].op = "import" /\ req[r].at \in Drafting
  PROVE  \E q : Fit(q) /\ Put(r, q) /\ q.at \in {"idle", "item"} /\ q.op \in {"idle", req[r].op}
<1> DEFINE q == req[r]
           x == [q EXCEPT !.todo = Tail(@), !.at = "item", !.id = None, !.npc = None,
                          !.seen = FALSE]
<1>1. Fit(q)
  BY DEF Fit, TypeOK, WorkInv
<1>2. CASE Len(q.todo) = 1
  BY <1>2, IdleFits, IdleTypes DEF NextItem, Finish
<1>3. CASE Len(q.todo) # 1
  <2>1. Put(r, x)
    BY <1>3 DEF NextItem
  <2>2. Tail(q.todo) \in Works => x \in Request
    BY <1>1 DEF Fit, Request, Places, ExternalIds, Exporting
  <2>3. /\ x.at = "item" /\ x.op = q.op /\ x.todo = Tail(q.todo) /\ x.titles = q.titles
    BY <1>1 DEF Fit, Request
  <2>4. CASE q.op \in Exports
    <3>1. q.todo \in Seq(Entities) /\ q.todo # <<>> /\ q.at \in Exporting
      BY <1>1, <2>4 DEF Fit, Busy, Exports
    <3>2. Tail(q.todo) \in Seq(Entities) /\ Tail(q.todo) # <<>>
      BY <1>3, <3>1, TailTypes
    <3>3. kind = "obsidian" => \A n \in DOMAIN x.todo : x.titles[x.todo[n]] \in Titles
      <4> SUFFICES ASSUME kind = "obsidian", NEW n \in DOMAIN Tail(q.todo)
                   PROVE  q.titles[Tail(q.todo)[n]] \in Titles
        BY <2>3
      <4>1. n + 1 \in DOMAIN q.todo /\ Tail(q.todo)[n] = q.todo[n + 1]
        BY <3>1, TailTypes
      <4>2. q.at \in {"item", "stale", "mdlink"}
        BY <1>1, <2>4, <3>1 DEF Fit, Placed, Exporting
      <4> QED BY <1>1, <2>4, <4>1, <4>2 DEF Fit, Busy
    <3>4. Placed(x)
      BY <2>3, <2>4 DEF Placed, Exports
    <3>5. Busy(x)
      BY <2>3, <2>4, <3>2, <3>3 DEF Busy, Exports, Dialing, Matching, Drafting
    <3> HIDE DEF x
    <3> QED BY <2>1, <2>2, <2>3, <3>2, <3>4, <3>5 DEF Fit, Works
  <2>5. CASE q.op = "import" /\ q.at \in Drafting
    <3>1. q.todo \in Seq(Actors) /\ q.todo # <<>> /\ kind = "foundry"
      BY <1>1, <2>5 DEF Fit, Busy, Placed, Drafting, Matching, Dialing
    <3>2. Tail(q.todo) \in Seq(Actors) /\ Tail(q.todo) # <<>>
      BY <1>3, <3>1, TailTypes
    <3>4. Placed(x)
      BY <2>3, <2>5, <3>1 DEF Placed, Exports, Drafting
    <3>5. Busy(x)
      BY <2>3, <2>5, <3>2 DEF Busy, Exports, Matching, Drafting
    <3> HIDE DEF x
    <3> QED BY <2>1, <2>2, <2>3, <3>2, <3>4, <3>5 DEF Fit, Works
  <2> QED BY <2>4, <2>5
<1> QED BY <1>2, <1>3

(* On to another place with what it has in hand. *)
LEMMA GotoTypes ==
  ASSUME TypeOK, NEW r \in Requests, NEW a \in Places, Goto(r, a)
  PROVE  \E q \in Request :
           /\ Put(r, q) /\ q.at = a /\ q.op = req[r].op
           /\ q.client = req[r].client /\ q.todo = req[r].todo
           /\ q.titles = req[r].titles /\ q.id = req[r].id /\ q.npc = req[r].npc
<1> DEFINE x == [req[r] EXCEPT !.at = a]
<1>1. req[r] \in Request
  BY DEF TypeOK
<1>2. /\ x \in Request /\ x.at = a /\ x.op = req[r].op
      /\ x.client = req[r].client /\ x.todo = req[r].todo
      /\ x.titles = req[r].titles /\ x.id = req[r].id /\ x.npc = req[r].npc
  BY <1>1, AtTypes
<1>3. Put(r, x)
  BY DEF Goto
<1> HIDE DEF x
<1> QED BY <1>2, <1>3

-----------------------------------------------------------------------------
(* The steps of a request: what it is afterwards is as it should be, and     *)
(* has in hand what it may link; if its client is neither being started nor *)
(* being closed, it is not so then either; and a stale file is left behind  *)
(* by who has written the note elsewhere.                                   *)
Own == {"starting", "close"}
Leaves(r, q) == q.at = "stale" => WriteNote(r)
Served(r) == \E q : /\ Fit(q) /\ Put(r, q) /\ Holds(q)'
                   /\ req[r].at \notin Own /\ q.at \notin Own
                   /\ Leaves(r, q)

LEMMA FinishServes ==
  ASSUME NEW r \in Requests, Finish(r), req[r].at \notin Own
  PROVE  Served(r)
  BY IdleFits, IdleTypes DEF Finish, Served, Leaves, Own, Holds

LEMMA NextItemServes ==
  ASSUME TypeOK, WorkInv, NEW r \in Requests, NextItem(r),
         \/ req[r].op \in Exports /\ req[r].at \in Exporting
         \/ req[r].op = "import" /\ req[r].at \in Drafting
  PROVE  Served(r)
<1>1. PICK q : Fit(q) /\ Put(r, q) /\ q.at \in {"idle", "item"}
  BY NextItemFits
<1> QED BY <1>1 DEF Served, Leaves, Own, Holds, Exporting, Drafting

LEMMA OpenServes ==
  ASSUME TypeOK, NEW r \in Requests, NEW op, NEW at, Open(r, op, at),
         \/ op = "tool" /\ at = "client"
         \/ kind = "foundry" /\ op \in Exports /\ at = "plan"
         \/ kind = "foundry" /\ op = "import" /\ at = "client"
         \/ kind = "obsidian" /\ op \in Exports /\ at = "notes"
         \/ kind = "obsidian" /\ op = "import" /\ at = "scan"
  PROVE  Served(r)
<1> DEFINE x == [Idle EXCEPT !.op = op, !.at = at]
<1>1. x \in Request /\ x.op = op /\ x.at = at
  BY IdleTypes DEF Request, Places, Dialing, Exports
<1>2. Put(r, x) /\ req[r] = Idle
  BY DEF Open, Begin
<1> HIDE DEF x
<1>3. Placed(x)
  BY <1>1 DEF Placed, Dialing, Exports, Matching, Drafting
<1>4. Busy(x)
  BY <1>1 DEF Busy, Dialing, Exports, Exporting, Matching, Drafting
<1> QED BY <1>1, <1>2, <1>3, <1>4, IdleTypes DEF Served, Leaves, Fit, Holds, Own

LEMMA WorkServes ==
  ASSUME TypeOK, WorkInv, NEW r \in Requests, NEW items, NEW at, Work(r, items, at),
         req[r].at \notin Own,
         \/ /\ req[r].op \in Exports /\ req[r].at \in Dialing
            /\ kind = "foundry" /\ at = "item" /\ items \in Seq(Entities)
         \/ /\ req[r].op = "import" /\ kind = "foundry"
            /\ at = "item" /\ items \in Seq(Actors)
         \/ /\ req[r].op = "import" /\ kind # "foundry"
            /\ at = "list" /\ items \in Seq(Scanned)
  PROVE  Served(r)
<1>1. CASE items = <<>>
  BY <1>1, FinishServes DEF Work
<1>2. CASE items # <<>>
  <2> DEFINE x == [req[r] EXCEPT !.todo = items, !.at = at]
  <2>1. req[r] \in Request
    BY DEF TypeOK
  <2>2. x \in Request /\ x.op = req[r].op /\ x.at = at /\ x.todo = items
    <3>1. items \in Works /\ at \in Places
      BY DEF Works, Places, Exporting, Matching
    <3> QED BY <2>1, <3>1 DEF Request
  <2>3. Put(r, x)
    BY <1>2 DEF Work
  <2> HIDE DEF x
  <2>4. Placed(x)
    BY <2>2 DEF Placed, Exports, Drafting, Matching
  <2>5. Busy(x)
    BY <1>2, <2>2 DEF Busy, Exports, Dialing, Exporting, Drafting, Matching
  <2> QED BY <2>2, <2>3, <2>4, <2>5 DEF Served, Leaves, Fit, Holds, Own
<1> QED BY <1>1, <1>2

(* FoundrySync *)

LEMMA HandTypes ==
  ASSUME TypeOK, WorkInv, NEW r \in Requests
  PROVE  /\ Fit(req[r])
         /\ req[r].op \in Exports /\ req[r].at \in Exporting =>
              Head(req[r].todo) \in Entities /\ req[r].todo \in Seq(Entities) /\ req[r].todo # <<>>
         /\ req[r].op = "import" /\ req[r].at \in Drafting =>
              Head(req[r].todo) \in Actors /\ req[r].todo \in Seq(Actors) /\ req[r].todo # <<>>
         /\ req[r].op = "import" /\ req[r].at \in Matching =>
              Head(req[r].todo) \in Scanned /\ req[r].todo \in Seq(Scanned) /\ req[r].todo # <<>>
<1>1. Fit(req[r])
  BY DEF Fit, TypeOK, WorkInv
<1> QED BY <1>1, TailTypes DEF Fit, Busy

(* A choice of entities or actors, in some order.                          *)
LEMMA OrderTypes ==
  ASSUME NEW S, NEW ids \in SUBSET S, IsFiniteSet(S), NEW s \in Orders(ids)
  PROVE  s \in Seq(S) /\ \A n \in DOMAIN s : s[n] \in ids
<1>1. IsFiniteSet(ids)
  BY FS_Subset
<1>2. Cardinality(ids) \in Nat
  BY <1>1, FS_CardinalityType
<1>3. s \in [1 .. Cardinality(ids) -> ids]
  BY DEF Orders
<1> QED BY <1>2, <1>3, SeqDef

LEMMA PlanJournalsServes ==
  ASSUME TypeOK, WorkInv, NEW r \in Requests, PlanJournals(r)
  PROVE  Served(r)
<1>1. req[r] \in Request /\ req[r].op \in Exports /\ req[r].at = "plan" /\ kind = "foundry"
  BY DEF PlanJournals, At, TypeOK
<1>2. CASE Finish(r)
  BY <1>1, <1>2, FinishServes DEF Own
<1>3. ASSUME NEW ids \in SUBSET Present, NEW s \in Orders(ids),
             Put(r, [req[r] EXCEPT !.at = "client", !.todo = s, !.links = LinksOf("journal")])
      PROVE  Served(r)
  <2> DEFINE x == [req[r] EXCEPT !.at = "client", !.todo = s, !.links = LinksOf("journal")]
  <2>1. s \in Seq(Entities)
    BY EntityAssumption, OrderTypes DEF Present
  <2>2. LinksOf("journal") \in [Entities -> ExternalIds]
    BY DEF LinksOf, TypeOK, LinkKinds
  <2>3. x \in Request /\ x.op = req[r].op /\ x.at = "client" /\ x.todo = s
    <3>1. s \in Works /\ "client" \in Places
      BY <2>1 DEF Works, Places, Dialing
    <3> QED BY <1>1, <2>2, <3>1 DEF Request
  <2>4. Put(r, x)
    BY <1>3
  <2> HIDE DEF x
  <2>5. Placed(x) /\ Busy(x)
    BY <1>1, <2>1, <2>3 DEF Placed, Busy, Exports, Dialing, Exporting
  <2> QED BY <1>1, <2>3, <2>4, <2>5 DEF Served, Leaves, Fit, Holds, Own
<1> QED BY <1>2, <1>3 DEF PlanJournals

LEMMA JournalsReadyServes ==
  ASSUME TypeOK, WorkInv, NEW r \in Requests, JournalsReady(r)
  PROVE  Served(r)
<1>1. req[r].op \in Exports /\ req[r].at = "ready" /\ Work(r, req[r].todo, "item")
  BY DEF JournalsReady, At
<1>2. req[r].todo \in Seq(Entities) /\ kind = "foundry"
  BY <1>1, HandTypes DEF Fit, Busy, Placed, Dialing, Exports
<1> QED BY <1>1, <1>2, WorkServes DEF Own, Dialing

LEMMA UpdateJournalServes ==
  ASSUME TypeOK, WorkInv, NEW r \in Requests, UpdateJournal(r)
  PROVE  Served(r)
  BY NextItemServes DEF UpdateJournal, At, Exporting

LEMMA NewDocumentTypes ==
  ASSUME NEW r, NEW ids, NEW docs, NEW d \in NewDocument(r, ids, docs)
  PROVE  d \in ids /\ docs[d] = None
  BY DEF NewDocument, AnUnused, Unused

LEMMA CreateJournalServes ==
  ASSUME TypeOK, WorkInv, NEW r \in Requests, CreateJournal(r)
  PROVE  Served(r)
<1> DEFINE e == Head(req[r].todo)
<1>1. req[r].op \in Exports /\ req[r].at = "item" /\ kind = "foundry"
  BY DEF CreateJournal, At
<1>2. CASE NextItem(r)
  BY <1>1, <1>2, NextItemServes DEF Exporting
<1>3. ASSUME NEW j \in NewDocument(r, Journals, journal), journal' = [journal EXCEPT ![j] = e],
             NEW id \in {j, ByTitle},
             Put(r, [req[r] EXCEPT !.at = "link", !.id = id, !.seen = Sees(e, "journal")])
      PROVE  Served(r)
  <2>1. j \in Journals
    BY NewDocumentTypes
  <2> DEFINE y == [req[r] EXCEPT !.at = "link", !.id = id, !.seen = Sees(e, "journal")]
  <2>a. /\ y \in Request /\ y.at = "link" /\ y.id = id /\ y.op = req[r].op
        /\ y.todo = req[r].todo
    <3>1. "link" \in Places /\ id \in ExternalIds /\ req[r] \in Request
      BY <2>1 DEF TypeOK, Places, Exporting, ExternalIds
    <3> QED BY <3>1 DEF Request, Sees
  <2>b. Put(r, y)
    BY <1>3
  <2> HIDE DEF y
  <2>2. PICK x \in Request : /\ x = y /\ x.at = "link" /\ x.id = id /\ x.op = req[r].op
                             /\ x.todo = req[r].todo
    BY <2>a
  <2>3. Put(r, x)
    BY <2>2, <2>b
  <2>4. Placed(x) /\ Busy(x)
    BY <1>1, <2>2, HandTypes DEF Placed, Busy, Exports, Dialing, Exporting
  <2>5. Holds(x)'
    BY <1>3, <2>1, <2>2, DocumentAssumption DEF Holds, TypeOK
  <2> QED BY <1>1, <2>2, <2>3, <2>4, <2>5 DEF Served, Leaves, Fit, Own
<1> QED BY <1>2, <1>3 DEF CreateJournal

LEMMA LinkJournalServes ==
  ASSUME TypeOK, WorkInv, NEW r \in Requests, LinkJournal(r)
  PROVE  Served(r)
<1>1. req[r].op \in Exports /\ req[r].at = "link"
  BY DEF LinkJournal, At
<1>2. CASE NextItem(r)
  BY <1>1, <1>2, NextItemServes DEF Exporting
<1>3. CASE Finish(r)
  BY <1>1, <1>3, FinishServes DEF Own
<1>4. CASE Goto(r, "npc")
  <2>1. PICK q \in Request : /\ Put(r, q) /\ q.at = "npc" /\ q.op = req[r].op
                             /\ q.todo = req[r].todo
    BY <1>4, GotoTypes DEF Places, Exporting
  <2>2. Placed(q) /\ Busy(q)
    BY <1>1, <2>1, HandTypes DEF Fit, Placed, Busy, Exports, Dialing, Exporting
  <2> QED BY <1>1, <2>1, <2>2 DEF Served, Leaves, Fit, Own, Holds
<1> QED BY <1>2, <1>3, <1>4 DEF LinkJournal

LEMMA CreateActorServes ==
  ASSUME TypeOK, WorkInv, NEW r \in Requests, CreateActor(r)
  PROVE  Served(r)
<1>1. req[r].op \in Exports /\ req[r].at = "npc"
  BY DEF CreateActor, At
<1>2. CASE NextItem(r)
  BY <1>1, <1>2, NextItemServes DEF Exporting
<1>3. ASSUME NEW a \in NewDocument(r, Actors, actor), actor' = [actor EXCEPT ![a] = Head(req[r].todo)],
             Put(r, [req[r] EXCEPT !.at = "npclink", !.id = a,
                                   !.seen = Sees(Head(req[r].todo), "actor")])
      PROVE  Served(r)
  <2>1. a \in Actors
    BY NewDocumentTypes
  <2> DEFINE y == [req[r] EXCEPT !.at = "npclink", !.id = a,
                                 !.seen = Sees(Head(req[r].todo), "actor")]
  <2>a. /\ y \in Request /\ y.at = "npclink" /\ y.id = a /\ y.op = req[r].op
        /\ y.todo = req[r].todo
    <3>1. "npclink" \in Places /\ a \in ExternalIds /\ req[r] \in Request
      BY <2>1 DEF TypeOK, Places, Exporting, ExternalIds
    <3> QED BY <3>1 DEF Request, Sees
  <2>b. Put(r, y)
    BY <1>3
  <2> HIDE DEF y
  <2>2. PICK x \in Request : /\ x = y /\ x.at = "npclink" /\ x.id = a /\ x.op = req[r].op
                             /\ x.todo = req[r].todo
    BY <2>a
  <2>3. Put(r, x)
    BY <2>2, <2>b
  <2>4. Placed(x) /\ Busy(x)
    BY <1>1, <2>2, HandTypes DEF Fit, Placed, Busy, Exports, Dialing, Exporting
  <2>5. Holds(x)'
    BY <1>3, <2>1, <2>2 DEF Holds, TypeOK
  <2> QED BY <1>1, <2>2, <2>3, <2>4, <2>5 DEF Served, Leaves, Fit, Own
<1> QED BY <1>2, <1>3 DEF CreateActor

LEMMA LinkActorServes ==
  ASSUME TypeOK, WorkInv, NEW r \in Requests, LinkActor(r)
  PROVE  Served(r)
<1>1. req[r].op \in Exports /\ req[r].at = "npclink"
  BY DEF LinkActor, At
<1> QED BY <1>1, NextItemServes, FinishServes DEF LinkActor, Exporting, Own

LEMMA ListCharactersServes ==
  ASSUME TypeOK, WorkInv, NEW r \in Requests, ListCharacters(r)
  PROVE  Served(r)
<1>1. req[r].op = "import" /\ req[r].at = "ready" /\ kind = "foundry"
  BY DEF ListCharacters, At
<1>2. CASE Finish(r)
  BY <1>1, <1>2, FinishServes DEF Own
<1>3. ASSUME NEW s \in Orders(Characters), Work(r, s, "item") PROVE Served(r)
  <2>1. s \in Seq(Actors)
    BY DocumentAssumption, OrderTypes DEF Characters
  <2> QED BY <1>1, <1>3, <2>1, WorkServes DEF Own
<1> QED BY <1>2, <1>3 DEF ListCharacters

LEMMA ReadActorServes ==
  ASSUME TypeOK, WorkInv, NEW r \in Requests, ReadActor(r)
  PROVE  Served(r)
<1> DEFINE a == Head(req[r].todo)
<1>1. req[r].op = "import" /\ req[r].at = "item" /\ kind = "foundry"
  BY DEF ReadActor, At
<1>2. CASE NextItem(r)
  BY <1>1, <1>2, NextItemServes DEF Drafting
<1>3. CASE Put(r, [req[r] EXCEPT !.at = "create", !.id = a])
  <2>1. a \in Actors
    BY <1>1, HandTypes DEF Drafting
  <2> DEFINE y == [req[r] EXCEPT !.at = "create", !.id = a]
  <2>a. /\ y \in Request /\ y.at = "create" /\ y.id = a /\ y.op = req[r].op
        /\ y.todo = req[r].todo
    <3>1. "create" \in Places /\ a \in ExternalIds /\ req[r] \in Request
      BY <2>1 DEF TypeOK, Places, Drafting, ExternalIds
    <3> QED BY <3>1 DEF Request
  <2>b. Put(r, y)
    BY <1>3
  <2> HIDE DEF y
  <2>2. PICK x \in Request : /\ x = y /\ x.at = "create" /\ x.id = a /\ x.op = req[r].op
                             /\ x.todo = req[r].todo
    BY <2>a
  <2>3. Put(r, x)
    BY <2>2, <2>b
  <2>4. Placed(x) /\ Busy(x)
    BY <1>1, <2>2, HandTypes DEF Fit, Placed, Busy, Exports, Drafting, Matching
  <2> QED BY <1>1, <2>1, <2>2, <2>3, <2>4 DEF Served, Leaves, Fit, Own, Holds
<1> QED BY <1>2, <1>3 DEF ReadActor

LEMMA CreateNpcServes ==
  ASSUME TypeOK, WorkInv, HandInv, NEW r \in Requests, CreateNpc(r)
  PROVE  Served(r)
<1>1. req[r].op = "import" /\ req[r].at = "create"
  BY DEF CreateNpc, At
<1>2. PICK e \in {AnUnused(Npcs, entity)}, t \in Titles :
        /\ entity' = [entity EXCEPT ![e] = t]
        /\ origin' = [origin EXCEPT ![e] = req[r].id]
        /\ Put(r, [req[r] EXCEPT !.at = "actorlink", !.npc = e, !.seen = FALSE])
  BY DEF CreateNpc
<1>3. e \in Entities
  BY <1>2, DocumentAssumption DEF CreateNpc, AnUnused, Unused
<1> DEFINE y == [req[r] EXCEPT !.at = "actorlink", !.npc = e, !.seen = FALSE]
<1>a. /\ y \in Request /\ y.at = "actorlink" /\ y.npc = e /\ y.id = req[r].id
      /\ y.op = req[r].op /\ y.todo = req[r].todo
  <2>1. "actorlink" \in Places /\ req[r] \in Request
    BY DEF TypeOK, Places, Drafting
  <2> QED BY <1>3, <2>1 DEF Request
<1>b. Put(r, y)
  BY <1>2
<1> HIDE DEF y
<1>4. PICK x \in Request : /\ x = y /\ x.at = "actorlink" /\ x.npc = e /\ x.id = req[r].id
                           /\ x.op = req[r].op /\ x.todo = req[r].todo
  BY <1>a
<1>5. Put(r, x)
  BY <1>4, <1>b
<1>6. Placed(x) /\ Busy(x)
  BY <1>1, <1>4, HandTypes DEF Fit, Placed, Busy, Exports, Drafting, Matching, Dialing
<1>7. req[r].id \in Actors
  BY <1>1 DEF HandInv, Holds
<1>8. entity'[e] # None /\ origin'[e] = x.id
  BY <1>2, <1>3, <1>4, AbsentAssumption DEF TypeOK
<1> QED BY <1>1, <1>3, <1>4, <1>5, <1>6, <1>7, <1>8 DEF Served, Leaves, Fit, Own, Holds

LEMMA LinkNpcServes ==
  ASSUME TypeOK, WorkInv, NEW r \in Requests, LinkNpc(r)
  PROVE  Served(r)
<1>1. req[r].op = "import" /\ req[r].at = "actorlink"
  BY DEF LinkNpc, At
<1> QED BY <1>1, NextItemServes, FinishServes DEF LinkNpc, Drafting, Own

(* ObsidianVault *)

LEMMA PathTypes ==
  ASSUME TypeOK, NEW e \in Entities, NEW titles \in [Entities -> Titles \cup {None, Gone}],
         titles[e] \in Titles
  PROVE  PathOf(e, titles) \in Paths
  BY FileAssumption DEF PathOf, Paths

LEMMA PlanNotesServes ==
  ASSUME TypeOK, WorkInv, NEW r \in Requests, PlanNotes(r)
  PROVE  Served(r)
<1>1. req[r] \in Request /\ req[r].op \in Exports /\ req[r].at = "notes"
  BY DEF PlanNotes, At, TypeOK
<1>2. CASE Finish(r)
  BY <1>1, <1>2, FinishServes DEF Own
<1>3. ASSUME NEW ids \in SUBSET Present, NEW s \in Orders(ids), s # <<>>,
             Put(r, [req[r] EXCEPT !.at = "item", !.todo = s, !.titles = entity,
                                   !.links = LinksOf("md_file")])
      PROVE  Served(r)
  <2> DEFINE x == [req[r] EXCEPT !.at = "item", !.todo = s, !.titles = entity,
                                 !.links = LinksOf("md_file")]
  <2>1. s \in Seq(Entities) /\ \A n \in DOMAIN s : s[n] \in ids
    BY EntityAssumption, OrderTypes DEF Present
  <2>2. LinksOf("md_file") \in [Entities -> ExternalIds]
    BY DEF LinksOf, TypeOK, LinkKinds
  <2>3. x \in Request /\ x.op = req[r].op /\ x.at = "item" /\ x.todo = s /\ x.titles = entity
    <3>1. s \in Works /\ "item" \in Places /\ entity \in [Entities -> Titles \cup {None, Gone}]
      BY <2>1 DEF Works, Places, Exporting, TypeOK
    <3> QED BY <1>1, <2>2, <3>1 DEF Request
  <2>4. Put(r, x)
    BY <1>3
  <2> HIDE DEF x
  <2>5. Placed(x)
    BY <1>1, <2>3, HandTypes DEF Fit, Placed, Exports, Dialing
  <2>6. \A n \in DOMAIN x.todo : x.titles[x.todo[n]] \in Titles
    BY <2>1, <2>3 DEF Present, Here
  <2>7. Busy(x)
    BY <1>1, <1>3, <2>1, <2>3, <2>6 DEF Busy, Exports, Dialing, Exporting
  <2> QED BY <1>1, <2>3, <2>4, <2>5, <2>7 DEF Served, Leaves, Fit, Holds, Own
<1> QED BY <1>2, <1>3 DEF PlanNotes

(* The note's path is one.                                                 *)
LEMMA TargetTypes ==
  ASSUME TypeOK, WorkInv, NEW r \in Requests, kind = "obsidian",
         At(r, Exports, "item") \/ At(r, Exports, "stale")
  PROVE  Target(r) \in Paths /\ req[r].titles[Head(req[r].todo)] \in Titles
<1>1. /\ req[r].todo \in Seq(Entities) /\ req[r].todo # <<>> /\ req[r] \in Request
      /\ \A n \in DOMAIN req[r].todo : req[r].titles[req[r].todo[n]] \in Titles
  BY HandTypes DEF At, Exporting, Fit, Busy
<1>2. Head(req[r].todo) \in Entities /\ req[r].titles[Head(req[r].todo)] \in Titles
  BY <1>1, TailTypes
<1>3. req[r].titles \in [Entities -> Titles \cup {None, Gone}]
  BY <1>1 DEF Request
<1> QED BY <1>2, <1>3, PathTypes DEF Target

(* The note is in the vault, and its link is next. *)
LEMMA WrittenServes ==
  ASSUME TypeOK, WorkInv, NEW r \in Requests, kind = "obsidian",
         At(r, Exports, "item") \/ At(r, Exports, "stale"), Put(r, Written(r))
  PROVE  Served(r)
<1>1. req[r] \in Request /\ req[r].op \in Exports /\ req[r].at \in {"item", "stale"}
  BY DEF At, TypeOK
<1>2. Target(r) \in Paths
  BY TargetTypes
<1> DEFINE x == Written(r)
<1>3. /\ x \in Request /\ x.op = req[r].op /\ x.at = "mdlink"
      /\ x.todo = req[r].todo /\ x.titles = req[r].titles
  <2>1. "mdlink" \in Places /\ Target(r) \in ExternalIds
    BY <1>2 DEF Places, Exporting, ExternalIds
  <2> QED BY <1>1, <2>1 DEF Request, Written, Sees
<1> HIDE DEF x
<1>4. Placed(x) /\ Busy(x)
  BY <1>1, <1>3, HandTypes DEF Fit, Placed, Busy, Exports, Dialing, Exporting
<1> QED BY <1>1, <1>3, <1>4 DEF Served, Leaves, Fit, Holds, Own, x

LEMMA WriteNoteServes ==
  ASSUME TypeOK, WorkInv, NEW r \in Requests, WriteNote(r)
  PROVE  Served(r)
<1>1. req[r].op \in Exports /\ req[r].at = "item" /\ kind = "obsidian"
  BY DEF WriteNote, At
<1>2. CASE Put(r, Written(r))
  BY <1>1, <1>2, WrittenServes DEF At
<1>3. CASE Goto(r, "stale")
  <2>1. PICK q \in Request : /\ Put(r, q) /\ q.at = "stale" /\ q.op = req[r].op
                             /\ q.todo = req[r].todo /\ q.titles = req[r].titles
    BY <1>3, GotoTypes DEF Places, Exporting
  <2>2. Placed(q) /\ Busy(q)
    BY <1>1, <2>1, HandTypes DEF Fit, Placed, Busy, Exports, Dialing, Exporting
  <2> QED BY <1>1, <2>1, <2>2 DEF Served, Leaves, Fit, Own, Holds
<1> QED BY <1>2, <1>3 DEF WriteNote

LEMMA RemoveStaleServes ==
  ASSUME TypeOK, WorkInv, NEW r \in Requests, RemoveStale(r)
  PROVE  Served(r)
  BY WrittenServes DEF RemoveStale

LEMMA WriteNoteFailsServes ==
  ASSUME TypeOK, WorkInv, NEW r \in Requests, WriteNoteFails(r)
  PROVE  Served(r)
  BY NextItemServes DEF WriteNoteFails, At, Exporting

LEMMA LinkNoteServes ==
  ASSUME TypeOK, WorkInv, NEW r \in Requests, LinkNote(r)
  PROVE  Served(r)
  BY NextItemServes DEF LinkNote, At, Exporting

(* The notes of a vault can be read one after the other.                   *)
LEMMA OrdersExist ==
  ASSUME NEW S, IsFiniteSet(S)
  PROVE  \E s \in Orders(S) : TRUE
<1>1. PICK f : f \in Bijection(1 .. Cardinality(S), S)
  BY FS_CardinalityType DEF ExistsBijection
<1>2. f \in [1 .. Cardinality(S) -> S] /\ \A i, j \in DOMAIN f : f[i] = f[j] => i = j
  BY <1>1 DEF Bijection, Injection, IsInjective
<1> QED BY <1>2 DEF Orders

LEMMA PathsFinite == IsFiniteSet(Paths)
  BY FileAssumption, EntityAssumption, FS_AddElement, FS_Product DEF Paths

LEMMA ScanNotesServes ==
  ASSUME TypeOK, WorkInv, NEW r \in Requests, ScanNotes(r)
  PROVE  Served(r)
<1> DEFINE P == {p \in Paths : vault[p] # None}
           s == CHOOSE sorted \in Orders(P) : TRUE
           items == [i \in DOMAIN s |-> [path |-> s[i], of |-> vault[s[i]].of,
                                         title |-> vault[s[i]].title, id |-> None]]
<1>1. req[r].op = "import" /\ req[r].at = "scan" /\ Work(r, items, "list")
  BY DEF ScanNotes, At
<1>2. s \in Orders(P)
  BY PathsFinite, FS_Subset, OrdersExist
<1> HIDE DEF s
<1>3. s \in Seq(Paths) /\ \A n \in DOMAIN s : s[n] \in P
  BY <1>2, PathsFinite, OrderTypes
<1>4. \A n \in DOMAIN s : vault[s[n]] \in Notes
  BY <1>3 DEF TypeOK
<1>5. \A n \in DOMAIN s : items[n] \in Scanned
  BY <1>3, <1>4 DEF Scanned, Notes
<1>6. DOMAIN s = 1 .. Len(s) /\ Len(s) \in Nat
  BY <1>3
<1>7. items \in Seq(Scanned)
  <2>1. items \in [1 .. Len(s) -> Scanned]
    BY <1>5, <1>6
  <2> HIDE DEF items
  <2> QED BY <1>6, <2>1, SeqDef
<1>8. kind # "foundry"
  BY <1>1, HandTypes DEF Fit, Placed, Drafting, Dialing
<1> HIDE DEF items
<1> QED BY <1>1, <1>7, <1>8, WorkServes DEF Own

LEMMA ListEntitiesServes ==
  ASSUME TypeOK, WorkInv, NEW r \in Requests, ListEntities(r)
  PROVE  Served(r)
<1>1. req[r] \in Request /\ req[r].op = "import" /\ req[r].at = "list"
  BY DEF ListEntities, At, TypeOK
<1>2. PICK found \in [Titles -> Entities \union {None}] :
        Put(r, [req[r] EXCEPT !.titles = entity, !.found = found, !.at = "match"])
  BY DEF ListEntities
<1> DEFINE x == [req[r] EXCEPT !.titles = entity, !.found = found, !.at = "match"]
<1>3. x \in Request /\ x.op = req[r].op /\ x.at = "match" /\ x.todo = req[r].todo
  <2>1. "match" \in Places /\ entity \in [Entities -> Titles \cup {None, Gone}]
    BY DEF Places, Matching, TypeOK
  <2> QED BY <1>1, <2>1 DEF Request
<1>4. Put(r, x)
  BY <1>2
<1> HIDE DEF x
<1>5. Placed(x) /\ Busy(x)
  BY <1>1, <1>3, HandTypes DEF Fit, Placed, Busy, Exports, Dialing, Drafting, Matching
<1> QED BY <1>1, <1>3, <1>4, <1>5 DEF Served, Leaves, Fit, Holds, Own

(* A note that is matched is noted so, in the order the notes were read.    *)
LEMMA MatchedServes ==
  ASSUME TypeOK, WorkInv, NEW r \in Requests, At(r, {"import"}, "match"),
         NEW id \in Entities, Matched(r, id)
  PROVE  Served(r)
<1> DEFINE q == req[r]
           note == [Head(q.todo) EXCEPT !.id = id]
           done == Append(q.done, note)
           known == [q EXCEPT !.found[note.title] = id]
           last == [known EXCEPT !.todo = done, !.done = <<>>, !.at = "update",
                                 !.titles = Idle.titles, !.found = Idle.found]
           next == [known EXCEPT !.todo = Tail(@), !.done = done]
<1>1. /\ q \in Request /\ q.op = "import" /\ q.at = "match"
      /\ q.todo \in Seq(Scanned) /\ q.todo # <<>> /\ Head(q.todo) \in Scanned
      /\ kind # "foundry"
  BY HandTypes DEF At, Fit, Placed, Matching, Drafting, Dialing
<1>2. note \in Scanned
  BY <1>1 DEF Scanned
<1>3. done \in Seq(Scanned) /\ done # <<>>
  <2>1. q.done \in Seq(Scanned)
    BY <1>1 DEF Request
  <2> HIDE DEF note
  <2> QED BY <1>2, <2>1, AppendProperties
<1>4. known \in Request /\ known.op = q.op /\ known.at = q.at /\ known.todo = q.todo
  <2>1. [q.found EXCEPT ![note.title] = id] \in [Titles -> Entities \cup {None}]
    BY <1>1 DEF Request
  <2>2. known = [q EXCEPT !.found = [q.found EXCEPT ![note.title] = id]]
    BY <1>1 DEF Request
  <2> HIDE DEF note
  <2> QED BY <1>1, <2>1, <2>2 DEF Request
<1> HIDE DEF known, done, note
<1>5. CASE Len(q.todo) = 1
  <2>1. Put(r, last)
    BY <1>5 DEF Matched, known, done, note
  <2>2. last \in Request /\ last.op = q.op /\ last.at = "update" /\ last.todo = done
    <3>1. /\ "update" \in Places /\ done \in Works /\ <<>> \in Seq(Scanned)
          /\ Idle.titles \in [Entities -> Titles \cup {None, Gone}]
          /\ Idle.found \in [Titles -> Entities \cup {None}]
      BY <1>3 DEF Places, Matching, Works, Idle
    <3> QED BY <1>4, <3>1 DEF Request
  <2> HIDE DEF last
  <2>3. Placed(last) /\ Busy(last)
    BY <1>1, <1>3, <2>2 DEF Placed, Busy, Exports, Matching, Drafting, Dialing
  <2> QED BY <1>1, <2>1, <2>2, <2>3 DEF Served, Leaves, Fit, Holds, Own
<1>6. CASE Len(q.todo) # 1
  <2>1. Put(r, next)
    BY <1>6 DEF Matched, known, done, note
  <2>2. Tail(q.todo) \in Seq(Scanned) /\ Tail(q.todo) # <<>>
    BY <1>1, <1>6, TailTypes
  <2>3. next \in Request /\ next.op = q.op /\ next.at = "match" /\ next.todo = Tail(q.todo)
    <3>1. Tail(q.todo) \in Works
      BY <2>2 DEF Works
    <3> QED BY <1>1, <1>3, <1>4, <3>1 DEF Request
  <2> HIDE DEF next
  <2>4. Placed(next) /\ Busy(next)
    BY <1>1, <2>2, <2>3 DEF Placed, Busy, Exports, Matching, Drafting, Dialing
  <2> QED BY <1>1, <2>1, <2>3, <2>4 DEF Served, Leaves, Fit, Holds, Own
<1> QED BY <1>5, <1>6

LEMMA MatchNoteServes ==
  ASSUME TypeOK, WorkInv, NEW r \in Requests, MatchNote(r)
  PROVE  Served(r)
<1> DEFINE note == Head(req[r].todo)
<1>1. At(r, {"import"}, "match")
  BY DEF MatchNote
<1>2. note \in Scanned /\ req[r] \in Request
  BY <1>1, HandTypes DEF At, Matching, Fit
<1>3. note.of \in Entities \cup {None} /\ note.title \in Titles
      /\ req[r].found \in [Titles -> Entities \cup {None}]
  BY <1>2 DEF Scanned, Request
<1>4. CASE Known(r, note) /\ Matched(r, note.of)
  BY <1>1, <1>3, <1>4, MatchedServes DEF Known
<1>5. CASE req[r].found[note.title] # None /\ Matched(r, req[r].found[note.title])
  BY <1>1, <1>3, <1>5, MatchedServes
<1>6. CASE Unused(Entities, entity) # {} /\ Matched(r, AnUnused(Entities, entity))
  <2>1. AnUnused(Entities, entity) \in Entities
    BY <1>6 DEF AnUnused, Unused
  <2> QED BY <1>1, <1>6, <2>1, MatchedServes
<1> QED BY <1>4, <1>5, <1>6 DEF MatchNote

LEMMA NextNoteServes ==
  ASSUME TypeOK, WorkInv, NEW r \in Requests, NextNote(r),
         req[r].op = "import", req[r].at \in Matching
  PROVE  Served(r)
<1> DEFINE q == req[r]
           x == [q EXCEPT !.todo = Tail(@), !.at = "update", !.seen = FALSE]
<1>1. /\ q \in Request /\ q.todo \in Seq(Scanned) /\ q.todo # <<>> /\ kind # "foundry"
  BY HandTypes DEF Fit, Placed, Matching, Drafting, Dialing
<1>2. CASE Len(q.todo) = 1
  BY <1>2, FinishServes DEF NextNote, Own, Matching
<1>3. CASE Len(q.todo) # 1
  <2>1. Put(r, x)
    BY <1>3 DEF NextNote
  <2>2. Tail(q.todo) \in Seq(Scanned) /\ Tail(q.todo) # <<>>
    BY <1>1, <1>3, TailTypes
  <2>3. x \in Request /\ x.op = q.op /\ x.at = "update" /\ x.todo = Tail(q.todo)
    <3>1. Tail(q.todo) \in Works /\ "update" \in Places
      BY <2>2 DEF Works, Places, Matching
    <3> QED BY <1>1, <3>1 DEF Request
  <2> HIDE DEF x
  <2>4. Placed(x) /\ Busy(x)
    BY <1>1, <2>2, <2>3 DEF Placed, Busy, Exports, Matching, Drafting, Dialing
  <2> QED BY <2>1, <2>3, <2>4 DEF Served, Leaves, Fit, Holds, Own, Matching
<1> QED BY <1>2, <1>3

LEMMA UpdateEntityServes ==
  ASSUME TypeOK, WorkInv, NEW r \in Requests, UpdateEntity(r)
  PROVE  Served(r)
<1>1. req[r].op = "import" /\ req[r].at = "update"
  BY DEF UpdateEntity, At
<1>2. CASE NextNote(r)
  BY <1>1, <1>2, NextNoteServes DEF Matching
<1>3. ASSUME NEW seen \in BOOLEAN, Put(r, [req[r] EXCEPT !.at = "notelink", !.seen = seen])
      PROVE  Served(r)
  <2> DEFINE q == [req[r] EXCEPT !.at = "notelink", !.seen = seen]
  <2>1. /\ q \in Request /\ Put(r, q) /\ q.at = "notelink" /\ q.op = req[r].op
        /\ q.todo = req[r].todo
    <3>1. req[r] \in Request /\ "notelink" \in Places
      BY DEF TypeOK, Places, Matching
    <3> QED BY <1>3, <3>1 DEF Request
  <2> HIDE DEF q
  <2>2. Placed(q) /\ Busy(q)
    BY <1>1, <2>1, HandTypes DEF Fit, Placed, Busy, Exports, Dialing, Drafting, Matching
  <2> QED BY <1>1, <2>1, <2>2 DEF Served, Leaves, Fit, Own, Holds
<1> QED BY <1>2, <1>3 DEF UpdateEntity, Sees

LEMMA LinkImportedServes ==
  ASSUME TypeOK, WorkInv, NEW r \in Requests, LinkImported(r)
  PROVE  Served(r)
<1>1. req[r].op = "import" /\ req[r].at = "notelink"
  BY DEF LinkImported, At
<1> QED BY <1>1, NextNoteServes, FinishServes DEF LinkImported, Matching, Own

-----------------------------------------------------------------------------
(* Clients *)

LEMMA EditServes ==
  ASSUME TypeOK, WorkInv, NEW r \in Requests, UpdateConnection(r) \/ DeleteConnection(r)
  PROVE  Served(r)
<1> DEFINE x == [Idle EXCEPT !.op = "edit", !.at = "invalidate"]
<1>1. x \in Request /\ x.op = "edit" /\ x.at = "invalidate"
  BY IdleTypes DEF Request, Places
<1>2. Put(r, x) /\ req[r] = Idle
  BY DEF UpdateConnection, DeleteConnection, Begin
<1> HIDE DEF x
<1>3. Placed(x) /\ Busy(x)
  BY <1>1 DEF Placed, Busy, Exports
<1> QED BY <1>1, <1>2, <1>3, IdleTypes DEF Served, Leaves, Fit, Holds, Own

(* The client that is there, or one that is being started under the lock.   *)
LEMMA UseClientPuts ==
  ASSUME TypeOK, WorkInv, NEW r \in Requests, UseClient(r)
  PROVE  \E q : /\ Fit(q) /\ Put(r, q) /\ req[r].at = "client" /\ lock = None
               /\ \/ q.at = "ready" /\ UNCHANGED <<lock, proc, cache>>
                  \/ /\ q.at = "starting" /\ q.client \in Clients /\ proc[q.client] = None
                     /\ cache = None /\ lock' = r /\ UNCHANGED cache
                     /\ proc' = [proc EXCEPT ![q.client] = "starting"]
<1>1. req[r] \in Request /\ req[r].at = "client" /\ lock = None /\ UNCHANGED cache
  BY DEF UseClient, TypeOK
<1>2. ASSUME NEW x, NEW at \in {"ready", "starting"}, NEW k \in Clients,
             x = [req[r] EXCEPT !.at = at, !.client = k]
      PROVE  Fit(x) /\ x.at = at /\ x.client = k
  <2>1. at \in Places
    BY DEF Places, Dialing
  <2>2. x \in Request /\ x.at = at /\ x.client = k /\ x.op = req[r].op /\ x.todo = req[r].todo
    BY <1>1, <1>2, <2>1 DEF Request
  <2>3. Placed(x) /\ Busy(x)
    BY <1>1, <2>2, HandTypes DEF Fit, Placed, Busy, Exports, Dialing, Exporting, Drafting, Matching
  <2> QED BY <2>2, <2>3 DEF Fit
<1>3. CASE cache # None /\ Put(r, [req[r] EXCEPT !.at = "ready", !.client = cache])
           /\ UNCHANGED <<lock, proc>>
  <2> DEFINE x == [req[r] EXCEPT !.at = "ready", !.client = cache]
  <2>1. cache \in Clients
    BY <1>3 DEF TypeOK
  <2>2. Fit(x) /\ x.at = "ready"
    BY <1>2, <2>1
  <2> HIDE DEF x
  <2>3. Put(r, x)
    BY <1>3 DEF x
  <2> QED BY <1>1, <1>3, <2>2, <2>3
<1>4. ASSUME cache = None, lock' = r, Unused(Clients, proc) # {},
             NEW k, k = AnUnused(Clients, proc), proc' = [proc EXCEPT ![k] = "starting"],
             Put(r, [req[r] EXCEPT !.at = "starting", !.client = k])
      PROVE  \E q : /\ Fit(q) /\ Put(r, q)
                   /\ q.at = "starting" /\ q.client \in Clients /\ proc[q.client] = None
                   /\ proc' = [proc EXCEPT ![q.client] = "starting"]
  <2> DEFINE x == [req[r] EXCEPT !.at = "starting", !.client = k]
  <2>1. k \in Clients /\ proc[k] = None
    BY <1>4 DEF AnUnused, Unused
  <2>2. Fit(x) /\ x.at = "starting" /\ x.client = k
    BY <1>2, <2>1
  <2> HIDE DEF x
  <2>3. Put(r, x)
    BY <1>4 DEF x
  <2> QED BY <1>4, <2>1, <2>2, <2>3
<1>5. \/ cache # None /\ Put(r, [req[r] EXCEPT !.at = "ready", !.client = cache])
         /\ UNCHANGED <<lock, proc>>
      \/ /\ cache = None /\ lock' = r /\ Unused(Clients, proc) # {}
         /\ \E k : /\ k = AnUnused(Clients, proc) /\ proc' = [proc EXCEPT ![k] = "starting"]
                  /\ Put(r, [req[r] EXCEPT !.at = "starting", !.client = k])
  BY DEF UseClient
<1> QED BY <1>1, <1>3, <1>4, <1>5

LEMMA StartedPuts ==
  ASSUME TypeOK, WorkInv, NEW r \in Requests, Started(r)
  PROVE  \E q : Fit(q) /\ Put(r, q) /\ q.at = "ready"
<1>1. req[r].at = "starting"
  BY DEF Started
<1>2. PICK q \in Request : /\ Put(r, q) /\ q.at = "ready" /\ q.op = req[r].op
                           /\ q.todo = req[r].todo
  BY GotoTypes DEF Started, Places, Dialing
<1>3. Placed(q) /\ Busy(q)
  BY <1>1, <1>2, HandTypes DEF Fit, Placed, Busy, Exports, Dialing, Exporting, Drafting, Matching
<1> QED BY <1>2, <1>3 DEF Fit

LEMMA InvalidatePuts ==
  ASSUME TypeOK, WorkInv, NEW r \in Requests, Invalidate(r)
  PROVE  /\ req[r].at = "invalidate" /\ lock = None /\ cache' = None /\ UNCHANGED <<lock, proc>>
         /\ \E q : /\ Fit(q) /\ Put(r, q)
                  /\ IF cache = None THEN q = Idle
                     ELSE q.at = "close" /\ q.client = cache
<1>1. req[r] \in Request /\ req[r].at = "invalidate"
  BY DEF Invalidate, TypeOK
<1>2. CASE cache = None
  BY <1>1, <1>2, IdleFits DEF Invalidate, Finish
<1>3. CASE cache # None
  <2> DEFINE x == [req[r] EXCEPT !.at = "close", !.client = cache]
  <2>1. /\ x \in Request /\ x.at = "close" /\ x.client = cache /\ x.op = req[r].op
    <3>1. "close" \in Places /\ cache \in Clients
      BY <1>3 DEF Places, TypeOK
    <3> QED BY <1>1, <3>1 DEF Request
  <2>2. Put(r, x)
    BY <1>3 DEF Invalidate
  <2> HIDE DEF x
  <2>3. Placed(x) /\ Busy(x)
    BY <1>1, <2>1, HandTypes DEF Fit, Placed, Busy, Exports, Dialing, Exporting, Drafting, Matching
  <2> QED BY <1>1, <1>3, <2>1, <2>2, <2>3 DEF Fit, Invalidate
<1> QED BY <1>2, <1>3

LEMMA FinishPuts ==
  ASSUME NEW r \in Requests, Finish(r)
  PROVE  Fit(Idle) /\ Put(r, Idle)
  BY IdleFits DEF Finish

-----------------------------------------------------------------------------
(* Types *)

LEMMA ServedTypes ==
  ASSUME TypeOK, WorkInv, UNCHANGED kind, NEW r \in Requests, Served(r)
  PROVE  req' \in [Requests -> Request] /\ WorkInv'
  BY PutFits DEF Served

LEMMA FinishTypes ==
  ASSUME TypeOK, WorkInv, UNCHANGED kind, NEW r \in Requests, Finish(r)
  PROVE  req' \in [Requests -> Request] /\ WorkInv'
  BY PutFits, FinishPuts

LEMMA SameWork ==
  ASSUME TypeOK, WorkInv, UNCHANGED <<kind, req>>
  PROVE  req' \in [Requests -> Request] /\ WorkInv'
  BY DEF TypeOK, WorkInv, Placed, Busy

(* An older row is changed, or the link that is read.                      *)
LEMMA UpsertNames ==
  ASSUME NEW r, NEW e, NEW k, NEW id, Upsert(r, e, k, id)
  PROVE  UNCHANGED link \/ Names(e, k, id)
  BY DEF Upsert

LEMMA UpsertTypes ==
  ASSUME TypeOK, NEW r, NEW e, NEW k, NEW id \in ExternalIds, Upsert(r, e, k, id)
  PROVE  link' \in [Entities -> [LinkKinds -> ExternalIds]]
<1>1. CASE UNCHANGED link \/ e \notin Entities
  BY <1>1, UpsertNames DEF Names, TypeOK
<1>2. CASE e \in Entities /\ Names(e, k, id)
  <2>1. [link[e] EXCEPT ![k] = id] \in [LinkKinds -> ExternalIds]
    BY <1>2 DEF TypeOK
  <2>2. link' = [link EXCEPT ![e] = [link[e] EXCEPT ![k] = id]]
    BY <1>2 DEF Names
  <2> QED BY <2>1, <2>2 DEF TypeOK
<1> QED BY <1>1, <1>2, UpsertNames

LEMMA NoLinksTypes == NoLinks \in [LinkKinds -> ExternalIds]
  BY DEF NoLinks, ExternalIds

LEMMA ConnectionsTypes ==
  ASSUME TypeOK, WorkInv, ConnectionsNext, UNCHANGED <<world, vault, kept>>
  PROVE  TypeOK' /\ WorkInv'
<1>1. ASSUME NEW r \in Requests, UseClient(r)
      PROVE  TypeOK' /\ WorkInv'
  <2>1. PICK q : /\ Fit(q) /\ Put(r, q)
                 /\ \/ UNCHANGED <<lock, proc, cache>>
                    \/ /\ q.client \in Clients /\ lock' = r /\ UNCHANGED cache
                       /\ proc' = [proc EXCEPT ![q.client] = "starting"]
    BY <1>1, UseClientPuts
  <2>2. UNCHANGED <<rows, mishaps>>
    BY <1>1 DEF UseClient
  <2>3. req' \in [Requests -> Request] /\ WorkInv'
    BY <2>1, <2>2, PutFits DEF rows
  <2> QED BY <2>1, <2>2, <2>3 DEF rows, clients, world, TypeOK
<1>2. ASSUME NEW r \in Requests, Started(r)
      PROVE  TypeOK' /\ WorkInv'
  <2>1. PICK q : Fit(q) /\ Put(r, q)
    BY <1>2, StartedPuts
  <2>2. UNCHANGED <<rows, mishaps>>
    BY <1>2 DEF Started
  <2>3. req' \in [Requests -> Request] /\ WorkInv'
    BY <2>1, <2>2, PutFits DEF rows
  <2>4. /\ proc' = [proc EXCEPT ![req[r].client] = "up"]
        /\ cache' \in Clients \cup {None} /\ lock' = None
    BY <1>2 DEF Started, TypeOK, Request
  <2> QED BY <2>2, <2>3, <2>4 DEF rows, clients, world, TypeOK
<1>3. ASSUME NEW r \in Requests, Finish(r), StartFails(r) \/ Close(r) \/ CallTool(r) \/ Cancelled(r)
      PROVE  TypeOK' /\ WorkInv'
  <2>1. UNCHANGED <<rows, cache>> /\ (UNCHANGED mishaps \/ mishaps' = mishaps + 1)
        /\ (UNCHANGED lock \/ lock' = None)
        /\ (UNCHANGED proc \/ proc' = [proc EXCEPT ![req[r].client] = Gone])
    BY <1>3 DEF StartFails, Close, CallTool, Cancelled, Mishap, clients
  <2>2. req' \in [Requests -> Request] /\ WorkInv'
    BY <1>3, <2>1, FinishTypes DEF rows
  <2>3. proc' \in [Clients -> {None, Gone, "starting", "up"}]
    BY <2>1 DEF TypeOK
  <2> QED BY <2>1, <2>2, <2>3 DEF rows, clients, world, TypeOK
<1>4. ASSUME NEW r \in Requests, UpdateConnection(r) \/ DeleteConnection(r)
      PROVE  TypeOK' /\ WorkInv'
  <2>1. Served(r) /\ UNCHANGED kind
    BY <1>4, EditServes DEF UpdateConnection, DeleteConnection
  <2>2. req' \in [Requests -> Request] /\ WorkInv'
    BY <2>1, ServedTypes
  <2>3. link' \in [Entities -> [LinkKinds -> ExternalIds]] /\ row' \in BOOLEAN /\ edits' \in Nat
    <3>1. CASE UpdateConnection(r)
      BY <3>1 DEF UpdateConnection, TypeOK
    <3>2. CASE DeleteConnection(r)
      <4>1. link' = [e \in Entities |-> NoLinks]
        BY <3>2 DEF DeleteConnection
      <4>2. link' \in [Entities -> [LinkKinds -> ExternalIds]]
        BY <4>1, NoLinksTypes
      <4>3. edits \in Nat
        BY DEF TypeOK
      <4>4. row' = FALSE /\ edits' = edits + 1
        BY <3>2 DEF DeleteConnection
      <4>5. edits' \in Nat
        BY <4>3, <4>4
      <4>6. row' \in BOOLEAN
        BY <4>4
      <4> QED BY <4>2, <4>5, <4>6
    <3> QED BY <1>4, <3>1, <3>2
  <2>4. UNCHANGED <<kind, entity, clients, mishaps>>
    BY <1>4 DEF UpdateConnection, DeleteConnection
  <2> QED BY <2>2, <2>3, <2>4 DEF clients, world, TypeOK
<1>5. ASSUME NEW r \in Requests, Invalidate(r)
      PROVE  TypeOK' /\ WorkInv'
  <2>1. PICK q : Fit(q) /\ Put(r, q)
    BY <1>5, InvalidatePuts
  <2>2. UNCHANGED <<rows, mishaps, lock, proc>> /\ cache' = None
    BY <1>5 DEF Invalidate
  <2>3. req' \in [Requests -> Request] /\ WorkInv'
    BY <2>1, <2>2, PutFits DEF rows
  <2> QED BY <2>2, <2>3 DEF rows, clients, world, TypeOK
<1>6. ASSUME NEW r \in Requests, Open(r, "tool", "client")
      PROVE  TypeOK' /\ WorkInv'
  <2>1. Served(r) /\ UNCHANGED <<rows, clients, mishaps>>
    BY <1>6, OpenServes DEF Open
  <2>2. req' \in [Requests -> Request] /\ WorkInv'
    BY <2>1, ServedTypes DEF rows
  <2> QED BY <2>1, <2>2 DEF rows, clients, world, TypeOK
<1>7. ASSUME NEW e \in Entities, DeleteEntity(e)
      PROVE  TypeOK' /\ WorkInv'
  <2>1. req' \in [Requests -> Request] /\ WorkInv'
    BY <1>7, SameWork DEF DeleteEntity
  <2> QED BY <1>7, <2>1, NoLinksTypes DEF DeleteEntity, rows, clients, world, TypeOK
<1>8. ASSUME NEW e \in Entities, NEW t \in Titles, Rename(e, t)
      PROVE  TypeOK' /\ WorkInv'
  <2>1. req' \in [Requests -> Request] /\ WorkInv'
    BY <1>8, SameWork DEF Rename
  <2> QED BY <1>8, <2>1 DEF Rename, rows, clients, world, TypeOK
<1>9. ASSUME ServerDies
      PROVE  TypeOK' /\ WorkInv'
  <2>1. req' \in [Requests -> Request] /\ WorkInv'
    BY <1>9, SameWork DEF ServerDies, rows
  <2> QED BY <1>9, <2>1 DEF ServerDies, Mishap, rows, clients, world, TypeOK
<1>10. ASSUME Kill
      PROVE  TypeOK' /\ WorkInv'
  <2>1. req' \in [Requests -> Request] /\ WorkInv'
    BY <1>10, IdleFits DEF Kill, rows, Fit, WorkInv, Placed, Busy
  <2>2. proc' \in [Clients -> {None, Gone, "starting", "up"}]
    BY <1>10 DEF Kill, TypeOK
  <2> QED BY <1>10, <2>1, <2>2 DEF Kill, Mishap, rows, clients, world, TypeOK
<1> QED
  BY <1>1, <1>2, <1>3, <1>4, <1>5, <1>6, <1>7, <1>8, <1>9, <1>10 DEF ConnectionsNext, StartFails, Close, CallTool, Cancelled

LEMMA FoundryTypes ==
  ASSUME TypeOK, WorkInv, HandInv, FoundryNext, UNCHANGED <<vault, kept>>
  PROVE  TypeOK' /\ WorkInv'
<1>1. ASSUME NEW r \in Requests, NEW op \in Exports, kind = "foundry", Open(r, op, "plan"), UNCHANGED world
      PROVE  TypeOK' /\ WorkInv'
  <2>1. Served(r) /\ UNCHANGED <<rows, clients, mishaps>>
    BY <1>1, OpenServes DEF Open
  <2>2. req' \in [Requests -> Request] /\ WorkInv'
    BY <2>1, ServedTypes DEF rows
  <2> QED BY <1>1, <2>1, <2>2 DEF rows, clients, world, TypeOK
<1>2. ASSUME NEW r \in Requests, kind = "foundry", Open(r, "import", "client"), UNCHANGED world
      PROVE  TypeOK' /\ WorkInv'
  <2>1. Served(r) /\ UNCHANGED <<rows, clients, mishaps>>
    BY <1>2, OpenServes DEF Open
  <2>2. req' \in [Requests -> Request] /\ WorkInv'
    BY <2>1, ServedTypes DEF rows
  <2> QED BY <1>2, <2>1, <2>2 DEF rows, clients, world, TypeOK
<1>3. ASSUME NEW r \in Requests, PlanJournals(r)
      PROVE  TypeOK' /\ WorkInv'
  <2>1. UNCHANGED kind
    BY <1>3 DEF PlanJournals, rows
  <2>2. req' \in [Requests -> Request] /\ WorkInv'
    BY <1>3, <2>1, PlanJournalsServes, ServedTypes
  <2> QED BY <1>3, <2>2 DEF PlanJournals, rows, clients, world, TypeOK
<1>4. ASSUME NEW r \in Requests, JournalsReady(r)
      PROVE  TypeOK' /\ WorkInv'
  <2>1. UNCHANGED kind
    BY <1>4 DEF JournalsReady, rows
  <2>2. req' \in [Requests -> Request] /\ WorkInv'
    BY <1>4, <2>1, JournalsReadyServes, ServedTypes
  <2> QED BY <1>4, <2>2 DEF JournalsReady, rows, clients, world, TypeOK
<1>5. ASSUME NEW r \in Requests, UpdateJournal(r)
      PROVE  TypeOK' /\ WorkInv'
  <2>1. UNCHANGED kind
    BY <1>5 DEF UpdateJournal, rows
  <2>2. req' \in [Requests -> Request] /\ WorkInv'
    BY <1>5, <2>1, UpdateJournalServes, ServedTypes
  <2> QED BY <1>5, <2>2 DEF UpdateJournal, rows, clients, world, TypeOK
<1>6. ASSUME NEW r \in Requests, ListCharacters(r)
      PROVE  TypeOK' /\ WorkInv'
  <2>1. UNCHANGED kind
    BY <1>6 DEF ListCharacters, rows
  <2>2. req' \in [Requests -> Request] /\ WorkInv'
    BY <1>6, <2>1, ListCharactersServes, ServedTypes
  <2> QED BY <1>6, <2>2 DEF ListCharacters, rows, clients, world, TypeOK
<1>7. ASSUME NEW r \in Requests, ReadActor(r)
      PROVE  TypeOK' /\ WorkInv'
  <2>1. UNCHANGED kind
    BY <1>7 DEF ReadActor, rows
  <2>2. req' \in [Requests -> Request] /\ WorkInv'
    BY <1>7, <2>1, ReadActorServes, ServedTypes
  <2> QED BY <1>7, <2>2 DEF ReadActor, rows, clients, world, TypeOK
<1>8. ASSUME NEW r \in Requests, CreateJournal(r)
      PROVE  TypeOK' /\ WorkInv'
  <2>1. UNCHANGED kind
    BY <1>8 DEF CreateJournal, rows
  <2>2. req' \in [Requests -> Request] /\ WorkInv'
    BY <1>8, <2>1, CreateJournalServes, ServedTypes
  <2>3. Head(req[r].todo) \in Entities
    BY <1>8, HandTypes DEF CreateJournal, At, Exporting
  <2>4. journal' \in [Journals -> Entities \cup {None, Gone}]
    BY <1>8, <2>3 DEF CreateJournal, TypeOK
  <2>5. mishaps' \in Nat
    <3>1. UNCHANGED mishaps \/ Mishap
      <4>1. \/ UNCHANGED mishaps \/ Mishap
            \/ IF Connected(r) THEN Mishap ELSE UNCHANGED mishaps
        BY <1>8, Zenon DEF CreateJournal
      <4> QED BY <4>1
    <3> QED BY <3>1 DEF Mishap, TypeOK
  <2> QED BY <1>8, <2>2, <2>4, <2>5 DEF CreateJournal, rows, clients, world, TypeOK
<1>9. ASSUME NEW r \in Requests, LinkJournal(r)
      PROVE  TypeOK' /\ WorkInv'
  <2>1. UNCHANGED kind
    BY <1>9 DEF LinkJournal, rows
  <2>2. req' \in [Requests -> Request] /\ WorkInv'
    BY <1>9, <2>1, LinkJournalServes, ServedTypes
  <2>3. link' \in [Entities -> [LinkKinds -> ExternalIds]]
    BY <1>9, UpsertTypes DEF LinkJournal, TypeOK, Request
  <2> QED BY <1>9, <2>2, <2>3 DEF LinkJournal, rows, clients, world, TypeOK
<1>10. ASSUME NEW r \in Requests, CreateActor(r)
      PROVE  TypeOK' /\ WorkInv'
  <2>1. UNCHANGED kind
    BY <1>10 DEF CreateActor, rows
  <2>2. req' \in [Requests -> Request] /\ WorkInv'
    BY <1>10, <2>1, CreateActorServes, ServedTypes
  <2>3. Head(req[r].todo) \in Entities
    BY <1>10, HandTypes DEF CreateActor, At, Exporting
  <2>4. actor' \in [Actors -> Entities \cup {None, Gone, "foreign"}]
    BY <1>10, <2>3 DEF CreateActor, TypeOK
  <2> QED BY <1>10, <2>2, <2>4 DEF CreateActor, rows, clients, world, TypeOK
<1>11. ASSUME NEW r \in Requests, LinkActor(r)
      PROVE  TypeOK' /\ WorkInv'
  <2>1. UNCHANGED kind
    BY <1>11 DEF LinkActor, rows
  <2>2. req' \in [Requests -> Request] /\ WorkInv'
    BY <1>11, <2>1, LinkActorServes, ServedTypes
  <2>3. link' \in [Entities -> [LinkKinds -> ExternalIds]]
    BY <1>11, UpsertTypes DEF LinkActor, TypeOK, Request
  <2> QED BY <1>11, <2>2, <2>3 DEF LinkActor, rows, clients, world, TypeOK
<1>12. ASSUME NEW r \in Requests, LinkNpc(r)
      PROVE  TypeOK' /\ WorkInv'
  <2>1. UNCHANGED kind
    BY <1>12 DEF LinkNpc, rows
  <2>2. req' \in [Requests -> Request] /\ WorkInv'
    BY <1>12, <2>1, LinkNpcServes, ServedTypes
  <2>3. link' \in [Entities -> [LinkKinds -> ExternalIds]]
    BY <1>12, UpsertTypes DEF LinkNpc, TypeOK, Request
  <2> QED BY <1>12, <2>2, <2>3 DEF LinkNpc, rows, clients, world, TypeOK
<1>13. ASSUME NEW r \in Requests, CreateNpc(r)
      PROVE  TypeOK' /\ WorkInv'
  <2>1. UNCHANGED kind
    BY <1>13 DEF CreateNpc, rows
  <2>2. req' \in [Requests -> Request] /\ WorkInv'
    BY <1>13, <2>1, CreateNpcServes, ServedTypes
  <2>3. req[r].id \in Actors
    BY <1>13 DEF CreateNpc, At, HandInv, Holds
  <2>4. entity' \in [Entities -> Titles \cup {None, Gone}]
    BY <1>13 DEF CreateNpc, TypeOK
  <2>5. origin' \in [Entities -> Actors \cup {None}]
    BY <1>13, <2>3 DEF CreateNpc, TypeOK
  <2> QED BY <1>13, <2>2, <2>4, <2>5 DEF CreateNpc, rows, clients, world, TypeOK
<1>14. ASSUME RemoveDocument
      PROVE  TypeOK' /\ WorkInv'
  <2>1. req' \in [Requests -> Request] /\ WorkInv'
    BY <1>14, SameWork DEF RemoveDocument, rows
  <2>2. /\ journal' \in [Journals -> Entities \cup {None, Gone}]
        /\ actor' \in [Actors -> Entities \cup {None, Gone, "foreign"}]
    BY <1>14 DEF RemoveDocument, TypeOK
  <2> QED BY <1>14, <2>1, <2>2 DEF RemoveDocument, Mishap, rows, clients, world, TypeOK
<1> QED
  BY <1>1, <1>2, <1>3, <1>4, <1>5, <1>6, <1>7, <1>8, <1>9, <1>10, <1>11, <1>12, <1>13, <1>14 DEF FoundryNext

LEMMA VaultTypes ==
  ASSUME TypeOK, WorkInv, VaultNext, UNCHANGED world
  PROVE  TypeOK' /\ WorkInv'
<1>1. ASSUME NEW r \in Requests, NEW op \in Exports, kind = "obsidian", Open(r, op, "notes"), UNCHANGED <<vault, kept>>
      PROVE  TypeOK' /\ WorkInv'
  <2>1. Served(r) /\ UNCHANGED <<rows, clients, mishaps>>
    BY <1>1, OpenServes DEF Open
  <2>2. req' \in [Requests -> Request] /\ WorkInv'
    BY <2>1, ServedTypes DEF rows
  <2> QED BY <1>1, <2>1, <2>2 DEF rows, clients, world, TypeOK
<1>2. ASSUME NEW r \in Requests, kind = "obsidian", Open(r, "import", "scan"), UNCHANGED <<vault, kept>>
      PROVE  TypeOK' /\ WorkInv'
  <2>1. Served(r) /\ UNCHANGED <<rows, clients, mishaps>>
    BY <1>2, OpenServes DEF Open
  <2>2. req' \in [Requests -> Request] /\ WorkInv'
    BY <2>1, ServedTypes DEF rows
  <2> QED BY <1>2, <2>1, <2>2 DEF rows, clients, world, TypeOK
<1>3. ASSUME NEW r \in Requests, PlanNotes(r)
      PROVE  TypeOK' /\ WorkInv'
  <2>1. UNCHANGED kind
    BY <1>3 DEF PlanNotes, rows
  <2>2. req' \in [Requests -> Request] /\ WorkInv'
    BY <1>3, <2>1, PlanNotesServes, ServedTypes
  <2> QED BY <1>3, <2>2 DEF PlanNotes, rows, clients, world, TypeOK
<1>4. ASSUME NEW r \in Requests, ScanNotes(r)
      PROVE  TypeOK' /\ WorkInv'
  <2>1. UNCHANGED kind
    BY <1>4 DEF ScanNotes, rows
  <2>2. req' \in [Requests -> Request] /\ WorkInv'
    BY <1>4, <2>1, ScanNotesServes, ServedTypes
  <2> QED BY <1>4, <2>2 DEF ScanNotes, rows, clients, world, TypeOK
<1>5. ASSUME NEW r \in Requests, ListEntities(r)
      PROVE  TypeOK' /\ WorkInv'
  <2>1. UNCHANGED kind
    BY <1>5 DEF ListEntities, rows
  <2>2. req' \in [Requests -> Request] /\ WorkInv'
    BY <1>5, <2>1, ListEntitiesServes, ServedTypes
  <2> QED BY <1>5, <2>2 DEF ListEntities, rows, clients, world, TypeOK
<1>6. ASSUME NEW r \in Requests, WriteNote(r)
      PROVE  TypeOK' /\ WorkInv'
  <2>1. UNCHANGED kind
    BY <1>6 DEF WriteNote, rows
  <2>2. req' \in [Requests -> Request] /\ WorkInv'
    BY <1>6, <2>1, WriteNoteServes, ServedTypes
  <2>3. Head(req[r].todo) \in Entities /\ req[r].titles[Head(req[r].todo)] \in Titles
    BY <1>6, HandTypes, TargetTypes DEF WriteNote, At, Exporting
  <2>4. Note(Head(req[r].todo), req[r].titles[Head(req[r].todo)]) \in Notes
    BY <2>3 DEF Note, Notes
  <2>5. vault' \in [Paths -> Notes \cup {None}]
    BY <1>6, <2>4 DEF WriteNote, TypeOK
  <2>6. kept' \subseteq Entities
    <3>1. kept' \subseteq kept \cup {Head(req[r].todo)}
      BY <1>6 DEF WriteNote
    <3> QED BY <2>3, <3>1 DEF TypeOK
  <2> QED BY <1>6, <2>2, <2>5, <2>6 DEF WriteNote, rows, clients, world, TypeOK
<1>7. ASSUME NEW r \in Requests, WriteNoteFails(r)
      PROVE  TypeOK' /\ WorkInv'
  <2>1. UNCHANGED kind
    BY <1>7 DEF WriteNoteFails, rows
  <2>2. req' \in [Requests -> Request] /\ WorkInv'
    BY <1>7, <2>1, WriteNoteFailsServes, ServedTypes
  <2>3. vault' \in [Paths -> Notes \cup {None}] /\ kept' \subseteq Entities
    <3>1. CASE UNCHANGED <<vault, kept>>
      BY <3>1 DEF TypeOK
    <3>2. ASSUME NEW t \in Titles, vault' = [vault EXCEPT ![Target(r)] = Note(None, t)],
                 kept' = kept \ OfOthers({Target(r)}, None)
          PROVE  vault' \in [Paths -> Notes \cup {None}] /\ kept' \subseteq Entities
      <4>1. Note(None, t) \in Notes
        BY DEF Note, Notes
      <4> QED BY <3>2, <4>1 DEF TypeOK
    <3> QED BY <1>7, <3>1, <3>2 DEF WriteNoteFails
  <2> QED BY <1>7, <2>2, <2>3 DEF WriteNoteFails, Mishap, rows, clients, world, TypeOK
<1>8. ASSUME NEW r \in Requests, LinkNote(r)
      PROVE  TypeOK' /\ WorkInv'
  <2>1. UNCHANGED kind
    BY <1>8 DEF LinkNote, rows
  <2>2. req' \in [Requests -> Request] /\ WorkInv'
    BY <1>8, <2>1, LinkNoteServes, ServedTypes
  <2>3. link' \in [Entities -> [LinkKinds -> ExternalIds]]
    BY <1>8, UpsertTypes DEF LinkNote, TypeOK, Request
  <2> QED BY <1>8, <2>2, <2>3 DEF LinkNote, rows, clients, world, TypeOK
<1>9. ASSUME NEW r \in Requests, MatchNote(r)
      PROVE  TypeOK' /\ WorkInv'
  <2>1. UNCHANGED kind
    BY <1>9 DEF MatchNote, rows
  <2>2. req' \in [Requests -> Request] /\ WorkInv'
    BY <1>9, <2>1, MatchNoteServes, ServedTypes
  <2>3. Head(req[r].todo).title \in Titles
    BY <1>9, HandTypes DEF MatchNote, At, Matching, Scanned
  <2>4. entity' \in [Entities -> Titles \cup {None, Gone}]
    BY <1>9, <2>3 DEF MatchNote, TypeOK
  <2> QED BY <1>9, <2>2, <2>4 DEF MatchNote, rows, clients, world, TypeOK
<1>10. ASSUME NEW r \in Requests, UpdateEntity(r)
      PROVE  TypeOK' /\ WorkInv'
  <2>1. UNCHANGED kind
    BY <1>10 DEF UpdateEntity, rows
  <2>2. req' \in [Requests -> Request] /\ WorkInv'
    BY <1>10, <2>1, UpdateEntityServes, ServedTypes
  <2>3. Head(req[r].todo).title \in Titles
    BY <1>10, HandTypes DEF UpdateEntity, At, Matching, Scanned
  <2>4. entity' \in [Entities -> Titles \cup {None, Gone}]
    BY <1>10, <2>3 DEF UpdateEntity, TypeOK
  <2> QED BY <1>10, <2>2, <2>4 DEF UpdateEntity, rows, clients, world, TypeOK
<1>11. ASSUME NEW r \in Requests, LinkImported(r)
      PROVE  TypeOK' /\ WorkInv'
  <2>1. UNCHANGED kind
    BY <1>11 DEF LinkImported, rows
  <2>2. req' \in [Requests -> Request] /\ WorkInv'
    BY <1>11, <2>1, LinkImportedServes, ServedTypes
  <2>3. Head(req[r].todo).path \in ExternalIds
    BY <1>11, HandTypes DEF LinkImported, At, Matching, Scanned, ExternalIds
  <2>4. link' \in [Entities -> [LinkKinds -> ExternalIds]]
    BY <1>11, <2>3, UpsertTypes DEF LinkImported, TypeOK
  <2> QED BY <1>11, <2>2, <2>4 DEF LinkImported, rows, clients, world, TypeOK
<1>12. ASSUME UserWrites
      PROVE  TypeOK' /\ WorkInv'
  <2>1. req' \in [Requests -> Request] /\ WorkInv'
    BY <1>12, SameWork DEF UserWrites, rows
  <2>2. vault' \in [Paths -> Notes \cup {None}]
    <3>1. PICK t \in Titles : vault' = [vault EXCEPT ![<<FileOf[t], None>>] = Note(None, t)]
      BY <1>12 DEF UserWrites
    <3>2. Note(None, t) \in Notes
      BY DEF Note, Notes
    <3> QED BY <3>1, <3>2 DEF TypeOK
  <2> QED BY <1>12, <2>1, <2>2 DEF UserWrites, Mishap, rows, clients, world, TypeOK
<1>13. ASSUME UserMoves
      PROVE  TypeOK' /\ WorkInv'
  <2>1. req' \in [Requests -> Request] /\ WorkInv'
    BY <1>13, SameWork DEF UserMoves, rows
  <2>2. vault' \in [Paths -> Notes \cup {None}] /\ kept' \subseteq Entities
    BY <1>13 DEF UserMoves, TypeOK
  <2> QED BY <1>13, <2>1, <2>2 DEF UserMoves, Mishap, rows, clients, world, TypeOK
<1>14. ASSUME UserDeletes
      PROVE  TypeOK' /\ WorkInv'
  <2>1. req' \in [Requests -> Request] /\ WorkInv'
    BY <1>14, SameWork DEF UserDeletes, rows
  <2>2. vault' \in [Paths -> Notes \cup {None}] /\ kept' \subseteq Entities
    BY <1>14 DEF UserDeletes, TypeOK
  <2> QED BY <1>14, <2>1, <2>2 DEF UserDeletes, Mishap, rows, clients, world, TypeOK
<1>15. ASSUME NEW r \in Requests, RemoveStale(r)
      PROVE  TypeOK' /\ WorkInv'
  <2>1. UNCHANGED kind
    BY <1>15 DEF RemoveStale, rows
  <2>2. req' \in [Requests -> Request] /\ WorkInv'
    BY <1>15, <2>1, RemoveStaleServes, ServedTypes
  <2>3. vault' \in [Paths -> Notes \cup {None}] /\ kept' \subseteq Entities
    BY <1>15 DEF RemoveStale, TypeOK
  <2> QED BY <1>15, <2>2, <2>3 DEF RemoveStale, rows, clients, world, TypeOK
<1> QED
  BY <1>1, <1>2, <1>3, <1>4, <1>5, <1>6, <1>7, <1>8, <1>9, <1>10, <1>11, <1>12, <1>13, <1>14, <1>15
  DEF VaultNext

LEMMA TypeStep ==
  ASSUME TypeOK, WorkInv, HandInv, [SyncNext]_SyncVars
  PROVE  TypeOK' /\ WorkInv'
<1>1. CASE UNCHANGED SyncVars
  BY <1>1, SameWork DEF SyncVars, rows, clients, world, TypeOK
<1> QED BY <1>1, ConnectionsTypes, FoundryTypes, VaultTypes DEF SyncNext

-----------------------------------------------------------------------------
(* Clients are owned *)

(* What exports and imports do is the work of one request, or of nobody's,  *)
(* and leaves the clients be.                                              *)
LEMMA FoundryServes ==
  ASSUME TypeOK, WorkInv, HandInv, FoundryNext
  PROVE  UNCHANGED clients /\ (UNCHANGED req \/ \E r \in Requests : Served(r))
<1>1. ASSUME NEW r \in Requests, NEW op \in Exports, kind = "foundry", Open(r, op, "plan")
      PROVE  UNCHANGED clients /\ Served(r)
  BY <1>1, OpenServes DEF Open
<1>2. ASSUME NEW r \in Requests, kind = "foundry", Open(r, "import", "client")
      PROVE  UNCHANGED clients /\ Served(r)
  BY <1>2, OpenServes DEF Open
<1>3. ASSUME NEW r \in Requests,
             \/ PlanJournals(r) \/ JournalsReady(r) \/ UpdateJournal(r) \/ CreateJournal(r)
             \/ LinkJournal(r) \/ CreateActor(r) \/ LinkActor(r)
             \/ ListCharacters(r) \/ ReadActor(r) \/ CreateNpc(r) \/ LinkNpc(r)
      PROVE  UNCHANGED clients
  BY <1>3 DEF PlanJournals, JournalsReady, UpdateJournal, CreateJournal, LinkJournal,
              CreateActor, LinkActor, ListCharacters, ReadActor, CreateNpc, LinkNpc
<1>4. ASSUME NEW r \in Requests,
             \/ PlanJournals(r) \/ JournalsReady(r) \/ UpdateJournal(r) \/ CreateJournal(r)
             \/ LinkJournal(r) \/ CreateActor(r) \/ LinkActor(r)
             \/ ListCharacters(r) \/ ReadActor(r) \/ CreateNpc(r) \/ LinkNpc(r)
      PROVE  Served(r)
  BY <1>4, PlanJournalsServes, JournalsReadyServes, UpdateJournalServes, CreateJournalServes,
     LinkJournalServes, CreateActorServes, LinkActorServes, ListCharactersServes,
     ReadActorServes, CreateNpcServes, LinkNpcServes
<1>5. CASE RemoveDocument
  BY <1>5 DEF RemoveDocument
<1> QED BY <1>1, <1>2, <1>3, <1>4, <1>5 DEF FoundryNext

LEMMA VaultServes ==
  ASSUME TypeOK, WorkInv, VaultNext
  PROVE  UNCHANGED clients /\ (UNCHANGED req \/ \E r \in Requests : Served(r))
<1>1. ASSUME NEW r \in Requests, NEW op \in Exports, kind = "obsidian", Open(r, op, "notes")
      PROVE  UNCHANGED clients /\ Served(r)
  BY <1>1, OpenServes DEF Open
<1>2. ASSUME NEW r \in Requests, kind = "obsidian", Open(r, "import", "scan")
      PROVE  UNCHANGED clients /\ Served(r)
  BY <1>2, OpenServes DEF Open
<1>3. ASSUME NEW r \in Requests,
             \/ PlanNotes(r) \/ WriteNote(r) \/ RemoveStale(r) \/ WriteNoteFails(r) \/ LinkNote(r)
             \/ ScanNotes(r) \/ ListEntities(r) \/ MatchNote(r)
             \/ UpdateEntity(r) \/ LinkImported(r)
      PROVE  UNCHANGED clients
  BY <1>3 DEF PlanNotes, WriteNote, RemoveStale, WriteNoteFails, LinkNote, ScanNotes,
              ListEntities, MatchNote, UpdateEntity, LinkImported
<1>4. ASSUME NEW r \in Requests,
             \/ PlanNotes(r) \/ WriteNote(r) \/ RemoveStale(r) \/ WriteNoteFails(r) \/ LinkNote(r)
             \/ ScanNotes(r) \/ ListEntities(r) \/ MatchNote(r)
             \/ UpdateEntity(r) \/ LinkImported(r)
      PROVE  Served(r)
  BY <1>4, PlanNotesServes, WriteNoteServes, RemoveStaleServes, WriteNoteFailsServes,
     LinkNoteServes, ScanNotesServes, ListEntitiesServes, MatchNoteServes, UpdateEntityServes,
     LinkImportedServes
<1>5. CASE UserWrites \/ UserMoves \/ UserDeletes
  BY <1>5 DEF UserWrites, UserMoves, UserDeletes
<1> QED BY <1>1, <1>2, <1>3, <1>4, <1>5 DEF VaultNext

LEMMA PutsOne ==
  ASSUME TypeOK, NEW r \in Requests, NEW q, Put(r, q)
  PROVE  req'[r] = q /\ \A s \in Requests \ {r} : req'[s] = req[s]
  BY DEF TypeOK, Put

LEMMA SameOwn ==
  ASSUME OwnInv, UNCHANGED <<clients, req>>
  PROVE  OwnInv'
  BY DEF OwnInv, clients

LEMMA ServedOwn ==
  ASSUME TypeOK, OwnInv, UNCHANGED clients, NEW r \in Requests, Served(r)
  PROVE  OwnInv'
<1>1. PICK q : Put(r, q) /\ req[r].at \notin Own /\ q.at \notin Own
  BY DEF Served
<1>2. req'[r].at \notin Own /\ \A s \in Requests \ {r} : req'[s] = req[s]
  BY <1>1, PutsOne
<1> QED BY <1>1, <1>2 DEF OwnInv, Own, clients

(* The client being started is gone, and the lock free.                    *)
LEMMA GivenUp ==
  ASSUME TypeOK, OwnInv, NEW r \in Requests, req[r].at = "starting", Finish(r),
         proc' = [proc EXCEPT ![req[r].client] = Gone], lock' = None, cache' = cache
  PROVE  OwnInv'
<1> DEFINE c == req[r].client
<1>1. req'[r].at = "idle" /\ \A s \in Requests \ {r} : req'[s] = req[s]
  BY PutsOne, IdleTypes DEF Finish
<1>2. lock = r /\ c \in Clients /\ proc[c] = "starting" /\ cache = None
  BY AbsentAssumption DEF OwnInv
<1>3. /\ proc'[c] = Gone /\ \A k \in Clients \ {c} : proc'[k] = proc[k]
  BY <1>2 DEF TypeOK
<1>4. \A s \in Requests \ {r} : req[s].at # "starting"
  BY <1>2 DEF OwnInv
<1>5. \A k \in Clients \ {c} : proc[k] # "starting"
  BY <1>4 DEF OwnInv
<1> HIDE DEF c
<1>6. ASSUME NEW k \in Clients, proc'[k] = "up"
      PROVE  \E s \in Requests : req'[s].client = k /\ req'[s].at = "close"
  <2>1. k # c /\ proc[k] = "up"
    BY <1>3, <1>6, AbsentAssumption
  <2>2. PICK s \in Requests : req[s].client = k /\ req[s].at = "close"
    BY <1>2, <2>1, AbsentAssumption DEF OwnInv
  <2> QED BY <1>1, <2>2
<1>7. ASSUME NEW s \in Requests, req'[s].at = "close"
      PROVE  req'[s].client \in Clients /\ proc'[req'[s].client] \in {"up", Gone}
  BY <1>1, <1>3, <1>7 DEF OwnInv
<1> QED BY <1>1, <1>2, <1>3, <1>4, <1>5, <1>6, <1>7, AbsentAssumption DEF OwnInv

LEMMA ConnectionsOwn ==
  ASSUME TypeOK, WorkInv, OwnInv, ConnectionsNext
  PROVE  OwnInv'
<1>1. ASSUME NEW r \in Requests, UseClient(r)
      PROVE  OwnInv'
  <2>1. PICK q : /\ Put(r, q) /\ req[r].at = "client" /\ lock = None
                 /\ \/ q.at = "ready" /\ UNCHANGED <<lock, proc, cache>>
                    \/ /\ q.at = "starting" /\ q.client \in Clients /\ proc[q.client] = None
                       /\ cache = None /\ lock' = r /\ UNCHANGED cache
                       /\ proc' = [proc EXCEPT ![q.client] = "starting"]
    BY <1>1, UseClientPuts
  <2>2. req'[r] = q /\ \A s \in Requests \ {r} : req'[s] = req[s]
    BY <2>1, PutsOne
  <2>3. CASE q.at = "ready" /\ UNCHANGED <<lock, proc, cache>>
    BY <2>1, <2>2, <2>3 DEF OwnInv
  <2>4. CASE /\ q.at = "starting" /\ q.client \in Clients /\ proc[q.client] = None
             /\ cache = None /\ lock' = r /\ UNCHANGED cache
             /\ proc' = [proc EXCEPT ![q.client] = "starting"]
    <3>1. /\ proc'[q.client] = "starting"
          /\ \A k \in Clients \ {q.client} : proc'[k] = proc[k]
      BY <2>4 DEF TypeOK
    <3>2. \A s \in Requests : req[s].at # "starting"
      BY <2>1, AbsentAssumption DEF OwnInv
    <3>3. \A s \in Requests : req[s].at = "close" => req[s].client # q.client
      BY <2>4, AbsentAssumption DEF OwnInv
    <3> QED BY <2>1, <2>2, <2>4, <3>1, <3>2, <3>3 DEF OwnInv
  <2> QED BY <2>1, <2>3, <2>4
<1>2. ASSUME NEW r \in Requests, Started(r)
      PROVE  OwnInv'
  <2> DEFINE c == req[r].client
  <2>1. PICK q : Put(r, q) /\ q.at = "ready"
    BY <1>2, StartedPuts
  <2>2. req'[r] = q /\ \A s \in Requests \ {r} : req'[s] = req[s]
    BY <2>1, PutsOne
  <2>3. /\ req[r].at = "starting" /\ proc' = [proc EXCEPT ![c] = "up"]
        /\ cache' = c /\ lock' = None
    BY <1>2 DEF Started
  <2>4. lock = r /\ c \in Clients /\ cache = None
    BY <2>3, AbsentAssumption DEF OwnInv
  <2>5. proc'[c] = "up" /\ \A k \in Clients \ {c} : proc'[k] = proc[k]
    BY <2>3, <2>4 DEF TypeOK
  <2>6. \A s \in Requests \ {r} : req[s].at # "starting"
    BY <2>4 DEF OwnInv
  <2>7. \A k \in Clients \ {c} : proc[k] # "starting"
    BY <2>6 DEF OwnInv
  <2> HIDE DEF c
  <2>8. \A k \in Clients : proc'[k] = "up" =>
          cache' = k \/ \E s \in Requests : req'[s].client = k /\ req'[s].at = "close"
    <3> SUFFICES ASSUME NEW k \in Clients \ {c}, proc[k] = "up"
                 PROVE  \E s \in Requests : req'[s].client = k /\ req'[s].at = "close"
      BY <2>3, <2>5
    <3>1. PICK s \in Requests : req[s].client = k /\ req[s].at = "close"
      BY <2>4, AbsentAssumption DEF OwnInv
    <3> QED BY <2>2, <2>3, <3>1
  <2> QED BY <2>1, <2>2, <2>3, <2>4, <2>5, <2>6, <2>7, <2>8 DEF OwnInv
<1>3. ASSUME NEW r \in Requests, StartFails(r)
      PROVE  OwnInv'
  BY <1>3, GivenUp DEF StartFails
<1>4. ASSUME NEW r \in Requests, Invalidate(r)
      PROVE  OwnInv'
  <2>1. /\ req[r].at = "invalidate" /\ lock = None /\ cache' = None /\ UNCHANGED <<lock, proc>>
        /\ \E q : /\ Put(r, q)
                 /\ IF cache = None THEN q = Idle ELSE q.at = "close" /\ q.client = cache
    BY <1>4, InvalidatePuts
  <2>2. PICK q : /\ Put(r, q)
                 /\ IF cache = None THEN q = Idle ELSE q.at = "close" /\ q.client = cache
    BY <2>1
  <2>3. req'[r] = q /\ \A s \in Requests \ {r} : req'[s] = req[s]
    BY <2>2, PutsOne
  <2>4. \A k \in Clients : proc[k] = "up" =>
          \E s \in Requests : req'[s].client = k /\ req'[s].at = "close"
    <3> SUFFICES ASSUME NEW k \in Clients, proc[k] = "up"
                 PROVE  \E s \in Requests : req'[s].client = k /\ req'[s].at = "close"
      OBVIOUS
    <3>1. CASE cache = k
      BY <2>2, <2>3, <3>1, AbsentAssumption
    <3>2. CASE cache # k
      <4>1. PICK s \in Requests : req[s].client = k /\ req[s].at = "close"
        BY <3>2 DEF OwnInv
      <4> QED BY <2>1, <2>3, <4>1
    <3> QED BY <3>1, <3>2
  <2>5. cache # None => cache \in Clients /\ proc[cache] \in {"up", Gone}
    BY DEF TypeOK, OwnInv
  <2> QED BY <2>1, <2>2, <2>3, <2>4, <2>5, IdleTypes DEF OwnInv
<1>5. ASSUME NEW r \in Requests, Close(r)
      PROVE  OwnInv'
  <2> DEFINE c == req[r].client
  <2>1. req'[r].at = "idle" /\ \A s \in Requests \ {r} : req'[s] = req[s]
    BY <1>5, PutsOne, IdleTypes DEF Close, Finish
  <2>2. req[r].at = "close" /\ c \in Clients /\ proc[c] \in {"up", Gone} /\ UNCHANGED <<cache, lock>>
    BY <1>5 DEF Close, OwnInv
  <2>3. proc'[c] = Gone /\ \A k \in Clients \ {c} : proc'[k] = proc[k]
    BY <1>5, <2>2 DEF Close, TypeOK
  <2> HIDE DEF c
  <2>4. c # None /\ "starting" \notin {"up", Gone} /\ "up" # Gone
    BY <2>2, AbsentAssumption
  <2>5. \A k \in Clients : proc'[k] = "up" =>
          cache' = k \/ \E s \in Requests : req'[s].client = k /\ req'[s].at = "close"
    <3> SUFFICES ASSUME NEW k \in Clients \ {c}, proc[k] = "up", cache # k
                 PROVE  \E s \in Requests : req'[s].client = k /\ req'[s].at = "close"
      BY <2>2, <2>3, <2>4
    <3>1. PICK s \in Requests : req[s].client = k /\ req[s].at = "close"
      BY DEF OwnInv
    <3>2. s # r
      BY <3>1 DEF c
    <3> QED BY <2>1, <3>1, <3>2
  <2>6. \A k \in Clients : proc'[k] = "starting" =>
          \E s \in Requests : req'[s].client = k /\ req'[s].at = "starting"
    <3> SUFFICES ASSUME NEW k \in Clients \ {c}, proc[k] = "starting"
                 PROVE  \E s \in Requests : req'[s].client = k /\ req'[s].at = "starting"
      BY <2>3, <2>4
    <3>1. PICK s \in Requests : req[s].client = k /\ req[s].at = "starting"
      BY DEF OwnInv
    <3> QED BY <2>1, <2>2, <3>1
  <2>7. \A s \in Requests : req'[s].at = "starting" =>
          lock' = s /\ req'[s].client \in Clients /\ proc'[req'[s].client] = "starting"
    <3> SUFFICES ASSUME NEW s \in Requests \ {r}, req[s].at = "starting"
                 PROVE  lock = s /\ req[s].client \in Clients /\ proc'[req[s].client] = "starting"
      BY <2>1, <2>2
    <3>1. lock = s /\ req[s].client \in Clients /\ proc[req[s].client] = "starting"
      BY DEF OwnInv
    <3> QED BY <2>2, <2>3, <2>4, <3>1
  <2>8. \A s \in Requests : req'[s].at = "close" =>
          req'[s].client \in Clients /\ proc'[req'[s].client] \in {"up", Gone}
    BY <2>1, <2>3 DEF OwnInv
  <2>9. cache' # None => proc'[cache'] \in {"up", Gone}
    BY <2>2, <2>3 DEF OwnInv, TypeOK
  <2> QED BY <2>2, <2>5, <2>6, <2>7, <2>8, <2>9 DEF OwnInv
<1>6. ASSUME NEW r \in Requests, CallTool(r)
      PROVE  OwnInv'
  <2>1. Served(r)
    BY <1>6, FinishServes DEF CallTool, At, Own
  <2> QED BY <1>6, <2>1, ServedOwn DEF CallTool
<1>7. ASSUME NEW r \in Requests, Cancelled(r)
      PROVE  OwnInv'
  <2>1. CASE req[r].at = "starting"
    BY <1>7, <2>1, GivenUp DEF Cancelled
  <2>2. CASE req[r].at # "starting"
    <3>1. req[r].at \notin Own
      BY <1>7, <2>2 DEF Cancelled, WorkInv, Placed, Own, Exports, Dialing
    <3>2. Served(r) /\ UNCHANGED clients
      BY <1>7, <2>2, <3>1, FinishServes DEF Cancelled, clients
    <3> QED BY <3>2, ServedOwn
  <2> QED BY <2>1, <2>2
<1>8. ASSUME NEW r \in Requests,
             UpdateConnection(r) \/ DeleteConnection(r) \/ Open(r, "tool", "client")
      PROVE  OwnInv'
  <2>1. Served(r) /\ UNCHANGED clients
    BY <1>8, EditServes, OpenServes DEF UpdateConnection, DeleteConnection, Open
  <2> QED BY <2>1, ServedOwn
<1>9. ASSUME NEW e \in Entities, NEW t \in Titles, Rename(e, t)
      PROVE  OwnInv'
  BY <1>9, SameOwn DEF Rename
<1>10. ASSUME ServerDies
       PROVE  OwnInv'
  <2>1. PICK k \in Clients : proc[k] = "up" /\ proc' = [proc EXCEPT ![k] = Gone]
    BY <1>10 DEF ServerDies
  <2>2. proc'[k] = Gone /\ \A l \in Clients \ {k} : proc'[l] = proc[l]
    BY <2>1 DEF TypeOK
  <2>3. UNCHANGED <<cache, lock, req>>
    BY <1>10 DEF ServerDies
  <2>4. cache' # None => proc'[cache'] \in {"up", Gone}
    BY <2>2, <2>3 DEF OwnInv, TypeOK
  <2>5. \A r \in Requests : req'[r].at = "starting" =>
          lock' = r /\ req'[r].client \in Clients /\ proc'[req'[r].client] = "starting"
    BY <2>1, <2>2, <2>3 DEF OwnInv
  <2>6. \A r \in Requests : req'[r].at = "close" =>
          req'[r].client \in Clients /\ proc'[req'[r].client] \in {"up", Gone}
    BY <2>2, <2>3 DEF OwnInv
  <2>7. \A l \in Clients : proc'[l] \in {"starting", "up"} => proc[l] = proc'[l]
    BY <2>2, AbsentAssumption
  <2>8. (lock' # None => cache' = None)
    BY <2>3 DEF OwnInv
  <2>9. \A l \in Clients : proc'[l] = "starting" =>
          \E r \in Requests : req'[r].client = l /\ req'[r].at = "starting"
    BY <2>3, <2>7 DEF OwnInv
  <2>10. \A l \in Clients : proc'[l] = "up" =>
           cache' = l \/ \E r \in Requests : req'[r].client = l /\ req'[r].at = "close"
    BY <2>3, <2>7 DEF OwnInv
  <2> QED BY <2>4, <2>5, <2>6, <2>8, <2>9, <2>10 DEF OwnInv
<1>11. ASSUME Kill
       PROVE  OwnInv'
  <2>1. \A r \in Requests : req'[r].at = "idle"
    BY <1>11, IdleTypes DEF Kill
  <2>2. cache' = None /\ lock' = None /\ \A k \in Clients : proc'[k] \in {None, Gone}
    BY <1>11 DEF Kill
  <2> QED BY <2>1, <2>2, AbsentAssumption DEF OwnInv
<1>12. ASSUME NEW e \in Entities, DeleteEntity(e)
       PROVE  OwnInv'
  BY <1>12, SameOwn DEF DeleteEntity
<1> QED
  BY <1>1, <1>2, <1>3, <1>4, <1>5, <1>6, <1>7, <1>8, <1>9, <1>10, <1>11, <1>12
  DEF ConnectionsNext

LEMMA OwnStep ==
  ASSUME TypeOK, WorkInv, HandInv, OwnInv, [SyncNext]_SyncVars
  PROVE  OwnInv'
<1>1. CASE UNCHANGED SyncVars
  BY <1>1, SameOwn DEF SyncVars
<1>2. CASE FoundryNext \/ VaultNext
  <2>1. UNCHANGED clients /\ (UNCHANGED req \/ \E r \in Requests : Served(r))
    BY <1>2, FoundryServes, VaultServes
  <2> QED BY <2>1, ServedOwn, SameOwn
<1> QED BY <1>1, <1>2, ConnectionsOwn DEF SyncNext

-----------------------------------------------------------------------------
(* Documents *)

(* What a step may do to documents and rows: a document stays what it is, or *)
(* goes; an id that has been given to an entity is not given to another.   *)
Grown ==
  /\ \A j \in Journals : journal[j] # None => journal'[j] \in {journal[j], Gone}
  /\ \A a \in Actors : actor[a] # None => actor'[a] \in {actor[a], Gone}
  /\ \A e \in Entities : entity[e] # None => entity'[e] # None /\ origin'[e] = origin[e]

(* And to links: one that is new names a document that is the entity's.     *)
Made ==
  \A e \in Entities :
    /\ \/ link'[e].journal \in {link[e].journal, None, ByTitle}
       \/ link'[e].journal \in Journals /\ journal[link'[e].journal] \in {e, Gone}
    /\ \/ link'[e].actor \in {link[e].actor, None}
       \/ /\ link'[e].actor \in Actors /\ entity[e] # None
          /\ actor[link'[e].actor] \in {e, Gone} \/ origin[e] = link'[e].actor

LEMMA NamesMakes ==
  ASSUME TypeOK, NEW e \in Entities, NEW k \in LinkKinds, NEW id, Names(e, k, id)
  PROVE  /\ link'[e][k] = id
         /\ \A x \in LinkKinds \ {k} : link'[e][x] = link[e][x]
         /\ \A f \in Entities \ {e} : link'[f] = link[f]
  BY DEF TypeOK, Names

LEMMA SameMakes ==
  ASSUME UNCHANGED link
  PROVE  Made
  BY DEF Made

LEMMA NoteMakes ==
  ASSUME TypeOK, NEW e \in Entities, NEW id, Names(e, "md_file", id)
  PROVE  Made
<1>1. \A f \in Entities : link'[f].journal = link[f].journal /\ link'[f].actor = link[f].actor
  BY NamesMakes DEF LinkKinds
<1> QED BY <1>1 DEF Made

LEMMA ActorMakes ==
  ASSUME TypeOK, NEW e \in Entities, NEW id \in Actors, CanLink(e), Names(e, "actor", id),
         actor[id] \in {e, Gone} \/ origin[e] = id
  PROVE  Made
<1>1. /\ link'[e].actor = id /\ \A f \in Entities \ {e} : link'[f].actor = link[f].actor
      /\ \A f \in Entities : link'[f].journal = link[f].journal
  BY NamesMakes DEF LinkKinds
<1>2. entity[e] # None
  BY AbsentAssumption DEF CanLink, Here
<1> QED BY <1>1, <1>2 DEF Made

LEMMA ConnectionsGrow ==
  ASSUME TypeOK, ConnectionsNext, UNCHANGED world
  PROVE  Grown /\ Made
<1>1. \A e \in Entities : entity[e] # None => entity'[e] # None
  <2>1. ASSUME NEW r \in Requests,
               \/ UseClient(r) \/ Started(r) \/ StartFails(r)
               \/ UpdateConnection(r) \/ DeleteConnection(r) \/ Invalidate(r) \/ Close(r)
               \/ Open(r, "tool", "client") \/ CallTool(r) \/ Cancelled(r)
        PROVE  UNCHANGED entity
    BY <2>1 DEF UseClient, Started, StartFails, UpdateConnection, DeleteConnection,
                Invalidate, Close, Open, CallTool, Cancelled, rows
  <2>2. ASSUME NEW e \in Entities, DeleteEntity(e)
        PROVE  \A f \in Entities : entity[f] # None => entity'[f] # None
    BY <2>2, AbsentAssumption DEF DeleteEntity, TypeOK
  <2>3. ASSUME NEW e \in Entities, NEW t \in Titles, Rename(e, t)
        PROVE  \A f \in Entities : entity[f] # None => entity'[f] # None
    BY <2>3, AbsentAssumption DEF Rename, TypeOK
  <2>4. ASSUME ServerDies \/ Kill
        PROVE  UNCHANGED entity
    BY <2>4 DEF ServerDies, Kill, rows
  <2> QED BY <2>1, <2>2, <2>3, <2>4 DEF ConnectionsNext
<1>2. \A f \in Entities : link'[f] \in {link[f], NoLinks}
  <2>1. ASSUME NEW r \in Requests,
               \/ UseClient(r) \/ Started(r) \/ StartFails(r)
               \/ UpdateConnection(r) \/ Invalidate(r) \/ Close(r)
               \/ Open(r, "tool", "client") \/ CallTool(r) \/ Cancelled(r)
        PROVE  UNCHANGED link
    BY <2>1 DEF UseClient, Started, StartFails, UpdateConnection,
                Invalidate, Close, Open, CallTool, Cancelled, rows
  <2>2. ASSUME NEW r \in Requests, DeleteConnection(r)
        PROVE  \A f \in Entities : link'[f] = NoLinks
    <3>1. link' = [e \in Entities |-> NoLinks]
      BY <2>2 DEF DeleteConnection
    <3> QED BY <3>1
  <2>3. ASSUME NEW e \in Entities, DeleteEntity(e)
        PROVE  \A f \in Entities : link'[f] \in {link[f], NoLinks}
    BY <2>3 DEF DeleteEntity, TypeOK
  <2>4. ASSUME NEW e \in Entities, NEW t \in Titles, Rename(e, t)
        PROVE  UNCHANGED link
    BY <2>4 DEF Rename
  <2>5. ASSUME ServerDies \/ Kill
        PROVE  UNCHANGED link
    BY <2>5 DEF ServerDies, Kill, rows
  <2> QED BY <2>1, <2>2, <2>3, <2>4, <2>5 DEF ConnectionsNext
<1>3. NoLinks.journal = None /\ NoLinks.actor = None
  BY DEF NoLinks, LinkKinds
<1>4. Grown
  BY <1>1 DEF Grown, world
<1>5. Made
  BY <1>2, <1>3 DEF Made
<1> QED BY <1>4, <1>5

LEMMA SameGrown ==
  ASSUME UNCHANGED <<world, entity, link>>
  PROVE  Grown /\ Made
  BY DEF Grown, Made, world

LEMMA FoundryGrow ==
  ASSUME TypeOK, WorkInv, HandInv, FoundryNext
  PROVE  Grown /\ Made
<1>1. ASSUME NEW r \in Requests,
             \/ \E op \in Exports : Open(r, op, "plan") /\ UNCHANGED world
             \/ Open(r, "import", "client") /\ UNCHANGED world
             \/ PlanJournals(r) \/ JournalsReady(r) \/ UpdateJournal(r)
             \/ ListCharacters(r) \/ ReadActor(r)
      PROVE  Grown /\ Made
  <2>1. UNCHANGED <<world, entity, link>>
    BY <1>1 DEF Open, PlanJournals, JournalsReady, UpdateJournal, ListCharacters, ReadActor, rows
  <2> QED BY <2>1, SameGrown
<1>2. ASSUME NEW r \in Requests, CreateJournal(r)
      PROVE  Grown /\ Made
  <2>1. UNCHANGED <<entity, link, actor, origin>>
    BY <1>2 DEF CreateJournal, rows
  <2>2. \/ UNCHANGED journal
        \/ \E j \in NewDocument(r, Journals, journal) :
             journal' = [journal EXCEPT ![j] = Head(req[r].todo)]
    BY <1>2 DEF CreateJournal
  <2>3. \A j \in Journals : journal[j] # None => journal'[j] = journal[j]
    BY <2>2, NewDocumentTypes DEF TypeOK
  <2> QED BY <2>1, <2>3 DEF Grown, Made
<1>3. ASSUME NEW r \in Requests, LinkJournal(r)
      PROVE  Grown /\ Made
  <2> DEFINE e == Head(req[r].todo)
             id == req[r].id
  <2>1. UNCHANGED <<entity, world>>
    BY <1>3 DEF LinkJournal
  <2>2. UNCHANGED link \/ Names(e, "journal", id)
    BY <1>3, UpsertNames DEF LinkJournal
  <2>3. e \in Entities
    BY <1>3, HandTypes DEF LinkJournal, At, Exporting
  <2>4. id = ByTitle \/ (id \in Journals /\ journal[id] \in {e, Gone})
    BY <1>3 DEF LinkJournal, At, HandInv, Holds
  <2> HIDE DEF e, id
  <2>5. Grown
    BY <2>1 DEF Grown, world
  <2>6. CASE Names(e, "journal", id)
    <3>1. /\ link'[e].journal = id /\ \A f \in Entities \ {e} : link'[f].journal = link[f].journal
          /\ \A f \in Entities : link'[f].actor = link[f].actor
      BY <2>3, <2>6, NamesMakes DEF LinkKinds
    <3> QED BY <2>4, <2>5, <3>1 DEF Made
  <2> QED BY <2>2, <2>5, <2>6, SameMakes
<1>4. ASSUME NEW r \in Requests, CreateActor(r)
      PROVE  Grown /\ Made
  <2>1. UNCHANGED <<entity, link, journal, origin>>
    BY <1>4 DEF CreateActor, rows
  <2>2. \/ UNCHANGED actor
        \/ \E a \in NewDocument(r, Actors, actor) :
             actor' = [actor EXCEPT ![a] = Head(req[r].todo)]
    BY <1>4 DEF CreateActor
  <2>3. \A a \in Actors : actor[a] # None => actor'[a] = actor[a]
    BY <2>2, NewDocumentTypes DEF TypeOK
  <2> QED BY <2>1, <2>3 DEF Grown, Made
<1>5. ASSUME NEW r \in Requests, LinkActor(r)
      PROVE  Grown /\ Made
  <2>1. Head(req[r].todo) \in Entities
    BY <1>5, HandTypes DEF LinkActor, At, Exporting
  <2>2. req[r].id \in Actors /\ actor[req[r].id] \in {Head(req[r].todo), Gone}
    BY <1>5 DEF LinkActor, At, HandInv, Holds
  <2>3. /\ UNCHANGED <<entity, world>>
        /\ \/ UNCHANGED link
           \/ CanLink(Head(req[r].todo)) /\ Names(Head(req[r].todo), "actor", req[r].id)
    BY <1>5, UpsertNames DEF LinkActor
  <2>4. Grown
    BY <2>3 DEF Grown, world
  <2> QED BY <2>1, <2>2, <2>3, <2>4, SameMakes, ActorMakes
<1>6. ASSUME NEW r \in Requests, LinkNpc(r)
      PROVE  Grown /\ Made
  <2>1. req[r].id \in Actors /\ req[r].npc \in Entities /\ origin[req[r].npc] = req[r].id
    BY <1>6 DEF LinkNpc, At, HandInv, Holds
  <2>2. /\ UNCHANGED <<entity, world>>
        /\ UNCHANGED link \/ (CanLink(req[r].npc) /\ Names(req[r].npc, "actor", req[r].id))
    BY <1>6, UpsertNames DEF LinkNpc
  <2>3. Grown
    BY <2>2 DEF Grown, world
  <2> QED BY <2>1, <2>2, <2>3, SameMakes, ActorMakes
<1>7. ASSUME NEW r \in Requests, CreateNpc(r)
      PROVE  Grown /\ Made
  <2>1. UNCHANGED <<link, journal, actor>>
    BY <1>7 DEF CreateNpc
  <2>2. PICK e \in {AnUnused(Npcs, entity)}, t \in Titles :
          /\ entity' = [entity EXCEPT ![e] = t]
          /\ origin' = [origin EXCEPT ![e] = req[r].id]
    BY <1>7 DEF CreateNpc
  <2>3. entity[e] = None
    BY <1>7, <2>2 DEF CreateNpc, AnUnused, Unused
  <2>4. \A f \in Entities : entity[f] # None => entity'[f] # None /\ origin'[f] = origin[f]
    BY <2>2, <2>3 DEF TypeOK
  <2> QED BY <2>1, <2>4 DEF Grown, Made
<1>8. CASE RemoveDocument
  <2>1. UNCHANGED <<entity, link, origin>>
    BY <1>8 DEF RemoveDocument, rows
  <2>2. /\ \A j \in Journals : journal'[j] \in {journal[j], Gone}
        /\ \A a \in Actors : actor'[a] \in {actor[a], Gone}
    BY <1>8 DEF RemoveDocument, Characters, TypeOK
  <2> QED BY <2>1, <2>2 DEF Grown, Made
<1> QED
  BY <1>1, <1>2, <1>3, <1>4, <1>5, <1>6, <1>7, <1>8 DEF FoundryNext

LEMMA VaultGrow ==
  ASSUME TypeOK, WorkInv, VaultNext, UNCHANGED world
  PROVE  Grown /\ Made
<1>1. ASSUME NEW r \in Requests,
             \/ \E op \in Exports : Open(r, op, "notes")
             \/ Open(r, "import", "scan")
             \/ PlanNotes(r) \/ WriteNote(r) \/ RemoveStale(r) \/ WriteNoteFails(r)
             \/ ScanNotes(r) \/ ListEntities(r)
      PROVE  Grown /\ Made
  <2>1. UNCHANGED <<entity, link>>
    BY <1>1 DEF Open, PlanNotes, WriteNote, RemoveStale, WriteNoteFails, ScanNotes, ListEntities, rows
  <2> QED BY <2>1, SameGrown
<1>2. CASE UserWrites \/ UserMoves \/ UserDeletes
  <2>1. UNCHANGED <<entity, link>>
    BY <1>2 DEF UserWrites, UserMoves, UserDeletes, rows
  <2> QED BY <2>1, SameGrown
<1>3. ASSUME NEW r \in Requests, LinkNote(r)
      PROVE  Grown /\ Made
  <2>1. Grown
    BY <1>3 DEF LinkNote, Grown, world
  <2>2. Head(req[r].todo) \in Entities
    BY <1>3, HandTypes DEF LinkNote, At, Exporting
  <2>3. UNCHANGED link \/ Names(Head(req[r].todo), "md_file", req[r].id)
    BY <1>3, UpsertNames DEF LinkNote
  <2> QED BY <2>1, <2>2, <2>3, SameMakes, NoteMakes
<1>4. ASSUME NEW r \in Requests, LinkImported(r)
      PROVE  Grown /\ Made
  <2>1. Grown
    BY <1>4 DEF LinkImported, Grown, world
  <2>2. \/ UNCHANGED link
        \/ /\ Here(Head(req[r].todo).id)
           /\ Names(Head(req[r].todo).id, "md_file", Head(req[r].todo).path)
    BY <1>4, UpsertNames DEF LinkImported, CanLink
  <2> DEFINE e == Head(req[r].todo).id
  <2>3. CASE e \in Entities
    BY <2>1, <2>2, <2>3, SameMakes, NoteMakes
  <2>4. CASE e \notin Entities
    <3>1. UNCHANGED link \/ Names(e, "md_file", Head(req[r].todo).path)
      BY <2>2
    <3>2. UNCHANGED link
      BY <2>4, <3>1 DEF Names, TypeOK
    <3> QED BY <2>1, <3>2, SameMakes
  <2> QED BY <2>3, <2>4
<1>5. ASSUME NEW r \in Requests, MatchNote(r) \/ UpdateEntity(r)
      PROVE  Grown /\ Made
  <2>1. Head(req[r].todo).title \in Titles
    BY <1>5, HandTypes DEF MatchNote, UpdateEntity, At, Matching, Scanned
  <2>2. \/ UNCHANGED entity
        \/ \E e : entity' = [entity EXCEPT ![e] = Head(req[r].todo).title]
    BY <1>5 DEF MatchNote, UpdateEntity
  <2>3. \A f \in Entities : entity[f] # None => entity'[f] # None
    BY <2>1, <2>2, AbsentAssumption DEF TypeOK
  <2>4. UNCHANGED link
    BY <1>5 DEF MatchNote, UpdateEntity
  <2>5. Grown
    BY <2>3 DEF Grown, world
  <2> QED BY <2>4, <2>5, SameMakes
<1> QED BY <1>1, <1>2, <1>3, <1>4, <1>5 DEF VaultNext

LEMMA StepGrows ==
  ASSUME TypeOK, WorkInv, HandInv, [SyncNext]_SyncVars
  PROVE  Grown /\ Made
<1>1. CASE UNCHANGED SyncVars
  BY <1>1, SameGrown DEF SyncVars, rows
<1> QED BY <1>1, ConnectionsGrow, FoundryGrow, VaultGrow DEF SyncNext

(* What a request that does nothing has in hand stays what it is.          *)
LEMMA StillHolds ==
  ASSUME TypeOK, WorkInv, HandInv, Grown, NEW r \in Requests, NEW q, q = req[r]
  PROVE  Holds(q)'
<1>1. Holds(q) /\ Fit(q)
  BY HandTypes DEF HandInv
<1>2. q.at \in {"link", "npclink"} => Head(q.todo) \in Entities
  <2> SUFFICES ASSUME q.at \in {"link", "npclink"}
               PROVE  Head(q.todo) \in Entities
    OBVIOUS
  <2>1. q.op \in Exports /\ q.at \in Exporting
    BY <1>1 DEF Fit, Placed, Request, Exports, Dialing, Drafting, Matching, Exporting
  <2> QED BY <2>1, HandTypes
<1>3. CASE q.at = "link"
  <2>1. q.id \in Journals \cup {ByTitle}
    BY <1>1, <1>3 DEF Holds
  <2>2. ASSUME q.id \in Journals
        PROVE  journal'[q.id] \in {Head(q.todo), Gone}
    <3>1. journal[q.id] \in {Head(q.todo), Gone} /\ journal[q.id] # None
      BY <1>1, <1>2, <1>3, <2>2, AbsentAssumption DEF Holds
    <3> QED BY <2>2, <3>1 DEF Grown
  <2> QED BY <1>3, <2>1, <2>2 DEF Holds
<1>4. CASE q.at = "npclink"
  <2>1. q.id \in Actors /\ actor[q.id] \in {Head(q.todo), Gone} /\ actor[q.id] # None
    BY <1>1, <1>2, <1>4, AbsentAssumption DEF Holds
  <2>2. actor'[q.id] \in {Head(q.todo), Gone}
    BY <2>1 DEF Grown
  <2> QED BY <1>4, <2>1, <2>2 DEF Holds
<1>5. CASE q.at \notin {"link", "npclink"}
  BY <1>1, <1>5 DEF Holds, Grown
<1> QED BY <1>3, <1>4, <1>5

(* Whoever works with clients has nothing in hand.                         *)
Handless == {"idle", "invalidate", "close", "ready", "starting", "client"}

LEMMA ConnectionsPut ==
  ASSUME TypeOK, WorkInv, ConnectionsNext
  PROVE  \/ UNCHANGED req
         \/ \E r \in Requests : \E q : Put(r, q) /\ q.at \in Handless
         \/ \A r \in Requests : req'[r] = Idle
<1>1. ASSUME NEW r \in Requests, Finish(r)
      PROVE  \E q : Put(r, q) /\ q.at \in Handless
  BY <1>1, IdleTypes DEF Finish, Handless
<1>2. ASSUME NEW r \in Requests,
             UseClient(r) \/ Started(r) \/ Invalidate(r)
      PROVE  \E q : Put(r, q) /\ q.at \in Handless
  <2>1. CASE UseClient(r)
    BY <2>1, UseClientPuts DEF Handless
  <2>2. CASE Started(r)
    BY <2>2, StartedPuts DEF Handless
  <2>3. CASE Invalidate(r)
    <3>1. PICK q : Put(r, q) /\ (IF cache = None THEN q = Idle
                                ELSE q.at = "close" /\ q.client = cache)
      BY <2>3, InvalidatePuts
    <3>2. q.at \in Handless
      BY <3>1, IdleTypes DEF Handless
    <3> QED BY <3>1, <3>2
  <2> QED BY <1>2, <2>1, <2>2, <2>3
<1>3. ASSUME NEW r \in Requests, UpdateConnection(r) \/ DeleteConnection(r)
      PROVE  \E q : Put(r, q) /\ q.at \in Handless
  <2>1. Put(r, [Idle EXCEPT !.op = "edit", !.at = "invalidate"])
    BY <1>3 DEF UpdateConnection, DeleteConnection, Begin
  <2>2. [Idle EXCEPT !.op = "edit", !.at = "invalidate"].at = "invalidate"
    BY DEF Idle
  <2> QED BY <2>1, <2>2 DEF Handless
<1>4. ASSUME NEW r \in Requests, Open(r, "tool", "client")
      PROVE  \E q : Put(r, q) /\ q.at \in Handless
  <2>1. Put(r, [Idle EXCEPT !.op = "tool", !.at = "client"])
    BY <1>4 DEF Open, Begin
  <2>2. [Idle EXCEPT !.op = "tool", !.at = "client"].at = "client"
    BY DEF Idle
  <2> QED BY <2>1, <2>2 DEF Handless
<1>5. ASSUME NEW r \in Requests, StartFails(r) \/ Close(r) \/ CallTool(r) \/ Cancelled(r)
      PROVE  Finish(r)
  BY <1>5 DEF StartFails, Close, CallTool, Cancelled
<1>6. ASSUME NEW e \in Entities, DeleteEntity(e) \/ \E t \in Titles : Rename(e, t)
      PROVE  UNCHANGED req
  BY <1>6 DEF DeleteEntity, Rename
<1>7. ASSUME ServerDies
      PROVE  UNCHANGED req
  BY <1>7 DEF ServerDies
<1>8. ASSUME Kill
      PROVE  \A r \in Requests : req'[r] = Idle
  BY <1>8 DEF Kill
<1> QED BY <1>1, <1>2, <1>3, <1>4, <1>5, <1>6, <1>7, <1>8 DEF ConnectionsNext

LEMMA HoldsStep ==
  ASSUME TypeOK, WorkInv, HandInv, [SyncNext]_SyncVars
  PROVE  \A r \in Requests : Holds(req[r])'
<1> USE StepGrows
<1>1. ASSUME NEW s \in Requests, req'[s] = req[s]
      PROVE  Holds(req[s])'
  <2>1. PICK q : q = req[s]
    OBVIOUS
  <2>2. Holds(q)'
    BY <2>1, StillHolds
  <2>3. req'[s] = q
    BY <1>1, <2>1
  <2> QED BY <2>2, <2>3
<1>2. ASSUME NEW r \in Requests, NEW q, Put(r, q), Holds(q)'
      PROVE  \A s \in Requests : Holds(req[s])'
  <2>1. req'[r] = q /\ \A s \in Requests \ {r} : req'[s] = req[s]
    BY <1>2, PutsOne
  <2>2. ASSUME NEW s \in Requests
        PROVE  Holds(req[s])'
    <3>1. CASE s = r
      BY <1>2, <2>1, <3>1
    <3>2. CASE s # r
      BY <1>1, <2>1, <3>2
    <3> QED BY <3>1, <3>2
  <2> QED BY <2>2
<1>3. ASSUME NEW q, q.at \in Handless
      PROVE  Holds(q)'
  BY <1>3 DEF Holds, Handless
<1>4. CASE UNCHANGED req
  BY <1>1, <1>4
<1>5. CASE FoundryNext \/ VaultNext
  <2>1. UNCHANGED req \/ \E r \in Requests : Served(r)
    BY <1>5, FoundryServes, VaultServes
  <2>2. ASSUME NEW r \in Requests, Served(r)
        PROVE  \E q : Put(r, q) /\ Holds(q)'
    BY <2>2 DEF Served
  <2> QED BY <1>2, <1>4, <2>1, <2>2
<1>6. CASE ConnectionsNext
  <2>1. CASE \A r \in Requests : req'[r] = Idle
    <3>1. Holds(Idle)'
      BY <1>3, IdleTypes DEF Handless
    <3> QED BY <2>1, <3>1
  <2> QED BY <1>2, <1>3, <1>4, <1>6, <2>1, ConnectionsPut
<1> QED BY <1>4, <1>5, <1>6 DEF SyncNext, SyncVars

LEMMA HandStep ==
  ASSUME TypeOK, WorkInv, HandInv, [SyncNext]_SyncVars
  PROVE  HandInv'
<1>1. \A r \in Requests : Holds(req[r])'
  BY HoldsStep
<1>2. ASSUME NEW e \in Entities, entity'[e] = None
      PROVE  link'[e].actor = None
  <2>1. Grown /\ Made
    BY StepGrows
  <2>2. entity[e] = None
    BY <1>2, <2>1 DEF Grown
  <2>3. link[e].actor = None
    BY <2>2 DEF HandInv
  <2> QED BY <2>1, <2>2, <2>3 DEF Made
<1> QED BY <1>1, <1>2 DEF HandInv

LEMMA DocumentStep ==
  ASSUME TypeOK, WorkInv, HandInv, DocumentsAreReal, [SyncNext]_SyncVars
  PROVE  DocumentsAreReal'
<1>1. Grown /\ Made
  BY StepGrows
<1>2. ASSUME NEW e \in Entities
      PROVE  /\ link'[e].journal \in Journals \cup {None, ByTitle}
             /\ link'[e].journal \in Journals => journal'[link'[e].journal] \in {e, Gone}
  <2>1. /\ link[e].journal \in Journals \cup {None, ByTitle}
        /\ link[e].journal \in Journals => journal[link[e].journal] \in {e, Gone}
    BY DEF DocumentsAreReal
  <2>2. link'[e].journal \in Journals \cup {None, ByTitle}
    BY <1>1, <2>1 DEF Made
  <2>3. ASSUME link'[e].journal \in Journals
        PROVE  journal'[link'[e].journal] \in {e, Gone}
    <3>1. journal[link'[e].journal] \in {e, Gone}
      BY <1>1, <2>1, <2>3, DocumentAssumption DEF Made
    <3>2. journal[link'[e].journal] # None
      BY <3>1, AbsentAssumption
    <3> QED BY <1>1, <2>3, <3>1, <3>2 DEF Grown
  <2> QED BY <2>2, <2>3
<1>3. ASSUME NEW e \in Entities, link'[e].actor \in Actors
      PROVE  actor'[link'[e].actor] \in {e, Gone} \/ origin'[e] = link'[e].actor
  <2>1. entity[e] # None /\ (actor[link'[e].actor] \in {e, Gone} \/ origin[e] = link'[e].actor)
    BY <1>1, <1>3, DocumentAssumption DEF Made, DocumentsAreReal, HandInv
  <2>2. CASE actor[link'[e].actor] \in {e, Gone}
    <3>1. actor[link'[e].actor] # None
      BY <2>2, AbsentAssumption
    <3> QED BY <1>1, <1>3, <2>2, <3>1 DEF Grown
  <2>3. CASE origin[e] = link'[e].actor
    BY <1>1, <2>1, <2>3 DEF Grown
  <2> QED BY <2>1, <2>2, <2>3
<1> QED BY <1>2, <1>3 DEF DocumentsAreReal

-----------------------------------------------------------------------------
(* Notes *)

(* Whoever is to remove the stale file of a note that is kept is the only one *)
(* who moves that note, and has written it elsewhere.                      *)
Safe(e) ==
  \A q \in Moving(e) :
    /\ Moving(e) = {q}
    /\ Target(q) \in Paths /\ Target(q) # Stale(q)
    /\ vault[Target(q)] # None /\ vault[Target(q)].of = e
MoveInv == \A e \in kept : Safe(e)

(* Who is not among the others of these files has its note elsewhere.       *)
LEMMA OthersTypes ==
  ASSUME NEW ps \in SUBSET Paths, NEW e, NEW f \in Entities, f # e, f \notin OfOthers(ps, e),
         NEW p \in Paths, vault[p] # None, vault[p].of = f
  PROVE  p \notin ps
  BY AbsentAssumption DEF OfOthers

LEMMA NoteTypes ==
  ASSUME NEW e \in Entities \cup {None}, NEW t \in Titles
  PROVE  Note(e, t) # None /\ Note(e, t).of = e
<1>1. Note(e, t) \in Notes
  BY DEF Note, Notes
<1> QED BY <1>1, NoteAssumption DEF Note

(* Who has a stale file to remove has had it before, but for who writes.    *)
LEMMA StillMoves ==
  ASSUME TypeOK, WorkInv, HandInv, [SyncNext]_SyncVars, NEW s \in Requests,
         req'[s].at = "stale"
  PROVE  req'[s] = req[s] \/ WriteNote(s)
<1>1. CASE UNCHANGED req
  BY <1>1
<1>2. CASE FoundryNext \/ VaultNext
  <2>1. PICK r \in Requests : UNCHANGED req \/ Served(r)
    BY <1>2, FoundryServes, VaultServes
  <2>2. ASSUME Served(r)
        PROVE  req'[s] = req[s] \/ WriteNote(s)
    <3>1. PICK q : Put(r, q) /\ Leaves(r, q)
      BY <2>2 DEF Served
    <3>2. req'[r] = q /\ \A x \in Requests \ {r} : req'[x] = req[x]
      BY <3>1, PutsOne
    <3> QED BY <3>1, <3>2 DEF Leaves
  <2> QED BY <1>1, <2>1, <2>2
<1>3. CASE ConnectionsNext
  <2>1. CASE \A r \in Requests : req'[r] = Idle
    BY <2>1, IdleTypes
  <2>2. ASSUME NEW r \in Requests, NEW q, Put(r, q), q.at \in Handless
        PROVE  req'[s] = req[s]
    <3>1. req'[r] = q /\ \A x \in Requests \ {r} : req'[x] = req[x]
      BY <2>2, PutsOne
    <3> QED BY <2>2, <3>1 DEF Handless
  <2> QED BY <1>1, <1>3, <2>1, <2>2, ConnectionsPut
<1> QED BY <1>1, <1>2, <1>3 DEF SyncNext, SyncVars

(* A step in which nobody begins to move a note leaves those that are kept   *)
(* safe, if it leaves alone the files that have been written.              *)
LEMMA SafeStep ==
  ASSUME MoveInv, NEW e \in kept,
         \A q \in Requests : req'[q].at = "stale" => req'[q] = req[q],
         \A q \in Moving(e) : /\ Moving(e)' # {} /\ Target(q) \in Paths /\ vault[Target(q)] # None
                              /\ vault[Target(q)].of = e /\ q \in Moving(e)'
                              => vault'[Target(q)] # None /\ vault'[Target(q)].of = e
  PROVE  Safe(e)'
<1>1. Safe(e)
  BY DEF MoveInv
<1>2. ASSUME NEW q \in Moving(e)'
      PROVE  req'[q] = req[q] /\ q \in Moving(e) /\ q \in Requests
  BY <1>2 DEF Moving, At
<1>3. SUFFICES ASSUME NEW q \in Moving(e)'
               PROVE  /\ Moving(e)' = {q}
                      /\ Target(q)' \in Paths /\ Target(q)' # Stale(q)'
                      /\ vault'[Target(q)'] # None /\ vault'[Target(q)'].of = e
  BY DEF Safe, Paths
<1>4. /\ Moving(e) = {q} /\ Target(q) \in Paths /\ Target(q) # Stale(q)
      /\ vault[Target(q)] # None /\ vault[Target(q)].of = e
  BY <1>1, <1>2, <1>3 DEF Safe
<1>5. Moving(e)' = {q}
  BY <1>2, <1>3, <1>4
<1>6. Target(q)' = Target(q) /\ Stale(q)' = Stale(q)
  BY <1>2, <1>3 DEF Target, Stale, PathOf
<1> QED BY <1>2, <1>3, <1>4, <1>5, <1>6

NoteInv == NotesSurvive /\ MoveInv

LEMMA WriteNoteKeeps ==
  ASSUME TypeOK, WorkInv, NoteInv, NEW r \in Requests, WriteNote(r)
  PROVE  NoteInv'
<1>a. PICK e : e = Head(req[r].todo)
  OBVIOUS
<1> DEFINE T == Target(r)
           n == Note(e, req[r].titles[e])
<1>1. e \in Entities /\ T \in Paths /\ n # None /\ n.of = e
  BY <1>a, HandTypes, TargetTypes, NoteTypes DEF WriteNote, At, Exporting
<1>2. /\ vault' = [vault EXCEPT ![T] = n]
      /\ kept' \subseteq (kept \ OfOthers({T}, e)) \cup {e}
      /\ Crossing(r) => kept' \subseteq kept /\ (Moves(r) => e \notin kept')
  BY <1>a DEF WriteNote
<1>3. PICK x : /\ Put(r, x) /\ (x.at = "stale" => Moves(r))
               /\ x.todo = req[r].todo /\ x.titles = req[r].titles /\ x.links = req[r].links
  <2>1. req[r] \in Request
    BY DEF TypeOK
  <2>2. Written(r).at = "mdlink" /\ Written(r).todo = req[r].todo
        /\ Written(r).titles = req[r].titles /\ Written(r).links = req[r].links
    BY <2>1 DEF Written, Request
  <2>3. CASE Put(r, Written(r))
    BY <2>2, <2>3
  <2>4. CASE Moves(r) /\ Goto(r, "stale")
    <3> DEFINE y == [req[r] EXCEPT !.at = "stale"]
    <3>1. y.todo = req[r].todo /\ y.titles = req[r].titles /\ y.links = req[r].links
      BY <2>1 DEF Request
    <3>2. Put(r, y)
      BY <2>4 DEF Goto
    <3> HIDE DEF y
    <3> QED BY <2>4, <3>1, <3>2
  <2> QED BY <2>3, <2>4 DEF WriteNote
<1>4. req'[r] = x /\ \A s \in Requests \ {r} : req'[s] = req[s]
  BY <1>3, PutsOne
<1>5. Target(r)' = T /\ Stale(r)' = Stale(r) /\ Head(req'[r].todo) = e
  BY <1>a, <1>3, <1>4 DEF Target, Stale, PathOf
<1>6. ASSUME NEW s \in Requests \ {r}
      PROVE  Target(s)' = Target(s) /\ Stale(s)' = Stale(s)
  BY <1>4, <1>6 DEF Target, Stale, PathOf
<1>7. r \notin Moving(e) /\ Moving(e)' \subseteq Moving(e) \cup {r}
      /\ (~ Moves(r) => Moving(e)' \subseteq Moving(e))
      /\ (~ Crossing(r) => Moving(e) = {})
  BY <1>a, <1>3, <1>4 DEF Moving, At, WriteNote, Crossing
<1>8. ASSUME NEW f, f # e
      PROVE  Moving(f)' \subseteq Moving(f) \ {r}
  BY <1>a, <1>3, <1>4, <1>8 DEF Moving, At
<1>9. Moves(r) => T # Stale(r)
  BY DEF Moves
<1> HIDE DEF T, n
<1>10. vault'[T] = n /\ \A p \in Paths \ {T} : vault'[p] = vault[p]
  BY <1>1, <1>2 DEF TypeOK
<1>11. ASSUME NEW f \in kept', f # e
       PROVE  /\ f \in kept
              /\ \A p \in Paths : vault[p] # None /\ vault[p].of = f => vault'[p] = vault[p]
  <2>1. f \in kept /\ f \in Entities /\ f \notin OfOthers({T}, e)
    BY <1>2, <1>11 DEF TypeOK
  <2>2. ASSUME NEW p \in Paths, vault[p] # None, vault[p].of = f
        PROVE  p # T
    BY <1>1, <1>11, <2>1, <2>2, OthersTypes
  <2> QED BY <1>10, <2>1, <2>2
<1>12. NotesSurvive'
  <2>1. ASSUME NEW f \in kept', f # e
        PROVE  \E p \in Paths : vault'[p] # None /\ vault'[p].of = f
    BY <1>11, <2>1 DEF NoteInv, NotesSurvive
  <2> QED BY <1>1, <1>10, <2>1 DEF NotesSurvive
<1>13. ASSUME NEW f \in kept', f # e
       PROVE  Safe(f)'
  <2>1. Safe(f) /\ Moving(f)' \subseteq Moving(f) \ {r}
    BY <1>8, <1>11, <1>13 DEF NoteInv, MoveInv
  <2>2. \A q \in Moving(f)' : q \in Requests \ {r}
    BY <2>1 DEF Moving
  <2>3. ASSUME NEW q \in Moving(f)'
        PROVE  /\ Moving(f)' = {q}
               /\ Target(q)' \in Paths /\ Target(q)' # Stale(q)'
               /\ vault'[Target(q)'] # None /\ vault'[Target(q)'].of = f
    <3>1. /\ Moving(f) = {q} /\ Target(q) \in Paths /\ Target(q) # Stale(q)
          /\ vault[Target(q)] # None /\ vault[Target(q)].of = f
      BY <2>1, <2>3 DEF Safe
    <3>2. Target(q)' = Target(q) /\ Stale(q)' = Stale(q)
      BY <1>6, <2>2, <2>3
    <3>3. vault'[Target(q)] = vault[Target(q)]
      BY <1>11, <1>13, <3>1
    <3>4. Moving(f)' = {q}
      BY <2>1, <2>3, <3>1
    <3> QED BY <3>1, <3>2, <3>3, <3>4
  <2> QED BY <2>3 DEF Safe, Paths
<1>14. ASSUME e \in kept'
       PROVE  Safe(e)'
  <2>1. ASSUME NEW q \in Moving(e)'
        PROVE  /\ Moving(e)' = {q}
               /\ Target(q)' \in Paths /\ Target(q)' # Stale(q)'
               /\ vault'[Target(q)'] # None /\ vault'[Target(q)'].of = e
    <3>1. CASE Crossing(r)
      <4>1. e \in kept /\ Moving(e)' \subseteq Moving(e) /\ Safe(e)
        BY <1>2, <1>7, <1>14, <3>1 DEF NoteInv, MoveInv
      <4>2. /\ Moving(e) = {q} /\ Target(q) \in Paths /\ Target(q) # Stale(q)
            /\ vault[Target(q)] # None /\ vault[Target(q)].of = e
        BY <2>1, <4>1 DEF Safe
      <4>3. q \in Requests \ {r}
        BY <1>7, <4>2 DEF Moving
      <4>4. Target(q)' = Target(q) /\ Stale(q)' = Stale(q)
        BY <1>6, <4>3
      <4>5. vault'[Target(q)] # None /\ vault'[Target(q)].of = e
        BY <1>1, <1>10, <4>2
      <4> QED BY <2>1, <4>1, <4>2, <4>4, <4>5
    <3>2. CASE ~ Crossing(r)
      <4>1. Moving(e)' = {r} /\ q = r /\ Moves(r)
        BY <1>7, <2>1, <3>2
      <4> QED BY <1>1, <1>5, <1>9, <1>10, <4>1
    <3> QED BY <3>1, <3>2
  <2> QED BY <2>1 DEF Safe, Paths
<1>15. ASSUME NEW f \in kept'
       PROVE  Safe(f)'
  <2>1. CASE f # e
    BY <1>13, <1>15, <2>1
  <2>2. CASE f = e
    BY <1>14, <1>15, <2>2
  <2> QED BY <2>1, <2>2
<1> QED BY <1>12, <1>15 DEF NoteInv, MoveInv

LEMMA RemoveStaleKeeps ==
  ASSUME TypeOK, WorkInv, NoteInv, NEW r \in Requests, RemoveStale(r)
  PROVE  NoteInv'
<1> DEFINE e == Head(req[r].todo)
           S == Stale(r)
<1>1. e \in Entities /\ r \in Moving(e) /\ Target(r) \in Paths
  BY HandTypes, TargetTypes DEF RemoveStale, At, Exporting, Moving
<1>2. /\ vault' = [p \in Paths |-> IF p = S THEN None ELSE vault[p]]
      /\ kept' = kept \ OfOthers({S} \intersect Paths, e)
      /\ Put(r, Written(r))
  BY DEF RemoveStale
<1>3. req'[r] = Written(r) /\ \A s \in Requests \ {r} : req'[s] = req[s]
  BY <1>2, PutsOne
<1>4. Written(r).at = "mdlink"
  BY DEF Written, TypeOK, Request
<1> HIDE DEF e, S
<1>5. ASSUME NEW f \in kept', f # e
      PROVE  /\ f \in kept
             /\ \A p \in Paths : vault[p] # None /\ vault[p].of = f => vault'[p] = vault[p]
  <2>1. f \in kept /\ f \in Entities /\ f \notin OfOthers({S} \intersect Paths, e)
    BY <1>2, <1>5 DEF TypeOK
  <2>2. ASSUME NEW p \in Paths, vault[p] # None, vault[p].of = f
        PROVE  p \notin {S} \intersect Paths
    BY <1>5, <2>1, <2>2, OthersTypes
  <2> QED BY <1>2, <2>1, <2>2
<1>6. NotesSurvive'
  <2>1. ASSUME NEW f \in kept', f # e
        PROVE  \E p \in Paths : vault'[p] # None /\ vault'[p].of = f
    BY <1>5, <2>1 DEF NoteInv, NotesSurvive
  <2>2. ASSUME e \in kept'
        PROVE  \E p \in Paths : vault'[p] # None /\ vault'[p].of = e
    <3>1. Target(r) # S /\ vault[Target(r)] # None /\ vault[Target(r)].of = e
      BY <1>1, <1>2, <2>2 DEF NoteInv, MoveInv, Safe, S
    <3>2. vault'[Target(r)] = vault[Target(r)]
      BY <1>1, <1>2, <3>1
    <3> QED BY <1>1, <3>1, <3>2
  <2> QED BY <2>1, <2>2 DEF NotesSurvive
<1>7. \A q \in Requests : req'[q].at = "stale" => req'[q] = req[q]
  BY <1>3, <1>4
<1>8. ASSUME NEW f \in kept'
      PROVE  Safe(f)'
  <2>1. f \in kept
    BY <1>2, <1>8
  <2>2. ASSUME NEW q \in Moving(f), q \in Moving(f)', Target(q) \in Paths,
               vault[Target(q)] # None, vault[Target(q)].of = f
        PROVE  vault'[Target(q)] # None /\ vault'[Target(q)].of = f
    <3>1. f # e
      <4>1. q # r
        BY <1>3, <1>4, <2>2 DEF Moving, At
      <4>2. f = e => Moving(f) = {q}
        BY <2>1, <2>2 DEF NoteInv, MoveInv, Safe
      <4> QED BY <1>1, <4>1, <4>2
    <3> QED BY <1>5, <1>8, <2>2, <3>1
  <2> QED BY <1>7, <2>1, <2>2, SafeStep DEF NoteInv
<1> QED BY <1>6, <1>8 DEF NoteInv, MoveInv

(* A step that nobody begins to move a note in, and that takes from those    *)
(* that are kept the others whose files it changes.                        *)
LEMMA TakenKeeps ==
  ASSUME TypeOK, NoteInv, NEW p \in Paths, kept' \subseteq kept \ OfOthers({p}, None),
         \A x \in Paths \ {p} : vault[x] # None => vault'[x] = vault[x],
         \A q \in Requests : req'[q].at = "stale" => req'[q] = req[q]
  PROVE  NoteInv'
<1>1. ASSUME NEW f \in kept'
      PROVE  /\ f \in kept
             /\ \A x \in Paths : vault[x] # None /\ vault[x].of = f => vault'[x] = vault[x]
  <2>1. f \in kept /\ f \in Entities /\ f \notin OfOthers({p}, None) /\ f # None
    BY <1>1, AbsentAssumption DEF TypeOK
  <2>2. ASSUME NEW x \in Paths, vault[x] # None, vault[x].of = f
        PROVE  x # p
    BY <2>1, <2>2, OthersTypes
  <2> QED BY <2>1, <2>2
<1>2. NotesSurvive'
  BY <1>1 DEF NoteInv, NotesSurvive
<1>3. ASSUME NEW f \in kept'
      PROVE  Safe(f)'
  BY <1>1, <1>3, SafeStep DEF NoteInv
<1> QED BY <1>2, <1>3 DEF NoteInv, MoveInv

LEMMA SameNotes ==
  ASSUME NoteInv, UNCHANGED <<vault, kept>>,
         \A q \in Requests : req'[q].at = "stale" => req'[q] = req[q]
  PROVE  NoteInv'
<1>1. NotesSurvive'
  BY DEF NoteInv, NotesSurvive, Paths
<1>2. ASSUME NEW f \in kept'
      PROVE  Safe(f)'
  BY <1>2, SafeStep DEF NoteInv
<1> QED BY <1>1, <1>2 DEF NoteInv, MoveInv

LEMMA WriteNoteFailsKeeps ==
  ASSUME TypeOK, WorkInv, NoteInv, NEW r \in Requests, WriteNoteFails(r),
         \A q \in Requests : req'[q].at = "stale" => req'[q] = req[q]
  PROVE  NoteInv'
<1>1. CASE UNCHANGED <<vault, kept>>
  BY <1>1, SameNotes
<1>2. ASSUME NEW t, vault' = [vault EXCEPT ![Target(r)] = Note(None, t)],
             kept' = kept \ OfOthers({Target(r)}, None), req[r].at = "item"
      PROVE  NoteInv'
  <2>1. Target(r) \in Paths
    BY <1>2, TargetTypes DEF WriteNoteFails, At
  <2>2. \A x \in Paths \ {Target(r)} : vault'[x] = vault[x]
    BY <1>2, <2>1 DEF TypeOK
  <2> QED BY <1>2, <2>1, <2>2, TakenKeeps
<1> QED BY <1>1, <1>2 DEF WriteNoteFails

LEMMA UserKeeps ==
  ASSUME TypeOK, NoteInv, UserWrites \/ UserMoves \/ UserDeletes
  PROVE  NoteInv'
<1>1. \A q \in Requests : req'[q] = req[q]
  BY DEF UserWrites, UserMoves, UserDeletes
<1>2. CASE UserWrites
  <2>1. PICK t \in Titles : /\ vault[<<FileOf[t], None>>] = None
                            /\ vault' = [vault EXCEPT ![<<FileOf[t], None>>] = Note(None, t)]
    BY <1>2 DEF UserWrites
  <2>2. \A p \in Paths : vault[p] # None => vault'[p] = vault[p]
    BY <2>1 DEF TypeOK
  <2>3. kept' = kept
    BY <1>2 DEF UserWrites
  <2>4. NotesSurvive'
    BY <2>2, <2>3 DEF NoteInv, NotesSurvive
  <2>5. ASSUME NEW f \in kept'
        PROVE  Safe(f)'
    BY <1>1, <2>2, <2>3, <2>5, SafeStep DEF NoteInv
  <2> QED BY <2>4, <2>5 DEF NoteInv, MoveInv
<1>3. CASE UserMoves
  <2>1. PICK p \in Paths, f \in Files :
          /\ vault[p] # None /\ vault[<<f, None>>] = None
          /\ \/ /\ vault' = [vault EXCEPT ![<<f, None>>] = vault[p], ![p] = None]
                /\ kept' = {e \in kept : \A q \in Moving(e) : Target(q) # p}
             \/ vault' = [vault EXCEPT ![<<f, None>>] = vault[p]] /\ UNCHANGED kept
    BY <1>3 DEF UserMoves
  <2>2. <<f, None>> \in Paths /\ p # <<f, None>>
    BY <2>1 DEF Paths
  <2>3. /\ vault'[<<f, None>>] = vault[p]
        /\ \A x \in Paths \ {p, <<f, None>>} : vault'[x] = vault[x]
    BY <2>1, <2>2 DEF TypeOK
  <2>4. kept' \subseteq kept
    BY <2>1
  <2>5. ASSUME NEW e \in kept
        PROVE  \E x \in Paths : vault'[x] # None /\ vault'[x].of = e
    <3>1. PICK x \in Paths : vault[x] # None /\ vault[x].of = e
      BY DEF NoteInv, NotesSurvive
    <3>2. CASE x = p
      BY <2>2, <2>3, <3>1, <3>2
    <3>3. CASE x # p
      BY <2>1, <2>3, <3>1, <3>3
    <3> QED BY <3>2, <3>3
  <2>6. ASSUME NEW e \in kept', NEW q \in Moving(e), Target(q) \in Paths,
               vault[Target(q)] # None, vault[Target(q)].of = e
        PROVE  vault'[Target(q)] = vault[Target(q)]
    <3>1. Target(q) # <<f, None>>
      BY <2>1, <2>6
    <3>2. CASE Target(q) # p
      BY <2>3, <2>6, <3>1, <3>2
    <3>3. CASE Target(q) = p
      <4>1. vault' = [vault EXCEPT ![<<f, None>>] = vault[p]]
        BY <2>1, <2>6, <3>3
      <4> QED BY <2>2, <2>6, <3>3, <4>1 DEF TypeOK
    <3> QED BY <3>2, <3>3
  <2>7. ASSUME NEW e \in kept'
        PROVE  Safe(e)'
    <3>1. e \in kept
      BY <2>4, <2>7
    <3> QED BY <1>1, <2>6, <2>7, <3>1, SafeStep DEF NoteInv
  <2>8. NotesSurvive'
    BY <2>4, <2>5 DEF NotesSurvive, Paths
  <2> QED BY <2>7, <2>8 DEF NoteInv, MoveInv
<1>4. CASE UserDeletes
  <2>1. PICK p \in Paths : /\ vault' = [vault EXCEPT ![p] = None]
                           /\ kept' = kept \ OfOthers({p}, None)
    BY <1>4 DEF UserDeletes
  <2>2. \A x \in Paths \ {p} : vault'[x] = vault[x]
    BY <2>1 DEF TypeOK
  <2> QED BY <1>1, <2>1, <2>2, TakenKeeps
<1> QED BY <1>2, <1>3, <1>4

LEMMA NoteStep ==
  ASSUME TypeOK, WorkInv, HandInv, NoteInv, [SyncNext]_SyncVars
  PROVE  NoteInv'
<1>1. CASE \E r \in Requests : WriteNote(r)
  BY <1>1, WriteNoteKeeps
<1>2. CASE ~ \E r \in Requests : WriteNote(r)
  <2>1. \A q \in Requests : req'[q].at = "stale" => req'[q] = req[q]
    BY <1>2, StillMoves
  <2>2. CASE UNCHANGED <<vault, kept>>
    BY <2>1, <2>2, SameNotes
  <2>3. CASE VaultNext
    <3>1. ASSUME NEW r \in Requests,
                 \/ PlanNotes(r) \/ LinkNote(r) \/ ScanNotes(r) \/ ListEntities(r)
                 \/ MatchNote(r) \/ UpdateEntity(r) \/ LinkImported(r)
          PROVE  UNCHANGED <<vault, kept>>
      BY <3>1 DEF PlanNotes, LinkNote, ScanNotes, ListEntities, MatchNote, UpdateEntity, LinkImported
    <3> QED
      BY <1>2, <2>1, <2>2, <2>3, <3>1, RemoveStaleKeeps, WriteNoteFailsKeeps, UserKeeps DEF VaultNext
  <2> QED BY <2>2, <2>3 DEF SyncNext, SyncVars
<1> QED BY <1>1, <1>2

-----------------------------------------------------------------------------
(* The specification *)

LEMMA InitHolds ==
  ASSUME SyncInit
  PROVE  TypeOK /\ WorkInv /\ HandInv /\ OwnInv /\ DocumentsAreReal /\ NoteInv
<1> USE DEF SyncInit
<1>1. link \in [Entities -> [LinkKinds -> ExternalIds]]
  BY NoLinksTypes
<1>2. entity \in [Entities -> Titles \cup {None, Gone}]
  BY FirstAssumption
<1>3. req \in [Requests -> Request] /\ WorkInv
  BY IdleFits DEF Fit, WorkInv
<1>4. TypeOK
  BY <1>1, <1>2, <1>3 DEF TypeOK, FoundryInit, VaultInit
<1>5. NoLinks.actor = None /\ NoLinks.journal = None
  BY DEF NoLinks, LinkKinds
<1>6. HandInv
  BY <1>5, IdleTypes DEF HandInv, Holds
<1>7. OwnInv
  BY IdleTypes, AbsentAssumption DEF OwnInv
<1>8. DocumentsAreReal
  BY <1>5, DocumentAssumption DEF DocumentsAreReal
<1>9. NoteInv
  BY DEF NoteInv, NotesSurvive, MoveInv, VaultInit
<1> QED BY <1>3, <1>4, <1>6, <1>7, <1>8, <1>9

(* Rows, links, clients and requests are what the types say they are; what a *)
(* request has left to do fits what it is doing, and the document it is     *)
(* about to link is the entity's (the export and import loops of the        *)
(* connectors, ConnectorRuntime).                                          *)
THEOREM WorkFits == SyncSpec => [](TypeOK /\ WorkInv /\ HandInv)
<1>1. SyncInit => TypeOK /\ WorkInv /\ HandInv
  BY InitHolds
<1>2. TypeOK /\ WorkInv /\ HandInv /\ [SyncNext]_SyncVars => (TypeOK /\ WorkInv /\ HandInv)'
  BY TypeStep, HandStep
<1> QED BY <1>1, <1>2, PTL DEF SyncSpec

(* No server is left running that nobody will ever close, however calls,     *)
(* edits, failures to start, cancellations and restarts come together       *)
(* (ConnectorRuntime.get_or_create, invalidate and aclose).                *)
THEOREM NoStrayClient == SyncSpec => []ClientsAreOwned
<1>1. SyncInit => OwnInv
  BY InitHolds
<1>2. TypeOK /\ WorkInv /\ HandInv /\ OwnInv /\ [SyncNext]_SyncVars => OwnInv'
  BY OwnStep
<1>3. OwnInv => ClientsAreOwned
  BY DEF OwnInv, ClientsAreOwned
<1> QED BY <1>1, <1>2, <1>3, WorkFits, PTL DEF SyncSpec

(* A link names the document its entity was exported to, or imported from,  *)
(* whatever is deleted, renamed and refused between the steps of an export  *)
(* (FoundryConnector.export, _try_create_npc and _import_actor).           *)
THEOREM LinksNameTheirOwn == SyncSpec => []DocumentsAreReal
<1>1. SyncInit => DocumentsAreReal
  BY InitHolds
<1>2. TypeOK /\ WorkInv /\ HandInv /\ DocumentsAreReal /\ [SyncNext]_SyncVars => DocumentsAreReal'
  BY DocumentStep
<1> QED BY <1>1, <1>2, WorkFits, PTL DEF SyncSpec

(* An entity that has been exported keeps a note, whatever titles entities    *)
(* have, however many exports, imports and users write at once, and between *)
(* any two of the file operations of an export's thread: but not if two     *)
(* exports move its note at once, as each may then remove what the other    *)
(* has written (ObsidianConnector._write_note).                            *)
THEOREM NoNoteIsLost == SyncSpec => []NotesSurvive
<1>1. SyncInit => NoteInv
  BY InitHolds
<1>2. TypeOK /\ WorkInv /\ HandInv /\ NoteInv /\ [SyncNext]_SyncVars => NoteInv'
  BY NoteStep
<1>3. NoteInv => NotesSurvive
  BY DEF NoteInv
<1> QED BY <1>1, <1>2, <1>3, WorkFits, PTL DEF SyncSpec
=============================================================================
