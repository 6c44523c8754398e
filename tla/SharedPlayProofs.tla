--------------------------- MODULE SharedPlayProofs ---------------------------
(***************************************************************************)
(* SharedPlay for any number of players, entities, fields, notes, files    *)
(* and requests served at a time: what a player is sent it could see, what *)
(* players see is what the game master chose, and rows have their files.   *)
(***************************************************************************)
EXTENDS SharedPlay, TLAPS

Writers == {"save", "patch", "view"}
MasterOps == Writers \cup {"upload", "unlink", "icon"}
Stages == {"idle", "seen", "checked", "answered", "write", "insert", "unlink"}

Request ==
  [op : {"idle"} \cup PlayerOps \cup MasterOps, at : Stages,
   who : Players \cup {None}, x : Entities \cup Notes \cup Files \cup {None},
   read : Fields, fresh : BOOLEAN, revealed : BOOLEAN,
   keys : SUBSET (Keys \cup Files), answer : SUBSET Things, hidden : SUBSET Things]

NoteRow == [author : Players \cup {None}, on : Entities \cup {None}, public : BOOLEAN]

(* What each kind of request was asked for.                                *)
Shaped(q) ==
  /\ q.op \in PlayerOps => q.who \in Players
  /\ q.op \in {"notes", "write"} => q.x \in Entities
  /\ q.op \in {"edit", "erase"} => q.x \in Notes
  /\ q.op \in Writers \cup {"upload", "icon"} => q.x \in Entities
  /\ q.op \in Writers => q.keys \subseteq Keys

TableOK ==
  /\ player \in [Players -> {"active", "revoked", "gone"}] /\ cookie \subseteq Players
  /\ note \in [Notes -> NoteRow]
FilesOK ==
  /\ file \in [Files -> Entities \cup {None}] /\ attach \in [Files -> Entities \cup {None}]
  /\ icon \in [Entities -> Files \cup {None}]
FlagsOK ==
  /\ entity \in [Entities -> [here : BOOLEAN, revealed : BOOLEAN, fields : Fields]]
  /\ page \in [Entities -> [fresh : BOOLEAN, fields : Fields]]
  /\ chosen \in [Entities -> SUBSET Keys] /\ muddled \subseteq Entities
RequestsOK == req \in [Requests -> Request] /\ \A r \in Requests : Shaped(req[r])
Typed == TableOK /\ FilesOK /\ FlagsOK /\ RequestsOK

-----------------------------------------------------------------------------
(* The inductive invariants *)

(* What is in an answer so far is no longer counted as hidden, and only a   *)
(* player is answered.                                                     *)
AnswersInv ==
  \A r \in Requests :
    /\ req[r].answer \cap req[r].hidden = {}
    /\ req[r].who = None => req[r].answer = {}

(* A writer that is not out of date has the row's fields before it: the    *)
(* editor a part of them, with the row's flags, the others all of them.    *)
Current(q, fields) ==
  IF q.op = "save" THEN Shown(q.read) = Shown(fields) \cap Present(q.read)
  ELSE q.read = fields
FlagsInv ==
  /\ FlagsFollowTheGameMaster
  /\ \A e \in Entities :
       page[e].fresh /\ page[e].fields # NoFields => page[e].fields = entity[e].fields
  /\ \A r \in Requests :
       req[r].op \in Writers /\ req[r].fresh /\ entity[req[r].x].here =>
         Current(req[r], entity[req[r].x].fields)

(* While a request names an attachment no other begins it or ends it, and   *)
(* the row, the file and the request agree.                                *)
Agrees(r, f) ==
  /\ req[r].op \in {"upload", "unlink"} => attach[f] = None
  /\ req[r].op = "upload" /\ req[r].at = "insert" => file[f] = req[r].x
  /\ req[r].op = "icon" => attach[f] \in {None, req[r].x}
FilesInv ==
  /\ RowsHaveFiles
  /\ \A r \in Requests, f \in Files : Names(r, f) => Agrees(r, f)
  /\ \A q, r \in Requests, f \in Files :
       Names(q, f) /\ Names(r, f) /\ req[q].op = "upload" => q = r

-----------------------------------------------------------------------------
(* Requests: what a step leaves of them                                    *)
(* Everything of a request but what its player could not see so far.       *)
Follows(q, s) ==
  /\ q \in Request /\ q.hidden \subseteq s.hidden
  /\ q.op = s.op /\ q.at = s.at /\ q.who = s.who /\ q.x = s.x /\ q.read = s.read
  /\ q.fresh = s.fresh /\ q.revealed = s.revealed /\ q.keys = s.keys
  /\ q.answer = s.answer

(* Serving changes no more of a request than that, and takes from it what  *)
(* its player can see.                                                     *)
LEMMA ServeRequests ==
  ASSUME NEW next \in [Requests -> Request], Serve(next)
  PROVE  /\ req' \in [Requests -> Request]
         /\ \A q \in Requests :
              /\ Follows(req'[q], next[q])
              /\ next[q].who # None => req'[q].hidden = next[q].hidden \ Sight'[next[q].who]
<1> DEFINE served(q) == [next[q] EXCEPT !.hidden = @ \ Sight'[next[q].who]]
<1>1. \A q \in Requests : req'[q] = IF next[q].who = None THEN next[q] ELSE served(q)
  BY DEF Serve
<1>2. req' = [q \in Requests |-> req'[q]]
  BY DEF Serve
<1>3. ASSUME NEW q \in Requests
      PROVE  /\ Follows(req'[q], next[q])
             /\ next[q].who # None => req'[q].hidden = next[q].hidden \ Sight'[next[q].who]
  <2>1. next[q] \in Request
    OBVIOUS
  <2> DEFINE kept == next[q].hidden \ Sight'[next[q].who]
  <2>2. kept \in SUBSET Things
    BY <2>1 DEF Request
  <2> HIDE DEF kept
  <2>3. [next[q] EXCEPT !.hidden = kept] \in Request
    BY <2>1, <2>2 DEF Request
  <2>4. served(q) = [next[q] EXCEPT !.hidden = kept]
    BY <2>1 DEF kept, Request
  <2>5. served(q).hidden = kept /\ kept \subseteq next[q].hidden
    BY <2>1, <2>4 DEF Request, kept
  <2>6. Follows(served(q), next[q])
    BY <2>1, <2>3, <2>4, <2>5 DEF Request, Follows
  <2>7. Follows(next[q], next[q])
    BY <2>1 DEF Follows
  <2>8. QED
    BY <1>1, <2>5, <2>6, <2>7 DEF kept
<1>4. QED
  BY <1>2, <1>3 DEF Follows

LEMMA PutRequests ==
  ASSUME Typed, NEW r \in Requests, NEW record \in Request, Shaped(record),
         Put(r, record)
  PROVE  /\ RequestsOK'
         /\ Follows(req'[r], record)
         /\ \A q \in Requests \ {r} : Follows(req'[q], req[q])
         /\ record.who # None => req'[r].hidden = record.hidden \ Sight'[record.who]
<1> DEFINE next == [req EXCEPT ![r] = record]
<1>1. next \in [Requests -> Request] /\ next[r] = record
      /\ \A q \in Requests \ {r} : next[q] = req[q]
  BY DEF Typed, RequestsOK
<1>2. Serve(next)
  BY DEF Put
<1> HIDE DEF next
<1>3. \A q \in Requests : Shaped(next[q])
  BY <1>1 DEF Typed, RequestsOK
<1>4. \A q \in Requests : Shaped(req'[q])
  BY <1>1, <1>2, <1>3, ServeRequests DEF Follows, Shaped
<1>5. QED
  BY <1>1, <1>2, <1>4, ServeRequests DEF RequestsOK

(* A request that is no player's is what it is put as.                     *)
LEMMA MasterPut ==
  ASSUME Typed, NEW r \in Requests, NEW record, record.who = None, Put(r, record)
  PROVE  req'[r] = record /\ \A q \in Requests \ {r} : Follows(req'[q], req[q])
<1>1. req'[r] = record
  BY DEF Put, Serve, Typed, RequestsOK
<1>2. ASSUME NEW q \in Requests \ {r}
      PROVE  Follows(req'[q], req[q])
  <2>1. req[q] \in Request
    BY DEF Typed, RequestsOK
  <2>2. req'[q] = IF req[q].who = None THEN req[q]
                  ELSE [req[q] EXCEPT !.hidden = @ \ Sight'[req[q].who]]
    BY DEF Put, Serve, Typed, RequestsOK
  <2> DEFINE kept == req[q].hidden \ Sight'[req[q].who]
  <2>3. kept \in SUBSET Things /\ kept \subseteq req[q].hidden
    BY <2>1 DEF Request
  <2>4. req'[q] = req[q] \/ req'[q] = [req[q] EXCEPT !.hidden = kept]
    BY <2>1, <2>2 DEF Request
  <2> HIDE DEF kept
  <2>5. QED
    BY <2>1, <2>3, <2>4 DEF Follows, Request
<1>3. QED
  BY <1>1, <1>2

LEMMA IdleRequest == Idle \in Request /\ Shaped(Idle)
<1>1. NoFields \in Fields
  BY DEF NoFields, Fields, Flag
<1>2. {} \in SUBSET Things /\ {} \in SUBSET (Keys \cup Files)
  OBVIOUS
<1>3. Idle \in Request
  BY <1>1, <1>2 DEF Idle, Request, Stages
<1>4. QED
  BY <1>3 DEF Idle, Shaped, PlayerOps, Writers

(* What a player is sent of a revealed entity or of its notes is a part of  *)
(* what that player sees.                                                  *)
LEMMA SeenThings ==
  ASSUME NEW p \in Players
  PROVE  /\ Valid(p) => Session \subseteq Seeable(p)
         /\ \A e \in Entities : Revealed(e) =>
              {<<e>>} \subseteq Seeable(p) /\ ToPlayerEntity(e) \subseteq Seeable(p)
         /\ \A e \in Entities : NotesAmong(VisibleNotes(e, p)) \subseteq Seeable(p)
<1>1. Valid(p) => Session \subseteq Seeable(p)
  BY DEF Seeable
<1>2. ASSUME NEW e \in Entities, Revealed(e)
      PROVE  {<<e>>} \subseteq Seeable(p) /\ ToPlayerEntity(e) \subseteq Seeable(p)
  <2>1. ToPlayerEntity(e) \subseteq Seeable(p)
    BY <1>2 DEF Seeable, ToPlayerEntity
  <2>2. <<e>> \in ToPlayerEntity(e)
    BY DEF ToPlayerEntity, EntityWith
  <2>3. QED
    BY <2>1, <2>2
<1>3. ASSUME NEW e \in Entities
      PROVE  NotesAmong(VisibleNotes(e, p)) \subseteq Seeable(p)
  <2>1. NotesAmong({n \in Notes : Readable(n, p)}) \subseteq Seeable(p)
    BY DEF Seeable
  <2>2. VisibleNotes(e, p) \subseteq {n \in Notes : Readable(n, p)}
    BY DEF VisibleNotes
  <2>3. QED
    BY <2>1, <2>2 DEF NotesAmong
<1>4. QED
  BY <1>1, <1>2, <1>3

LEMMA ThingsTyped ==
  /\ Session \subseteq Things
  /\ \A e \in Entities : {<<e>>} \subseteq Things /\ ToPlayerEntity(e) \subseteq Things
  /\ \A ids \in SUBSET Notes : NotesAmong(ids) \subseteq Things
<1>1. ASSUME NEW e \in Entities
      PROVE  {<<e>>} \subseteq Things /\ ToPlayerEntity(e) \subseteq Things
  <2>1. EntityWith(e, Keys) \subseteq Things
    BY DEF Things
  <2>2. {<<e>>} \subseteq EntityWith(e, Keys) /\ ToPlayerEntity(e) \subseteq EntityWith(e, Keys)
    BY DEF EntityWith, ToPlayerEntity, Shown
  <2>3. QED
    BY <2>1, <2>2
<1>2. ASSUME NEW ids \in SUBSET Notes PROVE NotesAmong(ids) \subseteq Things
  <2>1. NotesAmong(Notes) \subseteq Things
    BY DEF Things
  <2>2. QED
    BY <2>1 DEF NotesAmong
<1>3. QED
  BY <1>1, <1>2 DEF Things

(* The columns written are fields of the entity's template.                *)
LEMMA FieldsTyped ==
  ASSUME NEW fields \in Fields, NEW keys \in SUBSET Keys
  PROVE  Patched(fields, keys) \in Fields /\ Viewed(fields, keys) \in Fields
BY DEF Fields, Patched, Viewed, Flag

-----------------------------------------------------------------------------
(* Type correctness *)
LEMMA TypedIsTypeOK == Typed => TypeOK
<1>1. ASSUME Typed, NEW r \in Requests
      PROVE  req[r].answer \cup req[r].hidden \subseteq Things
  BY <1>1 DEF Typed, RequestsOK, Request
<1>2. QED
  BY <1>1 DEF TypeOK, Typed, TableOK, FilesOK, FlagsOK

LEMMA InitTyped == Init => Typed
<1> SUFFICES ASSUME Init PROVE Typed
  OBVIOUS
<1>1. NoFields \in Fields /\ [k \in Keys |-> "hidden"] \in Fields
  BY DEF NoFields, Fields, Flag
<1>2. NoNote \in NoteRow
  BY DEF NoNote, NoteRow
<1>3. RequestsOK
  BY IdleRequest DEF Init, RequestsOK
<1>4. QED
  BY <1>1, <1>2, <1>3 DEF Init, Typed, TableOK, FilesOK, FlagsOK

(* The request is a player's or done, and the others are what they were.   *)
PlayersOwn(r) ==
  /\ req'[r].op \in PlayerOps \cup {"idle"}
  /\ \A q \in Requests \ {r} : Follows(req'[q], req[q])

(* A player's request: it only reads, or writes a note.                    *)
LEMMA PlayerTyped ==
  ASSUME Typed, NEW r \in Requests, PlayerStep(r)
  PROVE  Typed' /\ PlayersOwn(r)
<1> USE DEF Typed, RequestsOK
<1>0. req[r].op \in PlayerOps
  BY DEF PlayerStep, Look, Notes1, Notes2, GetFile, WriteNote1, WriteNote2, OwnNote1, OwnNote2,
         Answered, At, PlayerOps
<1>1. ASSUME NEW at \in Stages, NEW things \in SUBSET Things, Answering(r, at, things)
      PROVE  RequestsOK' /\ PlayersOwn(r)
  <2> DEFINE record == [req[r] EXCEPT !.at = at, !.answer = @ \cup things]
  <2>1. record \in Request /\ Shaped(record) /\ record.op = req[r].op
    BY DEF Request, Shaped
  <2>2. QED
    BY <1>0, <1>1, <2>1, PutRequests DEF Answering, PlayersOwn, Follows
<1>2. ASSUME Goto(r, "checked")
      PROVE  RequestsOK' /\ PlayersOwn(r)
  <2> DEFINE record == [req[r] EXCEPT !.at = "checked"]
  <2>1. record \in Request /\ Shaped(record) /\ record.op = req[r].op
    BY DEF Request, Shaped, Stages
  <2>2. QED
    BY <1>0, <1>2, <2>1, PutRequests DEF Goto, PlayersOwn, Follows
<1>3. ASSUME Finish(r)
      PROVE  RequestsOK' /\ PlayersOwn(r)
  BY <1>3, IdleRequest, PutRequests DEF Finish, PlayersOwn, Follows, Idle
<1>4. FilesOK' /\ FlagsOK'
  BY DEF PlayerStep, Look, Notes1, Notes2, GetFile, WriteNote1, WriteNote2, OwnNote1, OwnNote2,
         Answered, files, flags, FilesOK, FlagsOK
<1>5. RequestsOK' /\ PlayersOwn(r)
  <2>1. CASE Look(r)
    <3>1. UNION {ToPlayerEntity(e) : e \in {d \in Entities : Revealed(d)}} \in SUBSET Things
      BY ThingsTyped
    <3>2. QED
      BY <1>1, <2>1, <3>1 DEF Look, Stages
  <2>2. CASE Notes1(r)
    BY <1>1, <1>3, <2>2, ThingsTyped DEF Notes1, Stages, At, Shaped
  <2>3. CASE Notes2(r)
    BY <1>1, <2>3, ThingsTyped DEF Notes2, Stages, VisibleNotes
  <2>4. CASE GetFile(r)
    BY <1>1, <1>3, <2>4, ThingsTyped DEF GetFile, Stages
  <2>5. QED
    BY <1>2, <1>3, <2>1, <2>2, <2>3, <2>4
    DEF PlayerStep, WriteNote1, WriteNote2, OwnNote1, OwnNote2, Answered
<1>6. TableOK'
  <2>1. CASE WriteNote2(r)
    <3>1. req[r].who \in Players /\ req[r].x \in Entities
      BY <2>1 DEF WriteNote2, At, Shaped, PlayerOps
    <3>2. QED
      BY <2>1, <3>1 DEF WriteNote2, TableOK, NoteRow
  <2>2. CASE OwnNote2(r)
    <3>1. NoNote \in NoteRow
      BY DEF NoteRow, NoNote
    <3>2. req[r].x \in Notes
      BY <2>2 DEF OwnNote2, Shaped
    <3>3. CASE \E public \in BOOLEAN : note' = [note EXCEPT ![req[r].x].public = public]
      <4>1. PICK public \in BOOLEAN : note' = [note EXCEPT ![req[r].x].public = public]
        BY <3>3
      <4>2. [note[req[r].x] EXCEPT !.public = public] \in NoteRow
        BY <3>2 DEF TableOK, NoteRow
      <4>3. QED
        BY <2>2, <3>2, <4>1, <4>2 DEF OwnNote2, TableOK
    <3>4. QED
      BY <2>2, <3>1, <3>2, <3>3 DEF OwnNote2, TableOK
  <2>3. CASE UNCHANGED table
    BY <2>3 DEF table, TableOK
  <2>4. QED
    BY <2>1, <2>2, <2>3
    DEF PlayerStep, Look, Notes1, Notes2, GetFile, WriteNote1, OwnNote1, Answered
<1>7. QED
  BY <1>4, <1>5, <1>6

LEMMA PlayerAsksTyped ==
  ASSUME Typed, NEW r \in Requests, NEW p \in Players, PlayerAsks(r, p)
  PROVE  Typed' /\ PlayersOwn(r)
<1>1. PICK op \in PlayerOps, x \in Entities \cup Notes \cup Files \cup {None} :
        /\ Ask(r, op, p, x)
        /\ op \in {"notes", "write"} => x \in Entities
        /\ op \in {"edit", "erase"} => x \in Notes
  BY DEF PlayerAsks, PlayerOps
<1> DEFINE record == [Idle EXCEPT !.op = op, !.at = "seen", !.who = p, !.x = x,
                        !.answer = Session, !.hidden = Session \cup AnswerOf(op, x)]
<1>2. AnswerOf(op, x) \subseteq Things
  <2>1. op = "notes" => {<<x>>} \cup NotesAmong(Notes) \subseteq Things
    BY <1>1, ThingsTyped
  <2>2. {<<e>> : e \in Entities} \subseteq Things
    BY ThingsTyped
  <2>3. QED
    BY <1>1, <2>1, <2>2 DEF AnswerOf, PlayerOps
<1>3. record \in Request
  BY <1>1, <1>2, IdleRequest, ThingsTyped DEF Request, Stages
<1>4. Shaped(record)
  BY <1>1 DEF Idle, Shaped, PlayerOps, Writers
<1>5. RequestsOK' /\ PlayersOwn(r)
  <2>1. Put(r, record)
    BY <1>1 DEF Ask, Begin
  <2>2. record.op \in PlayerOps
    BY <1>1 DEF Idle
  <2> HIDE DEF record
  <2>3. QED
    BY <1>3, <1>4, <2>1, <2>2, PutRequests DEF PlayersOwn, Follows
<1>6. QED
  BY <1>1, <1>5 DEF Ask, table, files, flags, Typed, TableOK, FilesOK, FlagsOK

(* The invitation: no request is touched.                                  *)
LEMMA InvitationTyped ==
  ASSUME Typed, NEW p \in Players,
         Rotate(p) \/ Revoke(p) \/ DeletePlayer(p) \/ StartSession(p) \/ EndSession(p)
  PROVE  Typed'
<1>1. Serve(req) /\ UNCHANGED <<files, flags>>
  BY DEF Rotate, Revoke, DeletePlayer, StartSession, EndSession
<1>2. RequestsOK'
  BY <1>1, ServeRequests DEF Typed, RequestsOK, Follows, Shaped
<1>3. Erased({n \in Notes : note[n].author = p}) \in [Notes -> NoteRow]
  BY DEF Typed, TableOK, Erased, NoteRow, NoNote
<1>4. TableOK'
  BY <1>3 DEF Typed, TableOK, Rotate, Revoke, DeletePlayer, StartSession, EndSession
<1>5. QED
  BY <1>1, <1>2, <1>4 DEF Typed, FilesOK, FlagsOK, files, flags

(* What a step that asks for a write, or for a file, begins with.          *)
LEMMA MasterAsksTyped ==
  ASSUME Typed, NEW r \in Requests, MasterAsks(r)
  PROVE  Typed'
<1>1. CASE \E e \in Entities :
             EditorSaves(r, e) \/ AgentPatches(r, e) \/ PanelSaves(r, e) \/ Toggles(r, e)
  <2>1. PICK e \in Entities :
          EditorSaves(r, e) \/ AgentPatches(r, e) \/ PanelSaves(r, e) \/ Toggles(r, e)
    BY <1>1
  <2>2. UNCHANGED <<table, files, flags>>
    BY <2>1 DEF EditorSaves, AgentPatches, PanelSaves, Toggles, Read
  <2>3. entity[e].fields \in Fields /\ page[e].fields \in Fields
    BY DEF Typed, FlagsOK
  <2>4. RequestsOK'
    <3>1. CASE EditorSaves(r, e)
      <4>1. PICK keys \in SUBSET Keys :
              Begin(r, [Idle EXCEPT !.op = "save", !.at = "write", !.x = e, !.fresh = EditorFresh(e),
                !.read = [k \in Keys |-> CASE k \notin keys -> "none"
                                           [] page[e].fields[k] = "none" -> "hidden"
                                           [] OTHER -> page[e].fields[k]]])
        BY <3>1 DEF EditorSaves
      <4> DEFINE read == [k \in Keys |-> CASE k \notin keys -> "none"
                                           [] page[e].fields[k] = "none" -> "hidden"
                                           [] OTHER -> page[e].fields[k]]
                 record == [Idle EXCEPT !.op = "save", !.at = "write", !.x = e,
                                        !.fresh = EditorFresh(e), !.read = read]
      <4>2. read \in Fields
        BY <2>3 DEF Fields, Flag
      <4>3. EditorFresh(e) \in BOOLEAN
        BY DEF EditorFresh, Typed, FlagsOK
      <4>4. Put(r, record)
        BY <4>1 DEF Begin
      <4> HIDE DEF read
      <4>5. record \in Request /\ Shaped(record)
        BY <4>2, <4>3, IdleRequest DEF Request, Idle, Shaped, Stages, MasterOps, Writers, PlayerOps
      <4> HIDE DEF record
      <4>6. QED
        BY <4>4, <4>5, PutRequests
    <3>2. ASSUME NEW op \in {"patch", "view"}, NEW revealed \in BOOLEAN, NEW keys \in SUBSET Keys,
                 Read(r, op, e, revealed, keys)
          PROVE  RequestsOK'
      <4> DEFINE record == [Idle EXCEPT !.op = op, !.at = "write", !.x = e,
                              !.read = entity[e].fields, !.revealed = revealed, !.keys = keys]
      <4>1. Put(r, record)
        BY <3>2 DEF Read, Begin
      <4>2. record \in Request /\ Shaped(record)
        BY <2>3, IdleRequest DEF Request, Idle, Shaped, Stages, MasterOps, Writers, PlayerOps
      <4> HIDE DEF record
      <4>3. QED
        BY <4>1, <4>2, PutRequests
    <3>3. Shown(page[e].fields) \in SUBSET Keys /\ (~ entity[e].revealed) \in BOOLEAN
      BY DEF Shown
    <3>4. QED
      BY <2>1, <3>1, <3>2, <3>3 DEF AgentPatches, PanelSaves, Toggles
  <2>5. QED
    BY <2>2, <2>4 DEF Typed, TableOK, FilesOK, FlagsOK, table, files, flags

<1>2. ASSUME NEW op \in {"upload", "icon"}, NEW x \in Entities, NEW f \in Files,
             Put(r, [Idle EXCEPT !.op = op, !.at = "write", !.x = x, !.keys = {f}])
      PROVE  RequestsOK'
  <2> DEFINE record == [Idle EXCEPT !.op = op, !.at = "write", !.x = x, !.keys = {f}]
  <2>1. record \in Request /\ Shaped(record)
    BY <1>2, IdleRequest DEF Request, Idle, Shaped, Stages, MasterOps, Writers, PlayerOps
  <2>2. Put(r, record)
    BY <1>2
  <2> HIDE DEF record
  <2>3. QED
    BY <2>1, <2>2, PutRequests
<1>3. CASE \E e \in Entities, f \in Files : Upload(r, e, f) \/ SetIcon(r, e, f)
  <2>1. RequestsOK'
    BY <1>2, <1>3 DEF Upload, SetIcon, Begin
  <2>2. QED
    BY <1>3, <2>1 DEF Upload, SetIcon, Typed, TableOK, FilesOK, FlagsOK, table, files, flags
<1>4. CASE \E f \in Files : DeleteRow(r, f)
  <2>1. PICK f \in Files : DeleteRow(r, f)
    BY <1>4
  <2> DEFINE record == [Idle EXCEPT !.op = "unlink", !.at = "unlink", !.keys = {f}]
  <2>2. record \in Request /\ Shaped(record)
    BY IdleRequest DEF Request, Idle, Shaped, Stages, MasterOps, Writers, PlayerOps
  <2>3. RequestsOK'
    BY <2>1, <2>2, PutRequests DEF DeleteRow
  <2>4. FilesOK'
    BY <2>1 DEF DeleteRow, Typed, FilesOK
  <2>5. QED
    BY <2>1, <2>3, <2>4 DEF DeleteRow, Typed, TableOK, FlagsOK, table, flags
<1>5. QED
  BY <1>1, <1>3, <1>4 DEF MasterAsks

(* What a write makes of the row, of the editor's copy and of the requests  *)
(* that are under way.                                                     *)
FieldsAfter(r) ==
  IF req[r].op = "view" /\ Written(r) = req[r].read
  THEN entity[req[r].x].fields ELSE Written(r)
RevealedAfter(r) == IF req[r].op = "view" THEN req[r].revealed ELSE entity[req[r].x].revealed

LEMMA WriterTyped ==
  ASSUME Typed, NEW r \in Requests, WriteEntity(r)
  PROVE  /\ req[r].op \in Writers /\ req[r].x \in Entities
         /\ req[r].read \in Fields /\ req[r].keys \in SUBSET Keys
         /\ Written(r) \in Fields /\ FieldsAfter(r) \in Fields /\ RevealedAfter(r) \in BOOLEAN
<1>1. req[r] \in Request /\ Shaped(req[r]) /\ req[r].op \in Writers
  BY DEF Typed, RequestsOK, WriteEntity, Writers
<1>2. /\ req[r].x \in Entities /\ req[r].read \in Fields
      /\ req[r].revealed \in BOOLEAN /\ req[r].keys \in SUBSET Keys
  BY <1>1 DEF Request, Shaped
<1>3. Written(r) \in Fields
  BY <1>2, FieldsTyped DEF Written
<1>4. entity[req[r].x].fields \in Fields /\ entity[req[r].x].revealed \in BOOLEAN
  BY <1>2 DEF Typed, FlagsOK
<1>5. QED
  BY <1>1, <1>2, <1>3, <1>4 DEF FieldsAfter, RevealedAfter

LEMMA WriteRow ==
  ASSUME Typed, NEW r \in Requests, WriteEntity(r), entity[req[r].x].here
  PROVE  LET e == req[r].x IN
         /\ FlagsOK'
         /\ entity'[e].fields = FieldsAfter(r) /\ (entity'[e].here <=> entity[e].here)
         /\ page'[e].fields = page[e].fields
         /\ page'[e].fresh => page[e].fresh /\ FieldsAfter(r) = page[e].fields
         /\ chosen'[e] = Present(FieldsAfter(r)) \cap
                           IF req[r].op = "view" THEN req[r].keys ELSE chosen[e]
         /\ muddled' = IF ~ req[r].fresh THEN muddled \cup {e}
                       ELSE IF req[r].op = "view" THEN muddled \ {e} ELSE muddled
         /\ \A d \in Entities \ {e} :
              entity'[d] = entity[d] /\ page'[d] = page[d] /\ chosen'[d] = chosen[d]
<1> DEFINE e == req[r].x
<1>1. /\ entity' = [entity EXCEPT ![e].fields = FieldsAfter(r), ![e].revealed = RevealedAfter(r)]
      /\ page' = [page EXCEPT ![e].fresh = @ /\ FieldsAfter(r) = page[e].fields]
      /\ chosen' = [chosen EXCEPT ![e] =
           IF req[r].op = "view" THEN req[r].keys \cap Present(FieldsAfter(r))
           ELSE @ \cap Present(FieldsAfter(r))]
      /\ muddled' = IF ~ req[r].fresh THEN muddled \cup {e}
                    ELSE IF req[r].op = "view" THEN muddled \ {e} ELSE muddled
  BY DEF WriteEntity, FieldsAfter, RevealedAfter
<1>2. /\ e \in Entities /\ FieldsAfter(r) \in Fields /\ RevealedAfter(r) \in BOOLEAN
      /\ req[r].keys \in SUBSET Keys
  BY WriterTyped
<1>3. FlagsOK
  BY DEF Typed
<1> HIDE DEF e
<1>4. /\ entity' \in [Entities -> [here : BOOLEAN, revealed : BOOLEAN, fields : Fields]]
      /\ entity'[e].fields = FieldsAfter(r) /\ (entity'[e].here <=> entity[e].here)
      /\ \A d \in Entities \ {e} : entity'[d] = entity[d]
  BY <1>1, <1>2, <1>3 DEF FlagsOK
<1>5. /\ page' \in [Entities -> [fresh : BOOLEAN, fields : Fields]]
      /\ page'[e].fields = page[e].fields
      /\ page'[e].fresh => page[e].fresh /\ FieldsAfter(r) = page[e].fields
      /\ \A d \in Entities \ {e} : page'[d] = page[d]
  BY <1>1, <1>2, <1>3 DEF FlagsOK
<1>6. /\ chosen' \in [Entities -> SUBSET Keys] /\ muddled' \subseteq Entities
      /\ chosen'[e] = Present(FieldsAfter(r)) \cap
                        IF req[r].op = "view" THEN req[r].keys ELSE chosen[e]
      /\ \A d \in Entities \ {e} : chosen'[d] = chosen[d]
  BY <1>1, <1>2, <1>3 DEF FlagsOK
<1>7. QED
  BY <1>1, <1>4, <1>5, <1>6 DEF FlagsOK, e

LEMMA WriteRequests ==
  ASSUME Typed, NEW r \in Requests, WriteEntity(r)
  PROVE  /\ RequestsOK' /\ Follows(req'[r], Idle)
         /\ \A q \in Requests \ {r} :
              Follows(req'[q], IF req[q].x = req[r].x /\ req[q].op \in Writers
                               THEN [req[q] EXCEPT !.fresh = FALSE] ELSE req[q])
<1> DEFINE next == OutOfDate([req EXCEPT ![r] = Idle], req[r].x, r)
<1>1. req \in [Requests -> Request] /\ \A q \in Requests : Shaped(req[q])
  BY DEF Typed, RequestsOK
<1>2. ASSUME NEW s \in Request, Shaped(s)
      PROVE  [s EXCEPT !.fresh = FALSE] \in Request /\ Shaped([s EXCEPT !.fresh = FALSE])
  BY <1>2 DEF Request, Shaped
<1>3. next[r] = Idle
  BY <1>1 DEF OutOfDate
<1>4. ASSUME NEW q \in Requests \ {r}
      PROVE  /\ next[q] \in Request /\ Shaped(next[q])
             /\ next[q] = IF req[q].x = req[r].x /\ req[q].op \in Writers
                          THEN [req[q] EXCEPT !.fresh = FALSE] ELSE req[q]
  BY <1>1, <1>2 DEF OutOfDate, Writers
<1>5. next \in [Requests -> Request] /\ \A q \in Requests : Shaped(next[q])
  <2>1. \A q \in Requests : next[q] \in Request /\ Shaped(next[q])
    BY <1>3, <1>4, IdleRequest
  <2>2. next = [q \in Requests |-> next[q]]
    BY DEF OutOfDate
  <2> HIDE DEF next
  <2>3. QED
    BY <2>1, <2>2
<1>6. Serve(next)
  BY DEF WriteEntity
<1> HIDE DEF next
<1>7. \A q \in Requests : Follows(req'[q], next[q])
  BY <1>5, <1>6, ServeRequests
<1>8. RequestsOK'
  BY <1>5, <1>6, <1>7, ServeRequests DEF RequestsOK, Follows, Shaped
<1>9. QED
  BY <1>3, <1>4, <1>7, <1>8

LEMMA MasterStepTyped ==
  ASSUME Typed, NEW r \in Requests, MasterStep(r)
  PROVE  Typed'
<1>1. CASE WriteEntity(r)
  <2>1. req[r].x \in Entities /\ FieldsAfter(r) \in Fields /\ RevealedAfter(r) \in BOOLEAN
        /\ req[r].keys \in SUBSET Keys
    BY <1>1, WriterTyped
  <2>2. FlagsOK'
    <3>1. CASE entity[req[r].x].here
      BY <1>1, <3>1, WriteRow
    <3>2. CASE ~ entity[req[r].x].here
      BY <1>1, <3>2 DEF WriteEntity, Typed, FlagsOK
    <3>3. QED
      BY <3>1, <3>2
  <2>3. RequestsOK'
    BY <1>1, WriteRequests
  <2>4. QED
    BY <1>1, <2>2, <2>3 DEF WriteEntity, Typed, TableOK, FilesOK, table, files
<1>2. ASSUME NEW f \in Files, WriteFile(r, f)
      PROVE  Typed'
  <2> DEFINE record == [req[r] EXCEPT !.at = "insert"]
  <2>1. req[r].x \in Entities
    BY <1>2 DEF WriteFile, At, Typed, RequestsOK, Shaped
  <2>2. record \in Request /\ Shaped(record)
    BY DEF Request, Shaped, Stages, Typed, RequestsOK
  <2>3. RequestsOK'
    BY <1>2, <2>2, PutRequests DEF WriteFile, Goto
  <2>4. QED
    BY <1>2, <2>1, <2>3 DEF WriteFile, Typed, TableOK, FilesOK, FlagsOK, table, flags
<1>3. ASSUME NEW f \in Files, InsertRow(r, f) \/ Unlink(r, f) \/ WriteIcon(r, f)
      PROVE  Typed'
  <2>1. RequestsOK'
    BY <1>3, IdleRequest, PutRequests DEF InsertRow, Unlink, WriteIcon, Finish
  <2>2. FilesOK'
    <3>1. req[r].op \in {"upload", "icon"} => req[r].x \in Entities
      BY DEF Typed, RequestsOK, Shaped
    <3>2. QED
      BY <1>3, <3>1 DEF InsertRow, Unlink, WriteIcon, At, Typed, FilesOK
  <2>3. QED
    BY <1>3, <2>1, <2>2 DEF InsertRow, Unlink, WriteIcon, Typed, TableOK, FlagsOK, table, flags
<1>4. QED
  BY <1>1, <1>2, <1>3 DEF MasterStep

LEMMA OthersTyped ==
  ASSUME Typed, (\E e \in Entities : Load(e) \/ DeleteEntity(e)) \/ Kill \/ UNCHANGED vars
  PROVE  Typed'
<1>1. NoFields \in Fields /\ NoNote \in NoteRow
  BY DEF NoFields, Fields, Flag, NoNote, NoteRow
<1>2. ASSUME NEW e \in Entities, Load(e)
      PROVE  Typed'
  <2>1. [fresh |-> TRUE, fields |-> entity[e].fields] \in [fresh : BOOLEAN, fields : Fields]
    BY DEF Typed, FlagsOK
  <2>2. QED
    BY <1>2, <2>1 DEF Load, Typed, TableOK, FilesOK, FlagsOK, RequestsOK, table, files
<1>3. ASSUME NEW e \in Entities, DeleteEntity(e)
      PROVE  Typed'
  <2>1. RequestsOK'
    BY <1>3, ServeRequests DEF DeleteEntity, Typed, RequestsOK, Follows, Shaped
  <2>2. Erased({n \in Notes : note[n].on = e}) \in [Notes -> NoteRow]
    BY <1>1 DEF Typed, TableOK, Erased
  <2>3. FlagsOK'
    BY <1>1, <1>3 DEF DeleteEntity, Gone, Typed, FlagsOK
  <2>4. FilesOK'
    BY <1>3 DEF DeleteEntity, Typed, FilesOK
  <2>5. QED
    BY <1>3, <2>1, <2>2, <2>3, <2>4 DEF DeleteEntity, Typed, TableOK
<1>4. CASE Kill
  BY <1>4, IdleRequest DEF Kill, Typed, TableOK, FilesOK, FlagsOK, RequestsOK, table, files, flags
<1>5. CASE UNCHANGED vars
  BY <1>5 DEF vars, Typed, TableOK, FilesOK, FlagsOK, RequestsOK, table, files, flags
<1>6. QED
  BY <1>2, <1>3, <1>4, <1>5

LEMMA TypedStep == Typed /\ [Next]_vars => Typed'
BY PlayerTyped, PlayerAsksTyped, InvitationTyped, MasterAsksTyped, MasterStepTyped, OthersTyped
DEF Next

(* Type correctness, for any number of players, entities and requests.     *)
THEOREM TypeCorrect == Spec => []TypeOK
<1>1. Spec => []Typed
  BY InitTyped, TypedStep, PTL DEF Spec
<1>2. QED
  BY <1>1, TypedIsTypeOK, PTL

-----------------------------------------------------------------------------
(* What players are sent *)
LEMMA InitAnswers == Init => AnswersInv
BY DEF Init, Idle, AnswersInv


LEMMA AnswersPut ==
  ASSUME Typed, AnswersInv, NEW r \in Requests, NEW record \in Request, Shaped(record),
         Put(r, record),
         record.who = None => record.answer = {},
         record.who # None => record.answer \cap (record.hidden \ Sight'[record.who]) = {}
  PROVE  AnswersInv'
<1>1. /\ Follows(req'[r], record)
      /\ \A q \in Requests \ {r} : Follows(req'[q], req[q])
      /\ record.who # None => req'[r].hidden = record.hidden \ Sight'[record.who]
  BY PutRequests
<1>2. ASSUME NEW q \in Requests \ {r}
      PROVE  req'[q].answer \cap req'[q].hidden = {} /\ (req'[q].who = None => req'[q].answer = {})
  BY <1>1 DEF AnswersInv, Follows
<1>3. req'[r].answer \cap req'[r].hidden = {} /\ (req'[r].who = None => req'[r].answer = {})
  BY <1>1 DEF Follows
<1>4. QED
  BY <1>2, <1>3 DEF AnswersInv

(* Rows that are as they were are seen as they were.                       *)
LEMMA SameSight ==
  ASSUME UNCHANGED <<table, flags>>, NEW p \in Players
  PROVE  Sight'[p] = Seeable(p)
BY DEF Sight, Seeable, Valid, Revealed, Readable, table, flags

(* What is added to an answer is what the player sees.                     *)
LEMMA AnswersAdded ==
  ASSUME Typed, AnswersInv, NEW r \in Requests, req[r].op \in PlayerOps,
         UNCHANGED <<table, flags>>, NEW at \in Stages, NEW things \in SUBSET Things,
         things \subseteq Seeable(req[r].who), Answering(r, at, things)
  PROVE  AnswersInv'
<1> DEFINE record == [req[r] EXCEPT !.at = at, !.answer = @ \cup things]
<1>1. /\ req[r] \in Request /\ Shaped(req[r]) /\ req[r].who \in Players
  BY DEF Typed, RequestsOK, Shaped
<1>2. /\ record \in Request /\ Shaped(record) /\ record.who = req[r].who
      /\ record.answer = req[r].answer \cup things /\ record.hidden = req[r].hidden
  BY <1>1 DEF Request, Shaped
<1>3. Put(r, record)
  BY DEF Answering
<1>4. Sight'[req[r].who] = Seeable(req[r].who)
  BY <1>1, SameSight
<1> HIDE DEF record
<1>5. record.answer \cap (record.hidden \ Sight'[record.who]) = {}
  BY <1>2, <1>4 DEF AnswersInv
<1>6. record.who # None
  BY <1>1, <1>2, PlayAssumption
<1>7. QED
  BY <1>2, <1>3, <1>5, <1>6, AnswersPut

(* A request that moves on without an answer, or ends.                     *)
LEMMA AnswersMoved ==
  ASSUME Typed, AnswersInv, NEW r \in Requests, NEW at \in Stages, Goto(r, at) \/ Finish(r)
  PROVE  AnswersInv'
<1>1. CASE Goto(r, at)
  <2> DEFINE record == [req[r] EXCEPT !.at = at]
  <2>1. record \in Request /\ Shaped(record) /\ record.who = req[r].who
        /\ record.answer = req[r].answer /\ record.hidden = req[r].hidden
    BY DEF Typed, RequestsOK, Request, Shaped
  <2>2. Put(r, record)
    BY <1>1 DEF Goto
  <2> HIDE DEF record
  <2>3. QED
    BY <2>1, <2>2, AnswersPut DEF AnswersInv
<1>2. CASE Finish(r)
  BY <1>2, IdleRequest, AnswersPut DEF Finish, Idle
<1>3. QED
  BY <1>1, <1>2

LEMMA AnswersRead ==
  ASSUME Typed, AnswersInv, NEW r \in Requests, PlayerStep(r)
  PROVE  AnswersInv'
<1> USE DEF Stages, PlayerOps
<1>1. \A at \in Stages : Goto(r, at) \/ Finish(r) => AnswersInv'
  BY AnswersMoved
<1>2. req[r].op \in PlayerOps => req[r].who \in Players
  BY DEF Typed, RequestsOK, Shaped
<1>3. CASE Look(r)
  <2> DEFINE things == UNION {ToPlayerEntity(e) : e \in {d \in Entities : Revealed(d)}}
  <2>1. things \subseteq Things
    BY ThingsTyped
  <2>2. things \subseteq Seeable(req[r].who)
    BY <1>2, <1>3, SeenThings DEF Look, At
  <2>3. Answering(r, "answered", things) /\ UNCHANGED <<table, flags>> /\ req[r].op \in PlayerOps
    BY <1>3 DEF Look, At
  <2> HIDE DEF things
  <2>4. QED
    BY <2>1, <2>2, <2>3, AnswersAdded
<1>4. CASE Notes1(r)
  <2>1. req[r].x \in Entities
    BY <1>4 DEF Notes1, At, Typed, RequestsOK, Shaped
  <2>2. CASE Revealed(req[r].x)
    BY <1>2, <1>4, <2>1, <2>2, ThingsTyped, SeenThings, AnswersAdded DEF Notes1, At
  <2>3. QED
    BY <1>1, <1>4, <2>2 DEF Notes1
<1>5. CASE Notes2(r)
  <2>1. req[r].x \in Entities
    BY <1>5 DEF Notes2, At, Typed, RequestsOK, Shaped
  <2>2. NotesAmong(VisibleNotes(req[r].x, req[r].who)) \subseteq Things
    BY ThingsTyped DEF VisibleNotes
  <2>3. NotesAmong(VisibleNotes(req[r].x, req[r].who)) \subseteq Seeable(req[r].who)
    BY <1>2, <1>5, <2>1, SeenThings DEF Notes2, At
  <2>4. QED
    BY <1>5, <2>2, <2>3, AnswersAdded DEF Notes2, At
<1>6. CASE GetFile(r)
  <2>1. ASSUME NEW e \in Entities, Revealed(e), Answering(r, "answered", {<<e>>})
        PROVE  AnswersInv'
    BY <1>2, <1>6, <2>1, ThingsTyped, SeenThings, AnswersAdded DEF GetFile, At
  <2>2. QED
    BY <1>1, <1>6, <2>1 DEF GetFile
<1>7. QED
  BY <1>1, <1>3, <1>4, <1>5, <1>6
  DEF PlayerStep, WriteNote1, WriteNote2, OwnNote1, OwnNote2, Answered

LEMMA AnswersAsked ==
  ASSUME Typed, AnswersInv, NEW r \in Requests, NEW p \in Players, PlayerAsks(r, p)
  PROVE  AnswersInv'
<1>1. PICK op, x : Ask(r, op, p, x)
  BY DEF PlayerAsks
<1> DEFINE record == [Idle EXCEPT !.op = op, !.at = "seen", !.who = p, !.x = x,
                        !.answer = Session, !.hidden = Session \cup AnswerOf(op, x)]
<1>2. Put(r, record) /\ Valid(p) /\ UNCHANGED <<table, flags>>
  BY <1>1 DEF Ask, Begin
<1>3. req' \in [Requests -> Request]
  BY PlayerAsksTyped DEF Typed, RequestsOK
<1>4. /\ record.who = p /\ record.answer = Session
      /\ record.hidden = Session \cup AnswerOf(op, x)
  BY DEF Idle
<1>5. /\ req'[r] = [record EXCEPT !.hidden = record.hidden \ Sight'[p]]
      /\ \A q \in Requests \ {r} :
           req'[q] = IF req[q].who = None THEN req[q]
                     ELSE [req[q] EXCEPT !.hidden = @ \ Sight'[req[q].who]]
  BY <1>2, <1>4, PlayAssumption DEF Put, Serve, Typed, RequestsOK
<1>6. Session \subseteq Sight'[p]
  BY <1>2, SameSight, SeenThings
<1>7. req'[r].answer = Session /\ req'[r].hidden = record.hidden \ Sight'[p] /\ req'[r].who = p
  BY <1>4, <1>5 DEF Idle
<1> HIDE DEF record
<1>8. ASSUME NEW q \in Requests \ {r}
      PROVE  req'[q].answer \cap req'[q].hidden = {} /\ (req'[q].who = None => req'[q].answer = {})
  BY <1>5 DEF AnswersInv, Typed, RequestsOK, Request
<1>9. QED
  BY <1>6, <1>7, <1>8, PlayAssumption DEF AnswersInv

(* Nobody else answers a player.                                           *)
LEMMA AnswersOfOthers ==
  ASSUME AnswersInv,
         \A q \in Requests :
           \/ req'[q].answer = {}
           \/ /\ req'[q].answer = req[q].answer /\ req'[q].who = req[q].who
              /\ req'[q].hidden \subseteq req[q].hidden
  PROVE  AnswersInv'
BY DEF AnswersInv

LEMMA AnswersStep == Typed /\ AnswersInv /\ [Next]_vars => AnswersInv'
<1> SUFFICES ASSUME Typed, AnswersInv, [Next]_vars PROVE AnswersInv'
  OBVIOUS
<1>1. ASSUME NEW r \in Requests, NEW record, record.who = None, record.answer = {}, Put(r, record)
      PROVE  AnswersInv'
  BY <1>1, MasterPut, AnswersOfOthers DEF Follows
<1>2. ASSUME Serve(req) PROVE AnswersInv'
  BY <1>2, ServeRequests, AnswersOfOthers DEF Follows, Typed, RequestsOK
<1>3. ASSUME NEW r \in Requests, MasterAsks(r)
      PROVE  AnswersInv'
  <2>1. CASE \E e \in Entities : EditorSaves(r, e)
    BY <1>1, <2>1 DEF EditorSaves, Begin, Idle
  <2>2. ASSUME NEW op, NEW e, NEW revealed, NEW keys, Read(r, op, e, revealed, keys)
        PROVE  AnswersInv'
    BY <1>1, <2>2 DEF Read, Begin, Idle
  <2>3. CASE \E e \in Entities, f \in Files : Upload(r, e, f)
    BY <1>1, <2>3 DEF Upload, Begin, Idle
  <2>4. CASE \E e \in Entities, f \in Files : SetIcon(r, e, f)
    BY <1>1, <2>4 DEF SetIcon, Begin, Idle
  <2>5. CASE \E f \in Files : DeleteRow(r, f)
    BY <1>1, <2>5 DEF DeleteRow, Idle
  <2>6. QED
    BY <1>3, <2>1, <2>2, <2>3, <2>4, <2>5 DEF MasterAsks, AgentPatches, PanelSaves, Toggles
<1>4. ASSUME NEW r \in Requests, MasterStep(r)
      PROVE  AnswersInv'
  <2>1. CASE WriteEntity(r)
    <3>1. ASSUME NEW q \in Requests \ {r}
          PROVE  req'[q].answer = req[q].answer /\ req'[q].who = req[q].who
                 /\ req'[q].hidden \subseteq req[q].hidden
      <4>1. PICK s \in {req[q], [req[q] EXCEPT !.fresh = FALSE]} : Follows(req'[q], s)
        BY <2>1, WriteRequests
      <4>2. s.answer = req[q].answer /\ s.who = req[q].who /\ s.hidden = req[q].hidden
        BY DEF Typed, RequestsOK, Request
      <4>3. QED
        BY <4>1, <4>2 DEF Follows
    <3>2. req'[r].answer = {}
      BY <2>1, WriteRequests DEF Follows, Idle
    <3>3. QED
      BY <3>1, <3>2, AnswersOfOthers
  <2>2. CASE \E f \in Files : WriteFile(r, f) \/ InsertRow(r, f) \/ Unlink(r, f) \/ WriteIcon(r, f)
    BY <2>2, AnswersMoved DEF WriteFile, InsertRow, Unlink, WriteIcon, Stages
  <2>3. QED
    BY <1>4, <2>1, <2>2 DEF MasterStep
<1>5. ASSUME NEW p \in Players,
             Rotate(p) \/ Revoke(p) \/ DeletePlayer(p) \/ StartSession(p) \/ EndSession(p)
      PROVE  AnswersInv'
  BY <1>2, <1>5 DEF Rotate, Revoke, DeletePlayer, StartSession, EndSession
<1>6. ASSUME NEW e \in Entities, Load(e) \/ DeleteEntity(e)
      PROVE  AnswersInv'
  BY <1>2, <1>6 DEF Load, DeleteEntity, AnswersInv
<1>7. CASE Kill
  BY <1>7 DEF Kill, Idle, AnswersInv
<1>8. CASE UNCHANGED vars
  BY <1>8 DEF vars, AnswersInv
<1>9. QED
  BY <1>3, <1>4, <1>5, <1>6, <1>7, <1>8, AnswersRead, AnswersAsked DEF Next

(* For any number of players, entities, notes and files, and any number of  *)
(* requests served at a time: an answer holds nothing that its player could *)
(* not see at some moment since asking.                                    *)
THEOREM AnswersHold == Spec => []AnswersWereVisible
<1>1. Typed /\ AnswersInv => AnswersWereVisible
  BY DEF AnswersInv, AnswersWereVisible
<1>2. QED
  BY <1>1, InitTyped, TypedStep, InitAnswers, AnswersStep, PTL DEF Spec

-----------------------------------------------------------------------------
(* What players see *)
LEMMA InitFlags == Init => FlagsInv
<1> SUFFICES ASSUME Init PROVE FlagsInv
  OBVIOUS
<1>1. \A e \in Entities : Shown(entity[e].fields) = {} /\ chosen[e] = {}
  BY DEF Init, Shown
<1>2. \A e \in Entities : page[e].fields = NoFields
  BY DEF Init
<1>3. \A r \in Requests : req[r].op \notin Writers
  BY DEF Init, Idle, Writers
<1>4. QED
  BY <1>1, <1>2, <1>3 DEF FlagsInv, FlagsFollowTheGameMaster

(* A step that leaves rows and the editor alone, and no new writer.        *)
LEMMA FlagsQuiet ==
  ASSUME Typed, FlagsInv, UNCHANGED flags,
         \A q \in Requests : req'[q].op \notin Writers \/ Follows(req'[q], req[q])
  PROVE  FlagsInv'
<1>1. FlagsFollowTheGameMaster'
  BY DEF flags, FlagsInv, FlagsFollowTheGameMaster
<1>2. (\A e \in Entities :
         page[e].fresh /\ page[e].fields # NoFields => page[e].fields = entity[e].fields)'
  BY DEF flags, FlagsInv
<1>3. ASSUME NEW q \in Requests, req'[q].op \in Writers, req'[q].fresh,
             entity'[req'[q].x].here
      PROVE  Current(req'[q], entity'[req'[q].x].fields)
  BY <1>3 DEF flags, FlagsInv, Follows, Current
<1>4. QED
  BY <1>1, <1>2, <1>3 DEF FlagsInv

(* The flags that each way of writing leaves.                              *)
LEMMA FlagsWritten ==
  ASSUME NEW fields \in Fields, NEW keys \in SUBSET Keys
  PROVE  /\ Shown(Viewed(fields, keys)) = Present(Viewed(fields, keys)) \cap keys
         /\ Shown(Patched(fields, keys)) = Shown(fields)
         /\ Shown(fields) \subseteq Present(Patched(fields, keys))
<1> USE DEF Fields, Flag
<1>1. Shown(Viewed(fields, keys)) = Present(Viewed(fields, keys)) \cap keys
  BY DEF Shown, Present, Viewed
<1>2. Shown(Patched(fields, keys)) = Shown(fields)
  BY DEF Shown, Patched
<1>3. Shown(fields) \subseteq Present(Patched(fields, keys))
  BY DEF Shown, Present, Patched
<1>4. QED
  BY <1>1, <1>2, <1>3

LEMMA FlagsNewWriter ==
  ASSUME Typed, FlagsInv, UNCHANGED flags, NEW r \in Requests, NEW record, record.who = None,
         Put(r, record), record.fresh => Current(record, entity[record.x].fields)
  PROVE  FlagsInv'
<1>1. req'[r] = record /\ \A q \in Requests \ {r} : Follows(req'[q], req[q])
  BY MasterPut
<1>2. FlagsFollowTheGameMaster'
  BY DEF flags, FlagsInv, FlagsFollowTheGameMaster
<1>3. (\A e \in Entities :
         page[e].fresh /\ page[e].fields # NoFields => page[e].fields = entity[e].fields)'
  BY DEF flags, FlagsInv
<1>4. ASSUME NEW q \in Requests, req'[q].op \in Writers, req'[q].fresh,
             entity'[req'[q].x].here
      PROVE  Current(req'[q], entity'[req'[q].x].fields)
  <2>1. CASE q = r
    BY <1>1, <1>4, <2>1 DEF flags
  <2>2. CASE q # r
    BY <1>1, <1>4, <2>2 DEF flags, FlagsInv, Follows, Current
  <2>3. QED
    BY <2>1, <2>2
<1>5. QED
  BY <1>2, <1>3, <1>4 DEF FlagsInv

(* A writer begins with the row, or with what the editor has of it.        *)
LEMMA FlagsBegin ==
  ASSUME Typed, FlagsInv, NEW r \in Requests, NEW e \in Entities,
         EditorSaves(r, e) \/ AgentPatches(r, e) \/ PanelSaves(r, e) \/ Toggles(r, e)
  PROVE  FlagsInv'
<1>1. UNCHANGED flags
  BY DEF EditorSaves, AgentPatches, PanelSaves, Toggles, Read
<1>2. ASSUME NEW op \in {"patch", "view"}, NEW revealed, NEW keys,
             Read(r, op, e, revealed, keys)
      PROVE  FlagsInv'
  <2> DEFINE record == [Idle EXCEPT !.op = op, !.at = "write", !.x = e,
                          !.read = entity[e].fields, !.revealed = revealed, !.keys = keys]
  <2>1. record.who = None /\ record.op = op /\ record.x = e /\ record.read = entity[e].fields
    BY DEF Idle
  <2>2. Put(r, record)
    BY <1>2 DEF Read, Begin
  <2> HIDE DEF record
  <2>3. QED
    BY <1>1, <2>1, <2>2, FlagsNewWriter DEF Current
<1>3. CASE EditorSaves(r, e)
  <2>1. PICK keys \in SUBSET Keys :
          /\ page[e].fields # NoFields
          /\ Begin(r, [Idle EXCEPT !.op = "save", !.at = "write", !.x = e, !.fresh = EditorFresh(e),
               !.read = [k \in Keys |-> CASE k \notin keys -> "none"
                                          [] page[e].fields[k] = "none" -> "hidden"
                                          [] OTHER -> page[e].fields[k]]])
    BY <1>3 DEF EditorSaves
  <2> DEFINE read == [k \in Keys |-> CASE k \notin keys -> "none"
                                       [] page[e].fields[k] = "none" -> "hidden"
                                       [] OTHER -> page[e].fields[k]]
             record == [Idle EXCEPT !.op = "save", !.at = "write", !.x = e,
                                    !.fresh = EditorFresh(e), !.read = read]
  <2>2. Shown(read) = Shown(page[e].fields) \cap Present(read)
    BY DEF Shown, Present
  <2>3. page[e].fresh => page[e].fields = entity[e].fields
    BY <2>1 DEF FlagsInv
  <2>4. Put(r, record)
    BY <2>1 DEF Begin
  <2> HIDE DEF read
  <2>5. /\ record.who = None /\ record.op = "save" /\ record.x = e /\ record.read = read
        /\ record.fresh <=> page[e].fresh
    BY DEF Idle, EditorFresh
  <2> HIDE DEF record
  <2>6. QED
    BY <1>1, <2>2, <2>3, <2>4, <2>5, FlagsNewWriter DEF Current
<1>4. QED
  BY <1>2, <1>3 DEF AgentPatches, PanelSaves, Toggles

(* A write: of a writer that is current it leaves the game master's choice, *)
(* and the writers and the editor that worked from the row before it are   *)
(* no longer current.                                                      *)
LEMMA FlagsWrite ==
  ASSUME Typed, FlagsInv, NEW r \in Requests, WriteEntity(r)
  PROVE  FlagsInv'
<1> DEFINE e == req[r].x
           F == FieldsAfter(r)
<1>1. /\ req[r].op \in Writers /\ e \in Entities /\ req[r].read \in Fields
      /\ req[r].keys \in SUBSET Keys
  BY WriterTyped
<1>2. /\ req'[r].op \notin Writers
      /\ \A q \in Requests \ {r} :
           /\ req'[q].x = req[q].x /\ req'[q].op = req[q].op /\ req'[q].read = req[q].read
           /\ req'[q].fresh <=> req[q].fresh /\ ~ (req[q].x = e /\ req[q].op \in Writers)
  <2>1. req'[r].op \notin Writers
    BY WriteRequests DEF Follows, Idle, Writers
  <2>2. ASSUME NEW q \in Requests \ {r}
        PROVE  /\ req'[q].x = req[q].x /\ req'[q].op = req[q].op /\ req'[q].read = req[q].read
               /\ req'[q].fresh <=> req[q].fresh /\ ~ (req[q].x = e /\ req[q].op \in Writers)
    <3>1. req[q] \in Request
      BY DEF Typed, RequestsOK
    <3>2. CASE req[q].x = e /\ req[q].op \in Writers
      <4>1. Follows(req'[q], [req[q] EXCEPT !.fresh = FALSE])
        BY <3>2, WriteRequests
      <4>2. QED
        BY <3>1, <3>2, <4>1 DEF Follows, Request
    <3>3. CASE ~ (req[q].x = e /\ req[q].op \in Writers)
      <4>1. Follows(req'[q], req[q])
        BY <3>3, WriteRequests
      <4>2. QED
        BY <3>3, <4>1 DEF Follows
    <3>4. QED
      BY <3>2, <3>3
  <2>3. QED
    BY <2>1, <2>2
<1>3. CASE ~ entity[e].here
  <2>1. UNCHANGED flags
    BY <1>3 DEF WriteEntity, flags
  <2>2. FlagsFollowTheGameMaster'
    BY <2>1 DEF flags, FlagsInv, FlagsFollowTheGameMaster
  <2>3. (\A d \in Entities :
           page[d].fresh /\ page[d].fields # NoFields => page[d].fields = entity[d].fields)'
    BY <2>1 DEF flags, FlagsInv
  <2>4. \A q \in Requests : req'[q].op \in Writers /\ req'[q].fresh /\ entity'[req'[q].x].here =>
          Current(req'[q], entity'[req'[q].x].fields)
    BY <1>2, <2>1 DEF flags, FlagsInv, Current
  <2>5. QED
    BY <2>2, <2>3, <2>4 DEF FlagsInv
<1>4. CASE entity[e].here
  <2>1. /\ FlagsOK' /\ entity'[e].fields = F /\ (entity'[e].here <=> entity[e].here)
        /\ page'[e].fields = page[e].fields
        /\ page'[e].fresh => page[e].fresh /\ F = page[e].fields
        /\ chosen'[e] = Present(F) \cap IF req[r].op = "view" THEN req[r].keys ELSE chosen[e]
        /\ muddled' = IF ~ req[r].fresh THEN muddled \cup {e}
                      ELSE IF req[r].op = "view" THEN muddled \ {e} ELSE muddled
        /\ \A d \in Entities \ {e} :
             entity'[d] = entity[d] /\ page'[d] = page[d] /\ chosen'[d] = chosen[d]
    BY <1>4, WriteRow
  <2>2. ASSUME e \notin muddled'
        PROVE  Shown(F) = chosen'[e]
    <3>1. req[r].fresh
      BY <2>1, <2>2
    <3>2. Current(req[r], entity[e].fields)
      BY <1>1, <1>4, <3>1 DEF FlagsInv
    <3>3. CASE req[r].op = "view"
      <4>1. F = Viewed(req[r].read, req[r].keys)
        BY <3>2, <3>3 DEF FieldsAfter, Written, Current
      <4>2. QED
        BY <1>1, <2>1, <3>3, <4>1, FlagsWritten
    <3>4. CASE req[r].op # "view"
      <4>1. Shown(entity[e].fields) = chosen[e]
        BY <1>1, <1>4, <2>1, <2>2, <3>1, <3>4 DEF FlagsInv, FlagsFollowTheGameMaster
      <4>2. CASE req[r].op = "save"
        <5>1. F = req[r].read /\ Shown(F) = chosen[e] \cap Present(F)
          BY <3>2, <4>1, <4>2 DEF FieldsAfter, Written, Current
        <5>2. QED
          BY <2>1, <3>4, <5>1
      <4>3. CASE req[r].op = "patch"
        <5>1. F = Patched(entity[e].fields, req[r].keys) /\ entity[e].fields \in Fields
          BY <1>1, <3>2, <4>3 DEF FieldsAfter, Written, Current
        <5>2. QED
          BY <1>1, <2>1, <3>4, <4>1, <5>1, FlagsWritten
      <4>4. QED
        BY <1>1, <3>4, <4>2, <4>3 DEF Writers
    <3>5. QED
      BY <3>3, <3>4
  <2>3. FlagsFollowTheGameMaster'
    <3>1. ASSUME NEW d \in Entities \ {e}, d \notin muddled', entity'[d].here
          PROVE  Shown(entity'[d].fields) = chosen'[d]
      BY <2>1, <3>1 DEF FlagsInv, FlagsFollowTheGameMaster
    <3>2. QED
      BY <1>1, <2>1, <2>2, <3>1 DEF FlagsFollowTheGameMaster
  <2>4. (\A d \in Entities :
           page[d].fresh /\ page[d].fields # NoFields => page[d].fields = entity[d].fields)'
    BY <1>1, <2>1 DEF FlagsInv
  <2>5. ASSUME NEW q \in Requests, req'[q].op \in Writers, req'[q].fresh,
               entity'[req'[q].x].here
        PROVE  Current(req'[q], entity'[req'[q].x].fields)
    <3>1. q # r /\ req[q].op \in Writers /\ req[q].fresh /\ req[q].x # e
      BY <1>2, <2>5
    <3>2. req[q].x \in Entities
      BY <3>1 DEF Typed, RequestsOK, Shaped
    <3>3. entity'[req[q].x] = entity[req[q].x]
      BY <2>1, <3>1, <3>2
    <3>4. Current(req[q], entity[req[q].x].fields)
      BY <1>2, <2>5, <3>1, <3>3 DEF FlagsInv
    <3>5. QED
      BY <1>2, <3>1, <3>3, <3>4 DEF Current
  <2>6. QED
    BY <2>3, <2>4, <2>5 DEF FlagsInv
<1>5. QED
  BY <1>3, <1>4

(* The editor is refreshed, or the entity goes.                            *)
LEMMA FlagsOfEntity ==
  ASSUME Typed, FlagsInv, NEW e \in Entities, Load(e) \/ DeleteEntity(e)
  PROVE  FlagsInv'
<1>1. CASE Load(e)
  BY <1>1 DEF Load, Typed, FlagsOK, FlagsInv, FlagsFollowTheGameMaster, Current
<1>2. CASE DeleteEntity(e)
  <2>1. /\ ~ entity'[e].here /\ page'[e].fields = NoFields
        /\ \A d \in Entities \ {e} :
             /\ entity'[d] = entity[d] /\ page'[d] = page[d] /\ chosen'[d] = chosen[d]
             /\ d \in muddled' <=> d \in muddled
    BY <1>2 DEF DeleteEntity, Gone, Typed, FlagsOK
  <2>2. \A q \in Requests : Follows(req'[q], req[q])
    BY <1>2, ServeRequests DEF DeleteEntity, Typed, RequestsOK
  <2>3. FlagsFollowTheGameMaster'
    BY <2>1 DEF FlagsInv, FlagsFollowTheGameMaster
  <2>4. (\A d \in Entities :
           page[d].fresh /\ page[d].fields # NoFields => page[d].fields = entity[d].fields)'
    <3>1. ASSUME NEW d \in Entities, page'[d].fresh, page'[d].fields # NoFields
          PROVE  page'[d].fields = entity'[d].fields
      BY <2>1, <3>1 DEF FlagsInv
    <3>2. QED
      BY <3>1 DEF NoFields
  <2>5. ASSUME NEW q \in Requests, req'[q].op \in Writers, req'[q].fresh,
               entity'[req'[q].x].here
        PROVE  Current(req'[q], entity'[req'[q].x].fields)
    <3>1. req[q].x \in Entities \ {e}
      BY <2>1, <2>2, <2>5 DEF Follows, Typed, RequestsOK, Shaped
    <3>2. QED
      BY <2>1, <2>2, <2>5, <3>1 DEF FlagsInv, Follows, Current
  <2>6. QED
    BY <2>3, <2>4, <2>5 DEF FlagsInv
<1>3. QED
  BY <1>1, <1>2

LEMMA FlagsStep == Typed /\ FlagsInv /\ [Next]_vars => FlagsInv'
<1> SUFFICES ASSUME Typed, FlagsInv, [Next]_vars PROVE FlagsInv'
  OBVIOUS
<1>1. ASSUME UNCHANGED flags, NEW r \in Requests, PlayersOwn(r)
      PROVE  FlagsInv'
  BY <1>1, FlagsQuiet DEF PlayersOwn, PlayerOps, Writers
<1>2. ASSUME NEW r \in Requests, PlayerStep(r)
      PROVE  FlagsInv'
  <2>1. UNCHANGED flags
    BY <1>2 DEF PlayerStep, Look, Notes1, Notes2, GetFile, WriteNote1, WriteNote2, OwnNote1,
                OwnNote2, Answered
  <2>2. QED
    BY <1>1, <1>2, <2>1, PlayerTyped
<1>3. ASSUME NEW r \in Requests, NEW p \in Players, PlayerAsks(r, p)
      PROVE  FlagsInv'
  <2>1. UNCHANGED flags
    BY <1>3 DEF PlayerAsks, Ask
  <2>2. QED
    BY <1>1, <1>3, <2>1, PlayerAsksTyped
<1>4. ASSUME UNCHANGED flags, NEW r \in Requests, NEW record, Put(r, record),
             record.who = None, record.op \notin Writers
      PROVE  FlagsInv'
  BY <1>4, MasterPut, FlagsQuiet
<1>5. ASSUME NEW r \in Requests, MasterAsks(r)
      PROVE  FlagsInv'
  <2> USE DEF Writers, Idle
  <2>1. CASE \E e \in Entities, f \in Files : Upload(r, e, f)
    BY <1>4, <2>1 DEF Upload, Begin
  <2>2. CASE \E e \in Entities, f \in Files : SetIcon(r, e, f)
    BY <1>4, <2>2 DEF SetIcon, Begin
  <2>3. CASE \E f \in Files : DeleteRow(r, f)
    BY <1>4, <2>3 DEF DeleteRow
  <2>4. QED
    BY <1>5, <2>1, <2>2, <2>3, FlagsBegin DEF MasterAsks
<1>6. ASSUME NEW r \in Requests, MasterStep(r)
      PROVE  FlagsInv'
  <2>1. ASSUME NEW f \in Files, WriteFile(r, f)
        PROVE  FlagsInv'
    <3> DEFINE record == [req[r] EXCEPT !.at = "insert"]
    <3>1. record \in Request /\ Shaped(record) /\ record.op = "upload"
      BY <2>1 DEF WriteFile, At, Typed, RequestsOK, Request, Shaped, Stages
    <3>2. Put(r, record) /\ UNCHANGED flags
      BY <2>1 DEF WriteFile, Goto
    <3> HIDE DEF record
    <3>3. QED
      BY <3>1, <3>2, PutRequests, FlagsQuiet DEF Follows, Writers
  <2>2. ASSUME NEW f \in Files, InsertRow(r, f) \/ Unlink(r, f) \/ WriteIcon(r, f)
        PROVE  FlagsInv'
    BY <1>4, <2>2 DEF InsertRow, Unlink, WriteIcon, Finish, Idle, Writers
  <2>3. QED
    BY <1>6, <2>1, <2>2, FlagsWrite DEF MasterStep
<1>7. ASSUME NEW p \in Players,
             Rotate(p) \/ Revoke(p) \/ DeletePlayer(p) \/ StartSession(p) \/ EndSession(p)
      PROVE  FlagsInv'
  <2>1. Serve(req) /\ UNCHANGED flags
    BY <1>7 DEF Rotate, Revoke, DeletePlayer, StartSession, EndSession
  <2>2. QED
    BY <2>1, ServeRequests, FlagsQuiet DEF Typed, RequestsOK
<1>8. CASE Kill
  <2>1. UNCHANGED flags /\ \A q \in Requests : req'[q].op \notin Writers
    BY <1>8 DEF Kill, Idle, Writers
  <2>2. QED
    BY <2>1, FlagsQuiet
<1>9. CASE UNCHANGED vars
  <2>1. UNCHANGED flags /\ UNCHANGED req
    BY <1>9 DEF vars
  <2>2. QED
    BY <2>1, FlagsQuiet DEF Follows, Typed, RequestsOK
<1>10. QED
  BY <1>2, <1>3, <1>5, <1>6, <1>7, <1>8, <1>9, FlagsOfEntity DEF Next

(* For any entities, keys and requests: what players see of an entity is    *)
(* what the game master last chose, unless a writer has worked from a copy  *)
(* that was out of date.                                                   *)
THEOREM FlagsHold == Spec => []FlagsFollowTheGameMaster
<1>1. Typed /\ FlagsInv => FlagsFollowTheGameMaster
  BY DEF FlagsInv
<1>2. QED
  BY <1>1, InitTyped, TypedStep, InitFlags, FlagsStep, PTL DEF Spec

-----------------------------------------------------------------------------
(* Rows and files *)
LEMMA InitFiles == Init => FilesInv
<1> SUFFICES ASSUME Init PROVE FilesInv
  OBVIOUS
<1>1. \A r \in Requests, f \in Files : ~ Names(r, f)
  BY DEF Init, Idle, Names
<1>2. RowsHaveFiles
  BY DEF Init, RowsHaveFiles
<1>3. QED
  BY <1>1, <1>2 DEF FilesInv

(* A step after which no request names a file it did not name, no row has   *)
(* come and no file has changed under the uploads that remain.             *)
LEMMA FilesOthers ==
  ASSUME FilesInv, RowsHaveFiles',
         \A q \in Requests :
           \/ req'[q].op \notin {"upload", "unlink", "icon"}
           \/ /\ req'[q].op = req[q].op /\ req'[q].at = req[q].at
              /\ req'[q].x = req[q].x /\ req'[q].keys = req[q].keys,
         \A q \in Requests, f \in Files : Names(q, f)' =>
           /\ attach'[f] \in {None, attach[f]}
           /\ req[q].op = "upload" => file'[f] = file[f]
  PROVE  FilesInv'
<1>1. \A q \in Requests, f \in Files : Names(q, f)' =>
        /\ Names(q, f) /\ req'[q].op = req[q].op
        /\ req'[q].at = req[q].at /\ req'[q].x = req[q].x
  BY DEF Names
<1>2. QED
  BY <1>1 DEF FilesInv, Agrees

(* A step that leaves files and their rows alone, and names no file.       *)
LEMMA FilesQuiet ==
  ASSUME Typed, FilesInv, UNCHANGED files,
         \A e \in Entities : entity'[e].here <=> entity[e].here,
         \A q \in Requests :
           \/ req'[q].op \notin {"upload", "unlink", "icon"}
           \/ /\ req'[q].op = req[q].op /\ req'[q].at = req[q].at
              /\ req'[q].x = req[q].x /\ req'[q].keys = req[q].keys
  PROVE  FilesInv'
<1>1. RowsHaveFiles'
  BY DEF files, FilesInv, RowsHaveFiles, Typed, FilesOK
<1>2. QED
  BY <1>1, FilesOthers DEF files

(* A request that names a file nobody else names.                          *)
LEMMA FilesNamed ==
  ASSUME Typed, FilesInv, RowsHaveFiles', NEW r \in Requests, NEW f \in Files,
         Names(r, f)',
         \A q \in Requests \ {r} : Follows(req'[q], req[q]),
         req'[r].op = "upload" => \A q \in Requests \ {r} : ~ Names(q, f),
         req'[r].op # "upload" =>
           \A q \in Requests \ {r} : Names(q, f) => req[q].op # "upload",
         \A g \in Files \ {f} : file'[g] = file[g] /\ attach'[g] = attach[g],
         Agrees(r, f)',
         attach'[f] \in {None, attach[f]}
  PROVE  FilesInv'
<1>1. \A q \in Requests \ {r}, g \in Files : Names(q, g)' =>
        /\ Names(q, g) /\ req'[q].op = req[q].op
        /\ req'[q].at = req[q].at /\ req'[q].x = req[q].x
  BY DEF Names, Follows
<1>2. \A g \in Files : Names(r, g)' => g = f
  BY DEF Names
<1>3. ASSUME NEW q \in Requests, NEW g \in Files, Names(q, g)'
      PROVE  Agrees(q, g)'
  <2>1. CASE q = r
    BY <1>2, <1>3, <2>1
  <2>2. CASE q # r /\ g # f
    BY <1>1, <1>3, <2>2 DEF FilesInv, Agrees
  <2>3. CASE q # r /\ g = f
    <3>1. req[q].op \in {"unlink", "icon"} /\ Names(q, f)
      BY <1>1, <1>3, <2>3 DEF Names
    <3>2. QED
      BY <1>1, <1>3, <2>3, <3>1 DEF FilesInv, Agrees
  <2>4. QED
    BY <2>1, <2>2, <2>3
<1>4. ASSUME NEW p \in Requests, NEW q \in Requests, NEW g \in Files,
             Names(p, g)', Names(q, g)', req'[p].op = "upload"
      PROVE  p = q
  <2>1. CASE p # r /\ q # r
    BY <1>1, <1>4, <2>1 DEF FilesInv
  <2>2. CASE p = r /\ q # r
    BY <1>1, <1>2, <1>4, <2>2
  <2>3. CASE p # r /\ q = r
    BY <1>1, <1>2, <1>4, <2>3
  <2>4. QED
    BY <1>4, <2>1, <2>2, <2>3
<1>5. QED
  BY <1>3, <1>4 DEF FilesInv

LEMMA FilesAsked ==
  ASSUME Typed, FilesInv, NEW r \in Requests, MasterAsks(r)
  PROVE  FilesInv'
<1>1. ASSUME NEW record, record.who = None, Put(r, record), record.op \in Writers,
             UNCHANGED <<files, entity>>
      PROVE  FilesInv'
  <2>1. req'[r] = record /\ \A q \in Requests \ {r} : Follows(req'[q], req[q])
    BY <1>1, MasterPut
  <2>2. QED
    BY <1>1, <2>1, FilesQuiet DEF Follows, Writers
<1>2. CASE \E e \in Entities : EditorSaves(r, e)
  BY <1>1, <1>2 DEF EditorSaves, Begin, Idle, Writers, flags
<1>3. ASSUME NEW op \in {"patch", "view"}, NEW e, NEW revealed, NEW keys,
             Read(r, op, e, revealed, keys)
      PROVE  FilesInv'
  BY <1>1, <1>3 DEF Read, Begin, Idle, Writers, flags
<1>4. ASSUME NEW e \in Entities, NEW f \in Files, Upload(r, e, f)
      PROVE  FilesInv'
  <2> DEFINE record == [Idle EXCEPT !.op = "upload", !.at = "write", !.x = e, !.keys = {f}]
  <2>1. record.who = None /\ record.op = "upload" /\ record.at = "write" /\ record.keys = {f}
    BY DEF Idle
  <2>2. Put(r, record)
    BY <1>4 DEF Upload, Begin
  <2> HIDE DEF record
  <2>3. req'[r] = record /\ \A q \in Requests \ {r} : Follows(req'[q], req[q])
    BY <2>1, <2>2, MasterPut
  <2>4. UNCHANGED <<file, attach, icon, entity>> /\ attach[f] = None
        /\ \A q \in Requests : ~ Names(q, f)
    BY <1>4 DEF Upload, files, flags
  <2>5. RowsHaveFiles' /\ Names(r, f)' /\ Agrees(r, f)'
    BY <2>1, <2>3, <2>4 DEF FilesInv, RowsHaveFiles, Names, Agrees
  <2>6. QED
    BY <2>1, <2>3, <2>4, <2>5, FilesNamed
<1>5. ASSUME NEW e \in Entities, NEW f \in Files, SetIcon(r, e, f)
      PROVE  FilesInv'
  <2> DEFINE record == [Idle EXCEPT !.op = "icon", !.at = "write", !.x = e, !.keys = {f}]
  <2>1. record.who = None /\ record.op = "icon" /\ record.x = e /\ record.keys = {f}
    BY DEF Idle
  <2>2. Put(r, record)
    BY <1>5 DEF SetIcon, Begin
  <2> HIDE DEF record
  <2>3. req'[r] = record /\ \A q \in Requests \ {r} : Follows(req'[q], req[q])
    BY <2>1, <2>2, MasterPut
  <2>4. UNCHANGED <<file, attach, icon, entity>> /\ attach[f] = e
    BY <1>5 DEF SetIcon, files, flags
  <2>5. RowsHaveFiles' /\ Names(r, f)' /\ Agrees(r, f)'
    BY <2>1, <2>3, <2>4 DEF FilesInv, RowsHaveFiles, Names, Agrees
  <2>6. \A q \in Requests : Names(q, f) => req[q].op # "upload"
    BY <2>4, PlayAssumption DEF FilesInv, Agrees
  <2>7. QED
    BY <2>1, <2>3, <2>4, <2>5, <2>6, FilesNamed
<1>6. ASSUME NEW f \in Files, DeleteRow(r, f)
      PROVE  FilesInv'
  <2> DEFINE record == [Idle EXCEPT !.op = "unlink", !.at = "unlink", !.keys = {f}]
  <2>1. record.who = None /\ record.op = "unlink" /\ record.keys = {f}
    BY DEF Idle
  <2>2. Put(r, record)
    BY <1>6 DEF DeleteRow
  <2> HIDE DEF record
  <2>3. req'[r] = record /\ \A q \in Requests \ {r} : Follows(req'[q], req[q])
    BY <2>1, <2>2, MasterPut
  <2>4. /\ attach[f] # None /\ attach' = [attach EXCEPT ![f] = None]
        /\ icon' = [e \in Entities |-> IF icon[e] = f THEN None ELSE icon[e]]
        /\ UNCHANGED <<file, entity>>
    BY <1>6 DEF DeleteRow, flags
  <2>5. attach'[f] = None /\ \A g \in Files \ {f} : attach'[g] = attach[g]
    BY <2>4 DEF Typed, FilesOK
  <2>6. RowsHaveFiles'
    <3>1. \A g \in Files : attach'[g] # None => file'[g] = attach'[g] /\ entity'[attach'[g]].here
      BY <2>4, <2>5 DEF FilesInv, RowsHaveFiles
    <3>2. \A e \in Entities : icon'[e] # None => attach'[icon'[e]] = e
      BY <2>4, <2>5 DEF FilesInv, RowsHaveFiles, Typed, FilesOK
    <3>3. QED
      BY <3>1, <3>2 DEF RowsHaveFiles
  <2>7. Names(r, f)' /\ Agrees(r, f)'
    BY <2>1, <2>3, <2>5 DEF Names, Agrees
  <2>8. \A q \in Requests : Names(q, f) => req[q].op # "upload"
    BY <2>4 DEF FilesInv, Agrees
  <2>9. QED
    BY <2>1, <2>3, <2>4, <2>5, <2>6, <2>7, <2>8, FilesNamed
<1>7. QED
  BY <1>2, <1>3, <1>4, <1>5, <1>6 DEF MasterAsks, AgentPatches, PanelSaves, Toggles

LEMMA FilesServed ==
  ASSUME Typed, FilesInv, NEW r \in Requests, MasterStep(r)
  PROVE  FilesInv'
<1>1. CASE WriteEntity(r)
  <2>1. req'[r].op = "idle"
    BY <1>1, WriteRequests DEF Follows, Idle
  <2>2. ASSUME NEW q \in Requests \ {r}
        PROVE  /\ req'[q].op = req[q].op /\ req'[q].at = req[q].at
               /\ req'[q].x = req[q].x /\ req'[q].keys = req[q].keys
    <3>1. PICK s \in {req[q], [req[q] EXCEPT !.fresh = FALSE]} : Follows(req'[q], s)
      BY <1>1, WriteRequests
    <3>2. s.op = req[q].op /\ s.at = req[q].at /\ s.x = req[q].x /\ s.keys = req[q].keys
      BY DEF Typed, RequestsOK, Request
    <3>3. QED
      BY <3>1, <3>2 DEF Follows
  <2>3. \A e \in Entities : entity'[e].here <=> entity[e].here
    <3>1. CASE entity[req[r].x].here
      BY <1>1, <3>1, WriteRow
    <3>2. CASE ~ entity[req[r].x].here
      BY <1>1, <3>2 DEF WriteEntity
    <3>3. QED
      BY <3>1, <3>2
  <2>4. UNCHANGED files
    BY <1>1 DEF WriteEntity
  <2>5. QED
    BY <2>1, <2>2, <2>3, <2>4, FilesQuiet
<1>2. ASSUME NEW f \in Files, WriteFile(r, f)
      PROVE  FilesInv'
  <2>1. /\ req[r].op = "upload" /\ req[r].keys = {f} /\ req[r].x \in Entities
        /\ file' = [file EXCEPT ![f] = req[r].x] /\ UNCHANGED <<attach, icon, entity>>
    BY <1>2 DEF WriteFile, At, flags, Typed, RequestsOK, Shaped
  <2>2. Names(r, f) /\ attach[f] = None
    BY <2>1 DEF Names, FilesInv, Agrees
  <2> DEFINE record == [req[r] EXCEPT !.at = "insert"]
  <2>3. /\ record \in Request /\ Shaped(record) /\ record.op = "upload" /\ record.at = "insert"
        /\ record.x = req[r].x /\ record.keys = {f}
    BY <2>1 DEF Typed, RequestsOK, Request, Shaped, Stages
  <2>4. Put(r, record)
    BY <1>2 DEF WriteFile, Goto
  <2> HIDE DEF record
  <2>5. Follows(req'[r], record) /\ \A q \in Requests \ {r} : Follows(req'[q], req[q])
    BY <2>3, <2>4, PutRequests
  <2>6. file'[f] = req[r].x /\ \A g \in Files \ {f} : file'[g] = file[g]
    BY <2>1 DEF Typed, FilesOK
  <2>7. RowsHaveFiles'
    BY <2>1, <2>2, <2>6 DEF FilesInv, RowsHaveFiles
  <2>8. Names(r, f)' /\ Agrees(r, f)'
    BY <2>1, <2>2, <2>3, <2>5, <2>6 DEF Names, Agrees, Follows
  <2>9. req'[r].op = "upload" /\ \A q \in Requests \ {r} : ~ Names(q, f)
    BY <2>1, <2>2, <2>3, <2>5 DEF FilesInv, Follows
  <2>10. QED
    BY <2>1, <2>5, <2>6, <2>7, <2>8, <2>9, FilesNamed
<1>3. ASSUME NEW f \in Files, InsertRow(r, f) \/ Unlink(r, f) \/ WriteIcon(r, f)
      PROVE  FilesInv'
  <2>1. req'[r].op = "idle" /\ \A q \in Requests \ {r} : Follows(req'[q], req[q])
    BY <1>3, MasterPut DEF InsertRow, Unlink, WriteIcon, Finish, Idle
  <2>2. Names(r, f) /\ Agrees(r, f) /\ UNCHANGED entity
    BY <1>3 DEF InsertRow, Unlink, WriteIcon, At, Names, FilesInv, flags
  <2>3. /\ \A q \in Requests : Names(q, f) /\ req[q].op = "upload" => q = r
        /\ req[r].op = "upload" => \A q \in Requests : Names(q, f) => q = r
    BY <2>2 DEF FilesInv
  <2>4. \A q \in Requests \ {r}, g \in Files : Names(q, g)' => Names(q, g)
    BY <2>1 DEF Names, Follows
  <2>5. CASE InsertRow(r, f)
    <3>1. /\ req[r].op = "upload" /\ file[f] = req[r].x /\ attach[f] = None
          /\ UNCHANGED <<file, icon>> /\ req[r].x \in Entities
          /\ attach' = IF entity[req[r].x].here THEN [attach EXCEPT ![f] = req[r].x] ELSE attach
      BY <2>2, <2>5 DEF InsertRow, At, Agrees, Typed, RequestsOK, Shaped
    <3>2. \A g \in Files \ {f} : attach'[g] = attach[g]
      BY <3>1 DEF Typed, FilesOK
    <3>3. attach'[f] # None => attach'[f] = req[r].x /\ entity[req[r].x].here
      BY <3>1 DEF Typed, FilesOK
    <3>4. RowsHaveFiles'
      <4>1. \A e \in Entities : icon[e] # None => icon[e] \in Files \ {f}
        BY <3>1, PlayAssumption DEF FilesInv, RowsHaveFiles, Typed, FilesOK
      <4>2. QED
        BY <2>2, <3>1, <3>2, <3>3, <4>1 DEF FilesInv, RowsHaveFiles
    <3>5. \A q \in Requests, g \in Files : Names(q, g)' => g # f
      BY <2>1, <2>3, <2>4, <3>1 DEF Names
    <3>6. QED
      BY <2>1, <3>1, <3>2, <3>4, <3>5, FilesOthers DEF Follows
  <2>6. CASE Unlink(r, f)
    <3>1. /\ attach[f] = None /\ UNCHANGED <<attach, icon>> /\ req[r].op = "unlink"
          /\ file' = [file EXCEPT ![f] = None]
      BY <2>2, <2>6 DEF Unlink, At, Agrees
    <3>2. \A g \in Files \ {f} : file'[g] = file[g]
      BY <3>1 DEF Typed, FilesOK
    <3>3. RowsHaveFiles'
      BY <2>2, <3>1, <3>2 DEF FilesInv, RowsHaveFiles
    <3>4. \A q \in Requests, g \in Files : Names(q, g)' /\ req[q].op = "upload" => g # f
      BY <2>1, <2>3, <2>4, <3>1 DEF Names
    <3>5. QED
      BY <2>1, <3>1, <3>2, <3>3, <3>4, FilesOthers DEF Follows
  <2>7. CASE WriteIcon(r, f)
    <3>1. /\ attach[f] \in {None, req[r].x} /\ UNCHANGED <<file, attach>> /\ req[r].x \in Entities
          /\ icon' = IF entity[req[r].x].here /\ attach[f] # None
                     THEN [icon EXCEPT ![req[r].x] = f] ELSE icon
      BY <2>2, <2>7 DEF WriteIcon, At, Agrees, Typed, RequestsOK, Shaped
    <3>2. RowsHaveFiles'
      BY <2>2, <3>1 DEF FilesInv, RowsHaveFiles, Typed, FilesOK
    <3>3. QED
      BY <2>1, <3>1, <3>2, FilesOthers DEF Follows
  <2>8. QED
    BY <1>3, <2>5, <2>6, <2>7
<1>4. QED
  BY <1>1, <1>2, <1>3 DEF MasterStep

LEMMA FilesOfEntity ==
  ASSUME Typed, FilesInv, NEW e \in Entities, Load(e) \/ DeleteEntity(e)
  PROVE  FilesInv'
<1>1. CASE Load(e)
  BY <1>1, FilesQuiet DEF Load
<1>2. CASE DeleteEntity(e)
  <2>1. \A q \in Requests : Follows(req'[q], req[q])
    BY <1>2, ServeRequests DEF DeleteEntity, Typed, RequestsOK
  <2>2. /\ attach' = [f \in Files |-> IF attach[f] = e THEN None ELSE attach[f]]
        /\ icon' = [icon EXCEPT ![e] = None] /\ UNCHANGED file
        /\ \A d \in Entities \ {e} : entity'[d] = entity[d]
    BY <1>2 DEF DeleteEntity, Typed, FlagsOK
  <2>3. \A f \in Files : attach'[f] # None => attach[f] # e /\ attach'[f] = attach[f]
    BY <2>2
  <2>4. \A d \in Entities : icon'[d] # None => d # e /\ icon'[d] = icon[d] /\ icon[d] \in Files
    BY <2>2 DEF Typed, FilesOK
  <2>5. RowsHaveFiles'
    <3>1. \A f \in Files : attach'[f] # None => file'[f] = attach'[f] /\ entity'[attach'[f]].here
      BY <2>2, <2>3 DEF FilesInv, RowsHaveFiles, Typed, FilesOK
    <3>2. \A d \in Entities : icon'[d] # None => attach'[icon'[d]] = d
      BY <2>2, <2>4 DEF FilesInv, RowsHaveFiles
    <3>3. QED
      BY <3>1, <3>2 DEF RowsHaveFiles
  <2>6. QED
    BY <2>1, <2>2, <2>5, FilesOthers DEF Follows
<1>3. QED
  BY <1>1, <1>2

LEMMA FilesStep == Typed /\ FilesInv /\ [Next]_vars => FilesInv'
<1> SUFFICES ASSUME Typed, FilesInv, [Next]_vars PROVE FilesInv'
  OBVIOUS
<1>1. ASSUME UNCHANGED <<files, entity>>, NEW r \in Requests, PlayersOwn(r)
      PROVE  FilesInv'
  BY <1>1, FilesQuiet DEF PlayersOwn, PlayerOps, Follows
<1>2. ASSUME NEW r \in Requests, PlayerStep(r)
      PROVE  FilesInv'
  <2>1. UNCHANGED <<files, entity>>
    BY <1>2 DEF PlayerStep, Look, Notes1, Notes2, GetFile, WriteNote1, WriteNote2, OwnNote1,
                OwnNote2, Answered, flags
  <2>2. QED
    BY <1>1, <1>2, <2>1, PlayerTyped
<1>3. ASSUME NEW r \in Requests, NEW p \in Players, PlayerAsks(r, p)
      PROVE  FilesInv'
  <2>1. UNCHANGED <<files, entity>>
    BY <1>3 DEF PlayerAsks, Ask, flags
  <2>2. QED
    BY <1>1, <1>3, <2>1, PlayerAsksTyped
<1>4. ASSUME NEW p \in Players,
             Rotate(p) \/ Revoke(p) \/ DeletePlayer(p) \/ StartSession(p) \/ EndSession(p)
      PROVE  FilesInv'
  <2>1. Serve(req) /\ UNCHANGED <<files, entity>>
    BY <1>4 DEF Rotate, Revoke, DeletePlayer, StartSession, EndSession, flags
  <2>2. QED
    BY <2>1, ServeRequests, FilesQuiet DEF Typed, RequestsOK, Follows
<1>5. CASE Kill
  <2>1. UNCHANGED <<files, entity>> /\ \A q \in Requests : req'[q].op = "idle"
    BY <1>5 DEF Kill, Idle, flags
  <2>2. QED
    BY <2>1, FilesQuiet
<1>6. CASE UNCHANGED vars
  <2>1. UNCHANGED <<files, entity>> /\ UNCHANGED req
    BY <1>6 DEF vars, flags
  <2>2. QED
    BY <2>1, FilesQuiet
<1>7. QED
  BY <1>2, <1>3, <1>4, <1>5, <1>6, FilesAsked, FilesServed, FilesOfEntity DEF Next

(* For any number of uploads, deletions, icons and deaths at a time: a row  *)
(* of an attachment has its file and its entity, an icon its attachment.   *)
THEOREM FilesHold == Spec => []RowsHaveFiles
<1>1. Typed /\ FilesInv => RowsHaveFiles
  BY DEF FilesInv
<1>2. QED
  BY <1>1, InitTyped, TypedStep, InitFiles, FilesStep, PTL DEF Spec

=============================================================================
