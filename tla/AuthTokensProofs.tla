--------------------------- MODULE AuthTokensProofs ---------------------------
(***************************************************************************)
(* AuthTokens for any number of requests, addresses, requests in flight,   *)
(* kills, failed writes and lost files: what was revoked is refused, what  *)
(* is held is usable, keys belong together and accounts are kept.          *)
(***************************************************************************)
EXTENDS AuthTokens, FiniteSetTheorems, TLAPS

Ops == {"none", "login", "register", "refresh", "logout", "logout_all"}
Tokens == SUBSET Accounts
UserTable == [Emails -> Accounts \cup {None}]
Generations == [Secrets -> Nat]
Asked == [op : Ops, token : Accounts \cup {None}, user : Accounts \cup {None}, mine : Tokens]

Typed ==
  /\ phase \in {"down", "half", "keyed", "up"}
  /\ files \in Generations /\ secret \in Generations /\ lost \subseteq Secrets
  /\ torn \in BOOLEAN /\ faults \in Nat
  /\ users \in UserTable /\ {roles, stored, revoked} \subseteq Tokens
  /\ disk \in [users : UserTable, roles : Tokens, stored : Tokens, revoked : Tokens]
  /\ saveMu \in [by : Requests \cup {None}, stored : Tokens, revoked : Tokens]
  /\ pc \in [Requests -> Labels]
  /\ ask \in [Requests -> Asked]
  /\ issued \in [Accounts -> [by : Generations, user : Accounts \cup {None}]]
  /\ email \in [Accounts -> Emails]
  /\ {held, over, ended, expired, joined, rivals} \subseteq Tokens
  /\ told \subseteq Accounts \cup {None}

-----------------------------------------------------------------------------
(* The inductive invariants *)

(* Requests are served by a process that is up; one that saves holds the    *)
(* mutex; and every account has its role, on disk too.                     *)
HasRoles(table, names) == \A e \in Emails : table[e] # None => table[e] \in names
ProcessInv ==
  /\ phase # "up" => Active = {}
  /\ saveMu.by # None => Saving(saveMu.by)
  /\ HasRoles(users, roles) /\ HasRoles(disk.users, disk.roles)

(* The key pair in memory is the one on disk, once a start is through.      *)
KeysInv ==
  /\ phase \in {"keyed", "up"} /\ ~ torn =>
       /\ secret["priv"] = secret["pub"]
       /\ files["priv"] = secret["priv"] /\ files["pub"] = secret["pub"]
  /\ phase = "half" => secret["priv"] = secret["pub"] /\ files["priv"] = secret["priv"]
  /\ phase = "down" /\ ~ torn => files["priv"] = 0 \/ files["pub"] = 0 \/ files["priv"] = files["pub"]

(* What a request revokes: nothing before its save; and a request that has  *)
(* made no token is no token.                                              *)
Unmade == {"new", "count", "create_user", "save_users", "create"}
TokensInv ==
  /\ over \subseteq ended
  /\ revoked \cup disk.revoked \cup saveMu.revoked \subseteq ended
  /\ \A r \in Requests :
       /\ ask[r].mine \subseteq ended
       /\ pc[r] \notin Over \cup {"save_revoked"} => ask[r].mine = {}
       /\ pc[r] \in Unmade =>
            r \notin stored \cup disk.stored \cup saveMu.stored \cup ended \cup held
       /\ pc[r] \in {"new", "count", "create_user"} => r \notin joined

(* What was acknowledged as revoked is dead in memory, on disk and in the   *)
(* snapshot being written; what a request is about to acknowledge is dead  *)
(* in memory, and in the snapshot if it is its own.                        *)
Dead(t, kept, dead) == t \notin kept \ dead
RevokedInv ==
  /\ \A t \in over :
       /\ Dead(t, stored, revoked) /\ Dead(t, disk.stored, disk.revoked)
       /\ Dead(t, saveMu.stored, saveMu.revoked)
  /\ \A r \in Requests :
       pc[r] = "save_revoked" =>
         \A t \in ask[r].mine :
           /\ Dead(t, stored, revoked)
           /\ saveMu.by = r => Dead(t, saveMu.stored, saveMu.revoked)

(* What a logout found dead is dead in the memory of the process, and on    *)
(* disk while none runs; a token that is presented was handed out.          *)
ToldInv ==
  /\ phase = "up" => \A t \in told : Dead(t, stored, revoked)
  /\ phase # "up" => \A t \in told : Dead(t, disk.stored, disk.revoked)
  /\ \A r \in Requests : pc[r] \in Unmade => r \notin told
  /\ \A r \in Requests : ask[r].token \in held \cup {None}

(* The labels that each operation goes through.                            *)
Making == {"create", "save_new"}
OpsInv ==
  \A r \in Requests :
    /\ pc[r] \in {"count", "create_user", "save_users"} => ask[r].op = "register"
    /\ pc[r] \in Making => ask[r].op \in {"login", "register", "refresh"}
    /\ pc[r] \in {"revoke", "revoke_all", "save_revoked"} => ask[r].op \notin {"login", "register"}
    /\ pc[r] = "revoke_all" => ask[r].op # "refresh"

(* The secrets whose files were never lost are the first ones; a token that *)
(* nobody ended is where it was put: in memory when made, on disk once it   *)
(* is saved, and from then on in every snapshot.                           *)
Kept(t) == t \in held \/ (t \in Requests /\ pc[t] \in {"revoke", "save_revoked"} /\ ask[t].op = "refresh")
FirstSecrets ==
  \A s \in {"priv", "salt"} \ lost :
    files[s] = 1 /\ secret[s] = 1 /\ \A a \in Accounts : issued[a].by[s] = 1
Surviving ==
  \A t \in Accounts \ (ended \cup expired) :
    /\ Kept(t) => /\ t \in disk.stored /\ (phase = "up" => t \in stored)
                  /\ saveMu.by # None => t \in saveMu.stored
    /\ t \in Requests /\ pc[t] = "save_new" =>
         t \in stored /\ (saveMu.by = t => t \in saveMu.stored)
HeldInv == FirstSecrets /\ Surviving

(* Registrations that overlap are all rivals; one that is not has its       *)
(* address to itself, and so has the account that it made.                 *)
Taken(table) == {e \in Emails : table[e] # None}
RivalsInv == \A p, q \in Registering : p # q => p \in rivals
JoinedInv ==
  \A u \in joined \ rivals :
    /\ disk.users[email[u]] = u /\ (phase = "up" => users[email[u]] = u)
    /\ \A q \in Requests : pc[q] \in {"count", "create_user"} => email[q] # email[u]
MakingInv ==
  \A u \in Requests \ rivals :
    ask[u].op = "register" =>
      /\ pc[u] \in {"save_users"} \cup Making => users[email[u]] = u
      /\ pc[u] \in Making => disk.users[email[u]] = u
LimitInv ==
  MaxUsers > 0 /\ rivals = {} =>
    /\ Cardinality(Taken(users)) <= MaxUsers /\ Cardinality(Taken(disk.users)) <= MaxUsers
    /\ \A q \in Requests : pc[q] = "create_user" => Cardinality(Taken(users)) < MaxUsers
AccountsInv == RivalsInv /\ JoinedInv /\ MakingInv /\ LimitInv

-----------------------------------------------------------------------------
(* Type correctness *)
LEMMA Distinct == None \notin Accounts /\ Owner \in Accounts /\ Requests \subseteq Accounts
BY AuthAssumption DEF Accounts

LEMMA InitTyped == Init => Typed
<1> SUFFICES ASSUME Init PROVE Typed
  OBVIOUS
<1> DEFINE first == CHOOSE e \in Emails : TRUE
           all == [s \in Secrets |-> 1]
<1>1. first \in Emails /\ all \in Generations
  BY AuthAssumption DEF Generations
<1>2. users \in UserTable
  BY Distinct DEF Init, UserTable
<1>3. ask \in [Requests -> Asked]
  BY DEF Init, NoAsk, Asked, Ops, Tokens
<1>4. saveMu \in [by : Requests \cup {None}, stored : Tokens, revoked : Tokens]
  BY DEF Init, Free, Tokens
<1>5. /\ {roles, stored, revoked, held, over, ended, expired, joined, rivals} \subseteq Tokens
      /\ told \subseteq Accounts \cup {None}
  BY Distinct DEF Init, Tokens
<1>6. disk \in [users : UserTable, roles : Tokens, stored : Tokens, revoked : Tokens]
  BY <1>2, <1>5 DEF Init
<1>7. /\ issued \in [Accounts -> [by : Generations, user : Accounts \cup {None}]]
      /\ email \in [Accounts -> Emails]
  BY <1>1, Distinct DEF Init
<1>8. /\ files \in Generations /\ secret \in Generations /\ lost \subseteq Secrets
      /\ torn \in BOOLEAN /\ faults \in Nat /\ phase \in {"down", "half", "keyed", "up"}
      /\ pc \in [Requests -> Labels]
  BY <1>1 DEF Init, Labels
<1>9. QED
  BY <1>2, <1>3, <1>4, <1>5, <1>6, <1>7, <1>8 DEF Typed

LEMMA AskedTyped ==
  ASSUME Typed, NEW r \in Requests, NEW op \in Ops, NEW user \in Accounts \cup {None}
  PROVE  [ask EXCEPT ![r].op = op, ![r].user = user] \in [Requests -> Asked]
BY DEF Typed, Asked

(* Requests on their way to a token or to a save.                          *)
LEMMA AsksTyped ==
  ASSUME Typed, NEW r \in Requests,
         Login(r) \/ Register(r) \/ CountUsers(r) \/ Present(r)
  PROVE  Typed'
<1> USE DEF Typed, Goto, Arrive, Quietly, repos, secrets, answers
<1>1. CASE Login(r)
  <2>0. PICK owner \in joined :
          ask' = [ask EXCEPT ![r].op = "login", ![r].user = owner]
    BY <1>1 DEF Login
  <2>1. ask' \in [Requests -> Asked]
    <3>1. owner \in Accounts \cup {None} /\ "login" \in Ops
      BY DEF Tokens, Ops
    <3>2. QED
      BY <2>0, <3>1, AskedTyped
  <2>2. pc' \in [Requests -> Labels]
    BY <1>1 DEF Login, Labels
  <2>3. QED
    BY <1>1, <2>1, <2>2 DEF Login
<1>2. CASE Register(r)
  <2>1. ask' \in [Requests -> Asked]
    BY <1>2, AskedTyped, Distinct DEF Register, Ops
  <2>2. pc' \in [Requests -> Labels] /\ email' \in [Accounts -> Emails]
    BY <1>2, Distinct DEF Register, Labels
  <2>3. rivals' \in Tokens
    BY <1>2, Distinct DEF Register, Tokens, Registering, Active
  <2>4. QED
    BY <1>2, <2>1, <2>2, <2>3 DEF Register
<1>3. CASE CountUsers(r)
  BY <1>3 DEF CountUsers, Labels
<1>4. CASE Present(r)
  <2>1. PICK op \in {"refresh", "logout", "logout_all"}, t \in held :
          /\ pc' = [pc EXCEPT ![r] = Checked(op, t)]
          /\ ask' = [ask EXCEPT ![r] = [op |-> op, token |-> t, mine |-> {},
                                        user |-> issued[t].user]]
          /\ told' \subseteq told \cup {t}
    BY <1>4 DEF Present
  <2>2. t \in Accounts /\ issued[t].user \in Accounts \cup {None}
    BY DEF Tokens
  <2>3. [op |-> op, token |-> t, mine |-> {}, user |-> issued[t].user]
          \in Asked
    BY <2>2 DEF Asked, Ops, Tokens
  <2>4. Checked(op, t) \in Labels
    BY DEF Checked, First, Labels
  <2>5. told' \subseteq Accounts \cup {None}
    BY <2>1, <2>2
  <2>6. QED
    BY <1>4, <2>1, <2>3, <2>4, <2>5 DEF Present
<1>5. QED
  BY <1>1, <1>2, <1>3, <1>4


LEMMA WorkTyped ==
  ASSUME Typed, NEW r \in Requests,
         CreateUser(r) \/ SaveUsers(r) \/ CreateToken(r) \/ Revoke(r) \/ RevokeAll(r)
  PROVE  Typed'
<1> USE DEF Typed, Goto, repos, secrets, answers
<1>1. CASE CreateUser(r)
  <2>1. users' \in UserTable /\ roles' \in Tokens
    BY <1>1, Distinct DEF CreateUser, UserTable, Tokens
  <2>2. issued' \in [Accounts -> [by : Generations, user : Accounts \cup {None}]]
    BY <1>1, Distinct DEF CreateUser
  <2>3. pc' \in [Requests -> Labels]
    BY <1>1 DEF CreateUser, Labels
  <2>4. QED
    BY <1>1, <2>1, <2>2, <2>3 DEF CreateUser
<1>2. CASE SaveUsers(r)
  <2>1. disk' \in [users : UserTable, roles : Tokens, stored : Tokens, revoked : Tokens]
    BY <1>2 DEF SaveUsers
  <2>2. QED
    BY <1>2, <2>1 DEF SaveUsers, Labels
<1>3. CASE CreateToken(r)
  <2>1. stored' \in Tokens
    BY <1>3, Distinct DEF CreateToken, Tokens
  <2>2. ask[r].user \in Accounts \cup {None}
    BY DEF Asked
  <2>3. issued' \in [Accounts -> [by : Generations, user : Accounts \cup {None}]]
    BY <1>3, <2>2, Distinct DEF CreateToken
  <2>4. pc' \in [Requests -> Labels]
    BY <1>3 DEF CreateToken, Labels
  <2>5. QED
    BY <1>3, <2>1, <2>3, <2>4 DEF CreateToken
<1>4. ASSUME NEW mine \in Tokens, NEW label \in Labels, Revoking(r, mine, label),
             told' \subseteq Accounts \cup {None}
      PROVE  Typed'
  <2>1. ask' \in [Requests -> Asked]
    BY <1>4 DEF Revoking, Asked
  <2>2. revoked' \in Tokens /\ ended' \in Tokens
    BY <1>4 DEF Revoking, Tokens
  <2>3. QED
    BY <1>4, <2>1, <2>2 DEF Revoking
<1>5. CASE Revoke(r)
  <2>1. {} \in Tokens /\ (ask[r].token \in stored => {ask[r].token} \in Tokens)
    BY DEF Tokens
  <2>2. told' \subseteq Accounts \cup {None}
    BY <1>5 DEF Revoke, Asked
  <2>3. QED
    BY <1>4, <1>5, <2>1, <2>2 DEF Revoke, Labels
<1>6. CASE RevokeAll(r)
  <2> DEFINE all == {t \in stored : issued[t].user = ask[r].user}
  <2>1. {} \in Tokens /\ all \in Tokens /\ told \cup all \subseteq Accounts \cup {None}
    BY DEF Tokens
  <2>2. told' \subseteq Accounts \cup {None}
    BY <1>6, <2>1 DEF RevokeAll
  <2>3. CASE all \subseteq revoked
    BY <1>4, <1>6, <2>1, <2>2, <2>3 DEF RevokeAll, Labels
  <2>4. CASE ~ (all \subseteq revoked)
    BY <1>4, <1>6, <2>1, <2>2, <2>4 DEF RevokeAll, Labels
  <2>5. QED
    BY <2>3, <2>4
<1>7. QED
  BY <1>1, <1>2, <1>3, <1>5, <1>6

(* What a save writes, and how a request is answered.                      *)
LEMMA SaveTyped ==
  ASSUME Typed, ProcessInv, NEW r \in Requests, BeginSave(r) \/ EndSave(r) \/ WriteFails(r)
  PROVE  Typed'
<1> USE DEF Typed, Goto, repos, secrets, answers
<1>1. CASE BeginSave(r)
  BY <1>1 DEF BeginSave
<1>2. Free \in [by : Requests \cup {None}, stored : Tokens, revoked : Tokens]
  BY DEF Free, Tokens
<1>3. CASE EndSave(r)
  <2>1. PICK late \in SUBSET ((revoked \ saveMu.revoked) \cap saveMu.stored) :
          disk' = [disk EXCEPT !.stored = saveMu.stored,
                     !.revoked = (saveMu.stored \cap saveMu.revoked) \cup late]
    BY <1>3 DEF EndSave
  <2>2. disk' \in [users : UserTable, roles : Tokens, stored : Tokens, revoked : Tokens]
    <3>1. (saveMu.stored \cap saveMu.revoked) \cup late \in Tokens
      BY DEF Tokens
    <3>2. QED
      BY <2>1, <3>1
  <2>3. pc' \in [Requests -> Labels]
    BY <1>3 DEF EndSave, Answer, Labels
  <2>4. held' \in Tokens /\ over' \in Tokens /\ joined' \in Tokens
    <3>1. ask[r].mine \in Tokens
      BY DEF Asked
    <3>2. held' \in {held, held \cup {r}}
      BY <1>3 DEF EndSave, Answer
    <3>3. over' \in {over, over \cup ask[r].mine}
      BY <1>3 DEF EndSave, Answer
    <3>4. joined' \in {joined, joined \cup {r}}
      BY <1>3 DEF EndSave, Answer
    <3>5. held \cup {r} \in Tokens /\ joined \cup {r} \in Tokens /\ over \cup ask[r].mine \in Tokens
      BY <3>1, Distinct DEF Tokens
    <3>6. QED
      BY <3>2, <3>3, <3>4, <3>5
  <2>5. QED
    BY <1>2, <1>3, <2>2, <2>3, <2>4 DEF EndSave
<1>4. CASE WriteFails(r)
  BY <1>2, <1>4 DEF WriteFails, Fault, Labels
<1>5. QED
  BY <1>1, <1>3, <1>4

(* Expiry, kills, lost files and starts.                                   *)
LEMMA FaultsTyped ==
  ASSUME Typed,
         \/ \E t \in Accounts : Expire(t)
         \/ \E s \in Secrets : LoseFile(s)
         \/ Kill \/ LoadKeys \/ DerivePublic \/ WritePrivate \/ WritePublic \/ Serve
  PROVE  Typed'
<1> USE DEF Typed, Fault, Starting, repos, secrets, answers
<1>1. CASE \E t \in Accounts : Expire(t)
  BY <1>1 DEF Expire, Tokens
<1>2. CASE \E s \in Secrets : LoseFile(s)
  BY <1>2 DEF LoseFile, Generations
<1>3. CASE Kill
  BY <1>3 DEF Kill, UserTable, Tokens, Free, Labels
<1>4. CASE LoadKeys
  BY <1>4 DEF LoadKeys, Generations, Secrets
<1>5. CASE DerivePublic
  BY <1>5 DEF DerivePublic, KeyPair, Generations, Secrets
<1>6. CASE WritePrivate
  BY <1>6 DEF WritePrivate, KeyPair, Generation, Generations, Secrets
<1>7. CASE WritePublic
  BY <1>7 DEF WritePublic, Generations, Secrets
<1>8. CASE Serve
  <2>1. \A s \in Secrets : (IF files[s] = 0 THEN Generation ELSE files[s]) \in Nat
    BY DEF Generation, Generations
  <2>2. files' \in Generations /\ secret' \in Generations
    BY <1>8, <2>1 DEF Serve, Generations, Secrets
  <2>3. QED
    BY <1>8, <2>2 DEF Serve
<1>9. QED
  BY <1>1, <1>2, <1>3, <1>4, <1>5, <1>6, <1>7, <1>8

LEMMA TypedStep == Typed /\ ProcessInv /\ [Next]_vars => Typed'
<1>1. ASSUME Typed, UNCHANGED vars PROVE Typed'
  BY <1>1 DEF vars, Typed, repos, secrets, answers
<1>2. QED
  BY <1>1, AsksTyped, WorkTyped, SaveTyped, FaultsTyped DEF Next, Quiet

-----------------------------------------------------------------------------
(* Processes, locks and keys *)

(* A request that is under way is served by a process that is up.           *)
LEMMA Served ==
  ASSUME Typed, ProcessInv, NEW r \in Requests, pc[r] \notin Over \cup {"new"}
  PROVE  phase = "up"
BY DEF ProcessInv, Active

(* The actions of a request, which never touch the secrets.                 *)
Asks(r) == Login(r) \/ Register(r) \/ CountUsers(r) \/ Present(r)
Works(r) ==
  CreateUser(r) \/ SaveUsers(r) \/ CreateToken(r) \/ Revoke(r) \/ RevokeAll(r)
Saves(r) == BeginSave(r) \/ EndSave(r) \/ WriteFails(r)
Serving(r) == Asks(r) \/ Works(r) \/ Saves(r)
Starts == LoadKeys \/ DerivePublic \/ WritePrivate \/ WritePublic \/ Serve

LEMMA NextSteps ==
  ASSUME Next
  PROVE  \/ \E r \in Requests : Serving(r)
         \/ \E t \in Accounts : Expire(t)
         \/ \E s \in Secrets : LoseFile(s)
         \/ Kill \/ Starts \/ UNCHANGED vars
BY DEF Next, Serving, Asks, Works, Saves, Starts, Quiet

(* What a request does to itself: it moves, and nobody else does.           *)
LEMMA ServingMoves ==
  ASSUME Typed, ProcessInv, NEW r \in Requests, Serving(r)
  PROVE  /\ phase = "up" /\ UNCHANGED secrets
         /\ \A q \in Requests \ {r} : pc'[q] = pc[q] /\ ask'[q] = ask[q]
         /\ pc[r] \notin Over
<1> USE DEF Typed, secrets
<1>1. UNCHANGED secrets
  BY DEF Serving, Asks, Works, Saves, Login, Register, CountUsers, Present, Quietly,
         CreateUser, SaveUsers, CreateToken, Revoke, RevokeAll, Revoking, BeginSave,
         EndSave, WriteFails
<1>2. \A q \in Requests \ {r} : pc'[q] = pc[q] /\ ask'[q] = ask[q]
  <2>1. CASE Asks(r)
    BY <2>1 DEF Asks, Login, Register, CountUsers, Present, Arrive, Goto, Quietly
  <2>2. CASE Works(r)
    BY <2>2 DEF Works, CreateUser, SaveUsers, CreateToken, Revoke, RevokeAll, Revoking, Goto
  <2>3. CASE Saves(r)
    BY <2>3 DEF Saves, BeginSave, EndSave, Answer, WriteFails, Goto
  <2>4. QED
    BY <2>1, <2>2, <2>3 DEF Serving
<1>3. phase = "up" /\ pc[r] \notin Over
  <2>1. CASE Login(r) \/ Register(r) \/ Present(r)
    BY <2>1 DEF Login, Register, Present, Arrive, Over
  <2>2. CASE CountUsers(r) \/ Works(r)
    <3>1. pc[r] \notin Over \cup {"new"}
      BY <2>2 DEF CountUsers, Works, CreateUser, SaveUsers, CreateToken, Revoke, RevokeAll, Over
    <3>2. QED
      BY <3>1, Served
  <2>3. CASE Saves(r)
    <3>1. pc[r] \notin Over \cup {"new"}
      BY <2>3, Distinct DEF ProcessInv, Saves, Saving, BeginSave, EndSave, WriteFails, Over, Accounts
    <3>2. QED
      BY <3>1, Served
  <2>4. QED
    BY <2>1, <2>2, <2>3 DEF Serving, Asks
<1>4. QED
  BY <1>1, <1>2, <1>3

LEMMA InitProcess == Init => ProcessInv
<1> SUFFICES ASSUME Init PROVE ProcessInv
  OBVIOUS
<1>1. phase = "up" /\ saveMu.by = None
  BY DEF Init, Free
<1>2. roles = {Owner} /\ \A e \in Emails : users[e] \in {Owner, None}
  BY DEF Init
<1>3. disk.users = users /\ disk.roles = roles
  BY DEF Init
<1>4. QED
  BY <1>1, <1>2, <1>3 DEF ProcessInv, HasRoles

(* The mutex is held by a request about to end its save.                    *)
LEMMA MutexStep ==
  ASSUME Typed, ProcessInv, NEW r \in Requests, Serving(r)
  PROVE  saveMu'.by # None => pc'[saveMu'.by] \in {"save_new", "save_revoked"}
<1> USE DEF Typed
<1>1. \A q \in Requests \ {r} : pc'[q] = pc[q]
  BY ServingMoves
<1>2. saveMu.by # None => saveMu.by \in Requests /\ pc[saveMu.by] \in {"save_new", "save_revoked"}
  BY DEF ProcessInv, Saving
<1>3. CASE Asks(r) \/ Works(r)
  <2>1. saveMu' = saveMu
    BY <1>3 DEF Asks, Works, Login, Register, CountUsers, Present, Quietly, CreateUser,
                SaveUsers, CreateToken, Revoke, RevokeAll, Revoking
  <2>2. pc[r] \notin {"save_new", "save_revoked"}
    BY <1>3 DEF Asks, Works, Login, Register, CountUsers, Present, Arrive, CreateUser,
                SaveUsers, CreateToken, Revoke, RevokeAll
  <2>3. QED
    BY <1>1, <1>2, <2>1, <2>2
<1>4. CASE BeginSave(r)
  BY <1>4 DEF BeginSave, Saving
<1>5. CASE EndSave(r)
  BY <1>5 DEF EndSave, Free
<1>6. CASE WriteFails(r)
  <2>1. CASE saveMu.by = r
    BY <1>6, <2>1 DEF WriteFails, Free
  <2>2. CASE saveMu.by # r
    BY <1>1, <1>2, <1>6, <2>2 DEF WriteFails
  <2>3. QED
    BY <2>1, <2>2
<1>7. QED
  BY <1>3, <1>4, <1>5, <1>6 DEF Serving, Saves

LEMMA ProcessStep == Typed /\ ProcessInv /\ [Next]_vars => ProcessInv'
<1> SUFFICES ASSUME Typed, ProcessInv, [Next]_vars PROVE ProcessInv'
  OBVIOUS
<1> USE DEF Typed, repos, secrets, answers
<1>1. ASSUME NEW r \in Requests, Serving(r) PROVE ProcessInv'
  <2>1. phase' = "up"
    BY <1>1, ServingMoves DEF secrets
  <2>2. HasRoles(users, roles)' /\ HasRoles(disk.users, disk.roles)'
    <3>1. CASE CreateUser(r)
      BY <3>1 DEF CreateUser, ProcessInv, HasRoles, UserTable
    <3>2. CASE SaveUsers(r)
      BY <3>2 DEF SaveUsers, ProcessInv, HasRoles
    <3>3. CASE EndSave(r)
      <4>1. disk'.users = disk.users /\ disk'.roles = disk.roles
        BY <3>3 DEF EndSave
      <4>2. QED
        BY <3>3, <4>1 DEF EndSave, ProcessInv, HasRoles
    <3>4. CASE ~ (CreateUser(r) \/ SaveUsers(r) \/ EndSave(r))
      <4>1. UNCHANGED <<users, roles, disk>>
        BY <1>1, <3>4 DEF Serving, Asks, Works, Saves, Login, Register, CountUsers, Present, Quietly,
               CreateToken, Revoke, RevokeAll, Revoking, BeginSave, WriteFails
      <4>2. QED
        BY <4>1 DEF ProcessInv, HasRoles
    <3>5. QED
      BY <3>1, <3>2, <3>3, <3>4
  <2>3. QED
    BY <1>1, <2>1, <2>2, MutexStep DEF ProcessInv, Saving
<1>2. CASE \E t \in Accounts : Expire(t)
  BY <1>2 DEF Expire, ProcessInv, HasRoles, Saving, Active
<1>3. CASE \E s \in Secrets : LoseFile(s)
  BY <1>3 DEF LoseFile, ProcessInv, HasRoles, Saving, Active
<1>4. CASE Kill
  <2>1. Active' = {}
    BY <1>4 DEF Kill, Active, Over
  <2>2. QED
    BY <1>4, <2>1 DEF Kill, ProcessInv, HasRoles, Free
<1>5. CASE Starts
  <2>1. UNCHANGED <<disk, saveMu, pc>> /\ phase # "up"
    BY <1>5 DEF Starts, Starting, LoadKeys, DerivePublic, WritePrivate, WritePublic, Serve
  <2>2. UNCHANGED <<users, roles>> \/ (users' = disk.users /\ roles' = disk.roles)
    BY <1>5 DEF Starts, LoadKeys, DerivePublic, WritePrivate, WritePublic, Serve
  <2>3. QED
    BY <2>1, <2>2 DEF ProcessInv, HasRoles, Saving, Active
<1>6. CASE UNCHANGED vars
  BY <1>6 DEF vars, ProcessInv, HasRoles, Saving, Active
<1>7. QED
  BY <1>1, <1>2, <1>3, <1>4, <1>5, <1>6, NextSteps

LEMMA InitKeys == Init => KeysInv
BY DEF Init, KeysInv, Secrets

LEMMA KeysStep == Typed /\ ProcessInv /\ KeysInv /\ [Next]_vars => KeysInv'
<1> SUFFICES ASSUME Typed, ProcessInv, KeysInv, [Next]_vars PROVE KeysInv'
  OBVIOUS
<1> USE DEF Typed, Generations, Secrets, KeysInv
<1>1. CASE UNCHANGED secrets
  BY <1>1 DEF secrets
<1>2. CASE \E s \in Secrets : LoseFile(s)
  BY <1>2 DEF LoseFile
<1>3. CASE Kill
  BY <1>3 DEF Kill
<1>4. CASE LoadKeys
  BY <1>4 DEF LoadKeys
<1>5. CASE DerivePublic
  BY <1>5 DEF DerivePublic, KeyPair
<1>6. CASE WritePrivate
  BY <1>6 DEF WritePrivate, KeyPair
<1>7. CASE WritePublic
  BY <1>7 DEF WritePublic
<1>8. CASE Serve
  BY <1>8 DEF Serve
<1>9. ASSUME NEW t \in Accounts, Expire(t) PROVE UNCHANGED secrets
  BY <1>9 DEF Expire
<1>10. CASE UNCHANGED vars
  BY <1>1, <1>10 DEF vars
<1>11. QED
  BY <1>1, <1>2, <1>3, <1>4, <1>5, <1>6, <1>7, <1>8, <1>9, <1>10, NextSteps, ServingMoves DEF Starts

-----------------------------------------------------------------------------
(* Tokens: what is revoked and what is made *)

LEMMA InitTokens == Init => TokensInv
<1> SUFFICES ASSUME Init PROVE TokensInv
  OBVIOUS
<1>1. over = {} /\ revoked = {} /\ disk.revoked = {} /\ saveMu.revoked = {} /\ saveMu.stored = {}
  BY DEF Init, Free
<1>2. \A r \in Requests : ask[r].mine = {} /\ pc[r] = "new"
  BY DEF Init, NoAsk
<1>3. stored = {Owner} /\ disk.stored = {Owner} /\ held = {Owner} /\ joined = {Owner} /\ ended = {}
  BY DEF Init
<1>4. QED
  BY <1>1, <1>2, <1>3, AuthAssumption DEF TokensInv

(* What a request asks for when it arrives, or moves to its token.          *)
LEMMA AsksQuietly ==
  ASSUME Typed, NEW r \in Requests, Asks(r)
  PROVE  /\ UNCHANGED <<repos, disk, saveMu, secrets, expired, ended, answers, issued>>
         /\ pc[r] \in {"new", "count"}
         /\ pc'[r] \in Over \cup {"count", "create_user", "create", "revoke", "revoke_all"}
         /\ ask'[r].mine \in {ask[r].mine, {}}
         /\ pc'[r] = "revoke" => ask'[r].op # "refresh"
<1> USE DEF Typed
<1>1. UNCHANGED <<repos, disk, saveMu, secrets, expired, ended, answers, issued>>
  BY DEF Asks, Login, Register, CountUsers, Present, Quietly
<1>2. CASE Login(r)
  BY <1>1, <1>2 DEF Login, Arrive, Goto, Over, Asked
<1>3. CASE Register(r)
  BY <1>1, <1>3 DEF Register, Arrive, Goto, Over, Asked
<1>4. CASE CountUsers(r)
  BY <1>1, <1>4 DEF CountUsers, Goto, Over
<1>5. CASE Present(r)
  <2>1. PICK op \in {"refresh", "logout", "logout_all"}, t \in held :
          /\ pc' = [pc EXCEPT ![r] = Checked(op, t)]
          /\ ask' = [ask EXCEPT ![r] = [op |-> op, token |-> t, mine |-> {},
                                        user |-> issued[t].user]]
    BY <1>5 DEF Present, Goto
  <2>2. /\ Checked(op, t) \in Over \cup {"create", "revoke", "revoke_all"}
        /\ Checked(op, t) = "revoke" => op # "refresh"
    BY DEF Checked, First, Over
  <2>3. ask'[r].mine = {} /\ ask'[r].op = op
    BY <2>1
  <2>4. QED
    BY <1>1, <1>5, <2>1, <2>2, <2>3 DEF Present, Arrive
<1>6. QED
  BY <1>2, <1>3, <1>4, <1>5 DEF Asks

(* What a revocation does: it ends tokens that are stored.                  *)
LEMMA RevokesStored ==
  ASSUME Typed, NEW r \in Requests, Revoke(r) \/ RevokeAll(r)
  PROVE  \E mine \in SUBSET stored :
           /\ revoked' = revoked \cup mine /\ ended' = ended \cup mine
           /\ ask' = [ask EXCEPT ![r].mine = mine] /\ ask'[r].mine = mine
           /\ pc[r] \in {"revoke", "revoke_all"}
           /\ \/ pc'[r] = "save_revoked"
              \/ mine = {} /\ pc'[r] \in Over
           /\ UNCHANGED <<users, roles, stored, disk, saveMu, secrets, expired,
                          faults, issued, email, answers, rivals>>
<1> USE DEF Typed
<1>1. ASSUME NEW mine \in SUBSET stored, NEW label \in Labels, Revoking(r, mine, label)
      PROVE  ask'[r].mine = mine /\ pc'[r] = label
  <2>1. pc'[r] = label
    BY <1>1 DEF Revoking, Goto
  <2>2. ask'[r] = [ask[r] EXCEPT !.mine = mine]
    BY <1>1 DEF Revoking
  <2>3. ask[r] \in Asked
    OBVIOUS
  <2>4. QED
    BY <2>1, <2>2, <2>3 DEF Asked
<1>2. CASE Revoke(r)
  <2>1. CASE ask[r].token \in stored
    <3>1. Revoking(r, {ask[r].token}, "save_revoked") /\ pc[r] = "revoke"
      BY <1>2, <2>1 DEF Revoke
    <3>2. {ask[r].token} \in SUBSET stored /\ "save_revoked" \in Labels
      BY <2>1 DEF Labels
    <3>3. QED
      BY <1>1, <3>1, <3>2 DEF Revoking
  <2>2. CASE ask[r].token \notin stored
    BY <1>1, <1>2, <2>2 DEF Revoke, Revoking, Over, Labels
  <2>3. QED
    BY <2>1, <2>2
<1>3. CASE RevokeAll(r)
  BY <1>1, <1>3 DEF RevokeAll, Revoking, Over, Labels
<1>4. QED
  BY <1>2, <1>3

(* What the end of a save writes.                                          *)
LEMMA Written ==
  ASSUME Typed, NEW r \in Requests, EndSave(r)
  PROVE  /\ disk'.users = disk.users /\ disk'.roles = disk.roles
         /\ disk'.stored = saveMu.stored
         /\ saveMu.stored \cap saveMu.revoked \subseteq disk'.revoked
         /\ disk'.revoked \subseteq revoked \cup saveMu.revoked
         /\ saveMu' = Free
         /\ UNCHANGED <<repos, secrets, expired, faults, ended, ask, issued, email, rivals>>
<1> USE DEF Typed
<1>1. PICK late \in SUBSET ((revoked \ saveMu.revoked) \cap saveMu.stored) :
        disk' = [disk EXCEPT !.stored = saveMu.stored,
                   !.revoked = (saveMu.stored \cap saveMu.revoked) \cup late]
  BY DEF EndSave
<1>2. /\ disk'.users = disk.users /\ disk'.roles = disk.roles /\ disk'.stored = saveMu.stored
      /\ disk'.revoked = (saveMu.stored \cap saveMu.revoked) \cup late
  BY <1>1
<1>3. QED
  BY <1>2 DEF EndSave

(* A save ends in an answer, or goes on to revoke what a refresh used.      *)
Answered(r) ==
  /\ pc'[r] = "ok" /\ over' = over \cup ask[r].mine
  /\ held' = IF ask[r].op \in {"login", "register", "refresh"} THEN held \cup {r} ELSE held
  /\ joined' = IF ask[r].op = "register" THEN joined \cup {r} ELSE joined

LEMMA Ends ==
  ASSUME Typed, NEW r \in Requests, EndSave(r)
  PROVE  \/ /\ pc[r] = "save_new" /\ ask[r].op = "refresh"
            /\ pc'[r] = "revoke" /\ UNCHANGED answers
         \/ ~ (pc[r] = "save_new" /\ ask[r].op = "refresh") /\ Answered(r)
BY DEF Typed, EndSave, Answer, Goto, Answered

LEMMA TokensStep == Typed /\ ProcessInv /\ TokensInv /\ [Next]_vars => TokensInv'
<1> SUFFICES ASSUME Typed, ProcessInv, TokensInv, [Next]_vars PROVE TokensInv'
  OBVIOUS
<1> USE DEF Typed, repos, secrets, answers, TokensInv
<1>1. ASSUME NEW r \in Requests, Asks(r) PROVE TokensInv'
  <2>1. \A q \in Requests \ {r} : pc'[q] = pc[q] /\ ask'[q] = ask[q]
    BY <1>1, ServingMoves DEF Serving
  <2>2. ask[r].mine = {}
    BY <1>1, AsksQuietly DEF Over
  <2>3. pc'[r] \in Unmade => r \notin stored \cup disk.stored \cup saveMu.stored \cup ended \cup held
    BY <1>1, AsksQuietly DEF Over, Unmade
  <2>4. pc'[r] \in {"new", "count", "create_user"} => r \notin joined
    BY <1>1, AsksQuietly DEF Over
  <2>5. UNCHANGED <<repos, disk, saveMu, ended, answers>> /\ ask'[r].mine = {}
    BY <1>1, <2>2, AsksQuietly
  <2>6. QED
    BY <2>1, <2>3, <2>4, <2>5
<1>2. ASSUME NEW r \in Requests, Works(r) \/ Saves(r) PROVE TokensInv'
  <2>1. \A q \in Requests \ {r} : pc'[q] = pc[q] /\ ask'[q] = ask[q]
    BY <1>2, ServingMoves DEF Serving
  <2>2. CASE CreateUser(r)
    <3>1. /\ UNCHANGED <<stored, revoked, disk, saveMu, ended, answers, ask>>
          /\ pc[r] = "create_user" /\ pc'[r] = "save_users"
      BY <2>2 DEF CreateUser, Goto
    <3>2. QED
      BY <2>1, <3>1 DEF Unmade, Over
  <2>3. CASE SaveUsers(r)
    <3>1. /\ UNCHANGED <<stored, revoked, saveMu, ended, answers, ask>>
          /\ disk'.stored = disk.stored /\ disk'.revoked = disk.revoked
          /\ pc[r] = "save_users" /\ pc'[r] = "create"
      BY <2>3 DEF SaveUsers, Goto
    <3>2. QED
      BY <2>1, <3>1 DEF Unmade, Over
  <2>4. CASE CreateToken(r)
    <3>1. /\ UNCHANGED <<revoked, disk, saveMu, ended, answers, ask>>
          /\ stored' \subseteq stored \cup {r}
          /\ pc[r] = "create" /\ pc'[r] = "save_new"
      BY <2>4 DEF CreateToken, Goto
    <3>2. QED
      BY <2>1, <3>1 DEF Unmade, Over
  <2>5. CASE Revoke(r) \/ RevokeAll(r)
    <3>1. PICK mine \in SUBSET stored :
           /\ revoked' = revoked \cup mine /\ ended' = ended \cup mine
           /\ ask'[r].mine = mine
           /\ pc[r] \in {"revoke", "revoke_all"}
           /\ pc'[r] = "save_revoked" \/ (mine = {} /\ pc'[r] \in Over)
           /\ UNCHANGED <<stored, disk, saveMu, answers>>
      BY <2>5, RevokesStored
    <3>2. pc'[r] \notin Unmade \cup {"new", "count", "create_user"}
      BY <3>1 DEF Unmade, Over
    <3>3. QED
      BY <2>1, <3>1, <3>2
  <2>6. CASE BeginSave(r)
    <3>1. /\ UNCHANGED <<stored, revoked, disk, ended, answers, ask, pc>>
          /\ saveMu'.stored = stored /\ saveMu'.revoked = revoked
      BY <2>6 DEF BeginSave
    <3>2. QED
      BY <3>1
  <2>7. CASE EndSave(r)
    <3>1. /\ UNCHANGED <<stored, revoked, ended, ask>>
          /\ disk'.stored = saveMu.stored /\ disk'.revoked \subseteq revoked \cup saveMu.revoked
          /\ saveMu'.stored = {} /\ saveMu'.revoked = {}
      BY <2>7, Written DEF Free
    <3>2. pc[r] \in {"save_new", "save_revoked"}
      BY <2>7, Distinct DEF EndSave, ProcessInv, Saving, Accounts
    <3>3. /\ pc'[r] \in {"ok", "revoke"} /\ (pc'[r] = "revoke" => pc[r] = "save_new")
          /\ over' \subseteq over \cup ask[r].mine /\ held' \subseteq held \cup {r} /\ joined' \subseteq joined \cup {r}
      BY <2>7, Ends DEF Answered
    <3>4. QED
      BY <2>1, <3>1, <3>2, <3>3 DEF Unmade, Over
  <2>8. CASE WriteFails(r)
    <3>1. UNCHANGED <<stored, revoked, disk, ended, ask, answers>> /\ pc'[r] = "error"
      BY <2>8 DEF WriteFails, Goto
    <3>2. saveMu' = saveMu \/ (saveMu'.stored = {} /\ saveMu'.revoked = {})
      BY <2>8 DEF WriteFails, Free
    <3>3. QED
      BY <2>1, <3>1, <3>2 DEF Unmade, Over
  <2>9. QED
    BY <1>2, <2>2, <2>3, <2>4, <2>5, <2>6, <2>7, <2>8 DEF Works, Saves
<1>3. CASE \E t \in Accounts : Expire(t)
  BY <1>3 DEF Expire
<1>4. CASE \E s \in Secrets : LoseFile(s)
  BY <1>4 DEF LoseFile
<1>5. CASE Kill
  <2>1. /\ stored' = {} /\ revoked' = {} /\ saveMu'.stored = {} /\ saveMu'.revoked = {}
        /\ UNCHANGED <<disk, ended, ask, answers>>
    BY <1>5 DEF Kill, Free
  <2>2. \A r \in Requests : pc'[r] = pc[r] \/ pc'[r] = "lost"
    BY <1>5 DEF Kill
  <2>3. QED
    BY <2>1, <2>2 DEF Unmade, Over
<1>6. CASE Starts
  <2>1. UNCHANGED <<disk, saveMu, pc, ask, ended, answers>>
    BY <1>6 DEF Starts, Starting, LoadKeys, DerivePublic, WritePrivate, WritePublic, Serve
  <2>2. UNCHANGED <<stored, revoked>> \/ (stored' = disk.stored /\ revoked' = disk.revoked)
    BY <1>6 DEF Starts, LoadKeys, DerivePublic, WritePrivate, WritePublic, Serve
  <2>3. QED
    BY <2>1, <2>2
<1>7. CASE UNCHANGED vars
  BY <1>7 DEF vars
<1>8. QED
  BY <1>1, <1>2, <1>3, <1>4, <1>5, <1>6, <1>7, NextSteps DEF Serving

-----------------------------------------------------------------------------
(* What was revoked stays dead *)

LEMMA InitRevoked == Init => RevokedInv
BY DEF Init, RevokedInv

(* While the process is not up no request is at a save.                     *)
LEMMA NobodySaves ==
  ASSUME Typed, ProcessInv, phase # "up"
  PROVE  \A r \in Requests : pc[r] \in Over \cup {"new"}
BY DEF ProcessInv, Active

LEMMA RevokedStep == Typed /\ ProcessInv /\ TokensInv /\ RevokedInv /\ [Next]_vars => RevokedInv'
<1> SUFFICES ASSUME Typed, ProcessInv, TokensInv, RevokedInv, [Next]_vars PROVE RevokedInv'
  OBVIOUS
<1> USE DEF Typed, repos, secrets, answers, Dead
<1>1. ASSUME NEW r \in Requests, Asks(r) PROVE RevokedInv'
  <2>1. \A q \in Requests \ {r} : pc'[q] = pc[q] /\ ask'[q] = ask[q]
    BY <1>1, ServingMoves DEF Serving
  <2>2. UNCHANGED <<repos, disk, saveMu, answers>> /\ pc'[r] # "save_revoked"
    BY <1>1, AsksQuietly DEF Over
  <2>3. QED
    BY <2>1, <2>2 DEF RevokedInv
<1>2. ASSUME NEW r \in Requests, Works(r) \/ Saves(r) PROVE RevokedInv'
  <2>1. \A q \in Requests \ {r} : pc'[q] = pc[q] /\ ask'[q] = ask[q]
    BY <1>2, ServingMoves DEF Serving
  <2>2. CASE CreateUser(r) \/ SaveUsers(r)
    <3>1. /\ UNCHANGED <<stored, revoked, saveMu, answers, ask>> /\ pc'[r] # "save_revoked"
          /\ disk'.stored = disk.stored /\ disk'.revoked = disk.revoked
      BY <2>2 DEF CreateUser, SaveUsers, Goto
    <3>2. QED
      BY <2>1, <3>1 DEF RevokedInv
  <2>3. CASE CreateToken(r)
    <3>1. /\ UNCHANGED <<revoked, disk, saveMu, answers, ask>> /\ stored' \subseteq stored \cup {r}
          /\ pc[r] = "create" /\ pc'[r] = "save_new"
      BY <2>3 DEF CreateToken, Goto
    <3>2. r \notin ended
      BY <3>1 DEF TokensInv, Unmade
    <3>3. over \subseteq ended /\ \A q \in Requests : ask[q].mine \subseteq ended
      BY DEF TokensInv
    <3>4. QED
      BY <2>1, <3>1, <3>2, <3>3 DEF RevokedInv
  <2>4. CASE Revoke(r) \/ RevokeAll(r)
    <3>1. PICK mine \in SUBSET stored :
           /\ revoked' = revoked \cup mine /\ ask'[r].mine = mine
           /\ pc[r] \in {"revoke", "revoke_all"}
           /\ UNCHANGED <<stored, disk, saveMu, answers>>
      BY <2>4, RevokesStored
    <3>2. saveMu.by # r
      BY <3>1, Distinct DEF ProcessInv, Saving, Accounts
    <3>3. QED
      BY <2>1, <3>1, <3>2 DEF RevokedInv
  <2>5. CASE BeginSave(r)
    <3>1. /\ UNCHANGED <<stored, revoked, disk, answers, ask, pc>>
          /\ saveMu'.by = r /\ saveMu'.stored = stored /\ saveMu'.revoked = revoked
      BY <2>5 DEF BeginSave
    <3>2. QED
      BY <3>1 DEF RevokedInv
  <2>6. CASE EndSave(r)
    <3>1. /\ UNCHANGED <<stored, revoked, ask>>
          /\ disk'.stored = saveMu.stored /\ saveMu.stored \cap saveMu.revoked \subseteq disk'.revoked
          /\ saveMu'.stored = {} /\ saveMu'.by = None
      BY <2>6, Written DEF Free
    <3>2. saveMu.by = r /\ pc[r] \in {"save_new", "save_revoked"}
      BY <2>6, Distinct DEF EndSave, ProcessInv, Saving, Accounts
    <3>3. pc'[r] # "save_revoked" /\ over' \subseteq over \cup ask[r].mine
      BY <2>6, Ends DEF Answered
    <3>4. pc[r] # "save_revoked" => ask[r].mine = {}
      BY <3>2 DEF TokensInv, Over
    <3>5. \A t \in over' : Dead(t, stored, revoked) /\ Dead(t, saveMu.stored, saveMu.revoked)
      BY <3>2, <3>3, <3>4 DEF RevokedInv
    <3>6. \A t \in over' : Dead(t, disk'.stored, disk'.revoked)
      BY <3>1, <3>5
    <3>7. QED
      BY <2>1, <3>1, <3>3, <3>5, <3>6, Distinct DEF RevokedInv, Accounts
  <2>7. CASE WriteFails(r)
    <3>1. UNCHANGED <<stored, revoked, disk, ask, answers>> /\ pc'[r] = "error"
      BY <2>7 DEF WriteFails, Goto
    <3>2. saveMu' = saveMu \/ (saveMu'.stored = {} /\ saveMu'.by = None)
      BY <2>7 DEF WriteFails, Free
    <3>3. QED
      BY <2>1, <3>1, <3>2 DEF RevokedInv
  <2>8. QED
    BY <1>2, <2>2, <2>3, <2>4, <2>5, <2>6, <2>7 DEF Works, Saves
<1>3. CASE \E t \in Accounts : Expire(t)
  BY <1>3 DEF Expire, RevokedInv
<1>4. CASE \E s \in Secrets : LoseFile(s)
  BY <1>4 DEF LoseFile, RevokedInv
<1>5. CASE Kill
  <2>1. stored' = {} /\ saveMu'.stored = {} /\ UNCHANGED <<disk, answers>>
    BY <1>5 DEF Kill, Free
  <2>2. \A r \in Requests : pc'[r] # "save_revoked"
    BY <1>5 DEF Kill, Active, Over
  <2>3. QED
    BY <2>1, <2>2 DEF RevokedInv
<1>6. CASE Starts
  <2>1. UNCHANGED <<disk, saveMu, pc, ask, answers>> /\ phase # "up"
    BY <1>6 DEF Starts, Starting, LoadKeys, DerivePublic, WritePrivate, WritePublic, Serve
  <2>2. UNCHANGED <<stored, revoked>> \/ (stored' = disk.stored /\ revoked' = disk.revoked)
    BY <1>6 DEF Starts, LoadKeys, DerivePublic, WritePrivate, WritePublic, Serve
  <2>3. \A r \in Requests : pc'[r] # "save_revoked"
    BY <2>1, NobodySaves DEF Over
  <2>4. QED
    BY <2>1, <2>2, <2>3 DEF RevokedInv
<1>7. CASE UNCHANGED vars
  BY <1>7 DEF vars, RevokedInv
<1>8. QED
  BY <1>1, <1>2, <1>3, <1>4, <1>5, <1>6, <1>7, NextSteps DEF Serving

-----------------------------------------------------------------------------
(* What was found dead stays dead, as long as the process lives *)

LEMMA InitTold == Init => ToldInv
BY DEF Init, ToldInv, NoAsk

LEMMA TokenStays ==
  ASSUME Typed, ProcessInv, NEW r \in Requests, Works(r) \/ Saves(r)
  PROVE  ask'[r].token = ask[r].token /\ held \subseteq held'
<1> USE DEF Typed, repos, secrets, answers
<1>1. CASE Revoke(r) \/ RevokeAll(r)
  <2>1. PICK mine \in SUBSET stored : ask' = [ask EXCEPT ![r].mine = mine] /\ UNCHANGED answers
    BY <1>1, RevokesStored
  <2>2. ask[r] \in Asked
    OBVIOUS
  <2>3. QED
    BY <2>1, <2>2 DEF Asked
<1>2. CASE EndSave(r)
  BY <1>2, Written, Ends DEF Answered
<1>3. CASE CreateUser(r) \/ SaveUsers(r) \/ CreateToken(r) \/ BeginSave(r) \/ WriteFails(r)
  BY <1>3 DEF CreateUser, SaveUsers, CreateToken, BeginSave, WriteFails
<1>4. QED
  BY <1>1, <1>2, <1>3 DEF Works, Saves

LEMMA ToldStep == Typed /\ ProcessInv /\ TokensInv /\ ToldInv /\ [Next]_vars => ToldInv'
<1> SUFFICES ASSUME Typed, ProcessInv, TokensInv, ToldInv, [Next]_vars PROVE ToldInv'
  OBVIOUS
<1> USE DEF Typed, repos, secrets, answers, Dead
<1>1. ASSUME NEW r \in Requests, Serving(r), stored' \subseteq stored \cup {r} \/ stored' = stored,
             stored' # stored => pc[r] \in Unmade /\ pc'[r] \notin Unmade,
             revoked \subseteq revoked', held \subseteq held',
             pc'[r] \in Unmade => pc[r] \in Unmade,
             ask'[r].token \in held' \cup {None},
             \A t \in told' \ told : t \notin stored \ revoked /\ (t \in held \cup stored \cup {None}),
             told' # told => stored' = stored
      PROVE  ToldInv'
  <2>1. phase = "up" /\ phase' = "up" /\ \A q \in Requests \ {r} : pc'[q] = pc[q] /\ ask'[q] = ask[q]
    BY <1>1, ServingMoves
  <2>2. \A t \in told' : Dead(t, stored', revoked')
    BY <1>1, <2>1 DEF ToldInv
  <2>3. ASSUME NEW q \in Requests, pc'[q] \in Unmade PROVE q \notin told'
    <3>1. pc[q] \in Unmade /\ q # None
      BY <1>1, <2>1, <2>3, AuthAssumption
    <3>2. q \notin told /\ q \notin held \cup stored
      BY <3>1 DEF ToldInv, TokensInv
    <3>3. QED
      BY <1>1, <3>1, <3>2
  <2>4. \A q \in Requests : ask'[q].token \in held' \cup {None}
    BY <1>1, <2>1 DEF ToldInv
  <2>5. QED
    BY <2>1, <2>2, <2>3, <2>4 DEF ToldInv
<1>2. ASSUME NEW r \in Requests, Asks(r) PROVE ToldInv'
  <2>1. /\ UNCHANGED <<stored, revoked, held>> /\ pc[r] \in {"new", "count"} /\ pc[r] \in Unmade
    BY <1>2, AsksQuietly DEF Unmade
  <2>2. CASE Present(r)
    <3>1. PICK op \in {"refresh", "logout", "logout_all"}, t \in held :
            /\ ask' = [ask EXCEPT ![r] = [op |-> op, token |-> t, mine |-> {},
                                          user |-> issued[t].user]]
            /\ told' = IF Checked(op, t) = "ok" THEN told \cup ({t} \ stored) ELSE told
      BY <2>2 DEF Present
    <3>2. ask'[r].token = t
      BY <3>1
    <3>3. QED
      BY <1>1, <1>2, <2>1, <3>1, <3>2 DEF Serving
  <2>3. CASE Login(r) \/ Register(r) \/ CountUsers(r)
    <3>1. told' = told /\ ask'[r].token = ask[r].token
      BY <2>3 DEF Login, Register, CountUsers, Asked
    <3>2. QED
      BY <1>1, <1>2, <2>1, <3>1 DEF Serving, ToldInv
  <2>4. QED
    BY <1>2, <2>2, <2>3 DEF Asks
<1>3. ASSUME NEW r \in Requests, Works(r) \/ Saves(r) PROVE ToldInv'
  <2>1. ask'[r].token \in held' \cup {None} /\ held \subseteq held' /\ Serving(r)
    BY <1>3, TokenStays DEF ToldInv, Serving
  <2>2. CASE CreateUser(r) \/ SaveUsers(r)
    <3>1. UNCHANGED <<stored, revoked, told>> /\ pc[r] \in Unmade
      BY <2>2 DEF CreateUser, SaveUsers, Unmade
    <3>2. QED
      BY <1>1, <2>1, <3>1
  <2>3. CASE CreateToken(r)
    <3>1. UNCHANGED <<revoked, told>> /\ stored' \subseteq stored \cup {r}
      BY <2>3 DEF CreateToken
    <3>2. pc[r] \in Unmade /\ pc'[r] \notin Unmade
      BY <2>3 DEF CreateToken, Goto, Unmade
    <3>3. QED
      BY <1>1, <2>1, <3>1, <3>2
  <2>4. CASE Revoke(r) \/ RevokeAll(r)
    <3>1. /\ stored' = stored /\ revoked \subseteq revoked'
          /\ pc'[r] \in {"save_revoked"} \cup Over
      BY <2>4, RevokesStored
    <3>2. pc'[r] \notin Unmade
      BY <3>1 DEF Over, Unmade
    <3>3. \A t \in told' \ told : t \notin stored \ revoked /\ (t \in held \cup stored \cup {None})
      <4>1. CASE Revoke(r)
        BY <4>1 DEF Revoke, ToldInv
      <4>2. CASE RevokeAll(r)
        BY <4>2 DEF RevokeAll
      <4>3. QED
        BY <2>4, <4>1, <4>2
    <3>4. QED
      BY <1>1, <2>1, <3>1, <3>2, <3>3
  <2>5. CASE BeginSave(r) \/ EndSave(r) \/ WriteFails(r)
    <3>1. UNCHANGED <<stored, revoked, told>>
      BY <2>5 DEF BeginSave, EndSave, WriteFails
    <3>2. pc'[r] \in Unmade => pc[r] \in Unmade
      BY <2>5, Ends DEF BeginSave, WriteFails, Goto, Answered, Unmade
    <3>3. QED
      BY <1>1, <2>1, <3>1, <3>2
  <2>6. QED
    BY <1>3, <2>2, <2>3, <2>4, <2>5 DEF Works, Saves
<1>4. CASE \E t \in Accounts : Expire(t)
  BY <1>4 DEF Expire, ToldInv
<1>5. CASE \E s \in Secrets : LoseFile(s)
  BY <1>5 DEF LoseFile, ToldInv
<1>6. CASE Kill
  <2>1. /\ phase' = "down" /\ told' = told \ (disk.stored \ disk.revoked)
        /\ UNCHANGED <<disk, ask, held>>
    BY <1>6 DEF Kill
  <2>2. \A r \in Requests : pc'[r] = pc[r] \/ pc'[r] = "lost"
    BY <1>6 DEF Kill
  <2>3. QED
    BY <2>1, <2>2 DEF ToldInv, Unmade
<1>7. CASE Starts
  <2>1. UNCHANGED <<disk, pc, ask, held, told>> /\ phase # "up"
    BY <1>7 DEF Starts, Starting, LoadKeys, DerivePublic, WritePrivate, WritePublic, Serve
  <2>2. phase' # "up" \/ (stored' = disk.stored /\ revoked' = disk.revoked)
    BY <1>7 DEF Starts, LoadKeys, DerivePublic, WritePrivate, WritePublic, Serve
  <2>3. QED
    BY <2>1, <2>2 DEF ToldInv
<1>8. CASE UNCHANGED vars
  BY <1>8 DEF vars, ToldInv
<1>9. QED
  BY <1>2, <1>3, <1>4, <1>5, <1>6, <1>7, <1>8, NextSteps DEF Serving

-----------------------------------------------------------------------------
(* What is held stays usable *)

LEMMA InitOps == Init => OpsInv
BY DEF Init, OpsInv, Making

LEMMA OpsStep == Typed /\ ProcessInv /\ OpsInv /\ [Next]_vars => OpsInv'
<1> SUFFICES ASSUME Typed, ProcessInv, OpsInv, [Next]_vars PROVE OpsInv'
  OBVIOUS
<1> USE DEF Typed, OpsInv, Making, Goto
<1>1. ASSUME NEW r \in Requests, Serving(r) PROVE OpsInv'
  <2>1. \A q \in Requests \ {r} : pc'[q] = pc[q] /\ ask'[q] = ask[q]
    BY <1>1, ServingMoves
  <2>2. CASE Login(r)
    <3>1. ask'[r].op = "login" /\ pc'[r] \in {"create", "refused"}
      BY <2>2 DEF Login, Asked
    <3>2. QED
      BY <2>1, <3>1
  <2>3. CASE Register(r)
    <3>1. ask'[r].op = "register" /\ pc'[r] \in {"count", "refused"}
      BY <2>3 DEF Register, Asked
    <3>2. QED
      BY <2>1, <3>1
  <2>4. CASE Present(r)
    <3>1. PICK op \in {"refresh", "logout", "logout_all"}, t \in held :
            pc'[r] = Checked(op, t) /\ ask'[r].op = op
      BY <2>4 DEF Present
    <3>2. Checked(op, t) \in Over \cup {First(op)}
      BY DEF Checked, Over
    <3>3. QED
      BY <2>1, <3>1, <3>2 DEF First, Over
  <2>5. CASE CountUsers(r)
    BY <2>1, <2>5 DEF CountUsers, Quietly
  <2>6. CASE CreateUser(r) \/ SaveUsers(r) \/ CreateToken(r)
    BY <2>1, <2>6 DEF CreateUser, SaveUsers, CreateToken
  <2>7. CASE Revoke(r) \/ RevokeAll(r)
    <3>1. PICK mine \in SUBSET stored :
           /\ ask' = [ask EXCEPT ![r].mine = mine]
           /\ pc[r] \in {"revoke", "revoke_all"}
           /\ pc'[r] = "save_revoked" \/ pc'[r] \in Over
      BY <2>7, RevokesStored
    <3>2. ask'[r].op = ask[r].op
      BY <3>1 DEF Asked
    <3>3. QED
      BY <2>1, <3>1, <3>2 DEF Over
  <2>8. CASE BeginSave(r)
    BY <2>8 DEF BeginSave
  <2>9. CASE EndSave(r)
    BY <2>1, <2>9, Ends DEF EndSave, Answered
  <2>10. CASE WriteFails(r)
    BY <2>1, <2>10 DEF WriteFails
  <2>11. QED
    BY <1>1, <2>2, <2>3, <2>4, <2>5, <2>6, <2>7, <2>8, <2>9, <2>10 DEF Serving, Asks, Works, Saves
<1>2. CASE UNCHANGED <<pc, ask>>
  BY <1>2
<1>3. CASE Kill
  <2>1. ask' = ask /\ \A r \in Requests : pc'[r] = pc[r] \/ pc'[r] = "lost"
    BY <1>3 DEF Kill
  <2>2. QED
    BY <2>1
<1>4. ASSUME \/ \E t \in Accounts : Expire(t)
             \/ \E s \in Secrets : LoseFile(s)
             \/ Starts \/ UNCHANGED vars
      PROVE  UNCHANGED <<pc, ask>>
  BY <1>4 DEF Expire, LoseFile, Starts, Starting, LoadKeys, DerivePublic, WritePrivate, WritePublic,
              Serve, vars
<1>5. QED
  BY <1>1, <1>2, <1>3, <1>4, NextSteps

LEMMA InitHeld == Init => HeldInv
<1> SUFFICES ASSUME Init PROVE HeldInv
  OBVIOUS
<1>1. FirstSecrets
  BY DEF Init, FirstSecrets, Secrets
<1>2. held = {Owner} /\ Owner \in disk.stored /\ Owner \in stored /\ saveMu.by = None
  BY DEF Init, Free
<1>3. \A r \in Requests : pc[r] = "new"
  BY DEF Init
<1>4. QED
  BY <1>1, <1>2, <1>3 DEF HeldInv, Surviving, Kept

LEMMA SecretsStep == Typed /\ ProcessInv /\ FirstSecrets /\ [Next]_vars => FirstSecrets'
<1> SUFFICES ASSUME Typed, ProcessInv, FirstSecrets, [Next]_vars PROVE FirstSecrets'
  OBVIOUS
<1> USE DEF Typed, FirstSecrets, Generations, Secrets
<1>1. ASSUME UNCHANGED secrets,
             issued' = issued \/ \E r \in Requests, u \in Accounts \cup {None} :
                                   issued' = [issued EXCEPT ![r] = [by |-> secret, user |-> u]]
      PROVE  FirstSecrets'
  <2>1. \A a \in Accounts : issued'[a].by \in {issued[a].by, secret}
    BY <1>1, Distinct
  <2>2. QED
    BY <1>1, <2>1 DEF secrets
<1>2. ASSUME NEW r \in Requests, Serving(r) PROVE FirstSecrets'
  <2>1. UNCHANGED secrets
    BY <1>2, ServingMoves
  <2>2. CASE CreateUser(r)
    BY <1>1, <2>1, <2>2, Distinct DEF CreateUser
  <2>3. CASE CreateToken(r)
    <3>1. ask[r].user \in Accounts \cup {None}
      BY DEF Asked
    <3>2. QED
      BY <1>1, <2>1, <2>3, <3>1 DEF CreateToken
  <2>4. CASE ~ (CreateUser(r) \/ CreateToken(r))
    <3>1. issued' = issued
      BY <1>2, <2>4 DEF Serving, Asks, Works, Saves, Login, Register, CountUsers, Present,
             SaveUsers, Revoke, RevokeAll, Revoking, BeginSave, EndSave, WriteFails
    <3>2. QED
      BY <1>1, <2>1, <3>1
  <2>5. QED
    BY <2>2, <2>3, <2>4
<1>3. CASE (\E t \in Accounts : Expire(t)) \/ UNCHANGED vars
  BY <1>1, <1>3 DEF Expire, vars
<1>4. CASE \E s \in Secrets : LoseFile(s)
  BY <1>4 DEF LoseFile
<1>5. CASE Kill
  BY <1>5 DEF Kill
<1>6. CASE LoadKeys
  BY <1>6 DEF LoadKeys, Starting
<1>7. CASE DerivePublic
  BY <1>7 DEF DerivePublic, Starting, KeyPair
<1>8. CASE WritePrivate
  BY <1>8 DEF WritePrivate, Starting, KeyPair
<1>9. CASE WritePublic
  BY <1>9 DEF WritePublic, Starting
<1>10. CASE Serve
  BY <1>10 DEF Serve, Starting
<1>11. QED
  BY <1>2, <1>3, <1>4, <1>5, <1>6, <1>7, <1>8, <1>9, <1>10, NextSteps DEF Starts

LEMMA SurvivingStep ==
  Typed /\ ProcessInv /\ TokensInv /\ OpsInv /\ Surviving /\ [Next]_vars => Surviving'
<1> SUFFICES ASSUME Typed, ProcessInv, TokensInv, OpsInv, Surviving, [Next]_vars PROVE Surviving'
  OBVIOUS
<1> USE DEF Typed, repos, secrets, answers, Kept
<1>0. Requests \subseteq Accounts /\ None \notin Accounts
  BY Distinct
<1>1. ASSUME NEW r \in Requests, Asks(r) PROVE Surviving'
  <2>1. \A q \in Requests \ {r} : pc'[q] = pc[q] /\ ask'[q] = ask[q]
    BY <1>1, ServingMoves DEF Serving
  <2>2. /\ UNCHANGED <<repos, disk, saveMu, secrets, expired, ended, answers>>
        /\ pc'[r] \notin {"save_new", "save_revoked"}
        /\ pc'[r] = "revoke" => ask'[r].op # "refresh"
    BY <1>1, AsksQuietly DEF Over
  <2>3. QED
    BY <2>1, <2>2 DEF Surviving
<1>2. ASSUME NEW r \in Requests, Works(r) \/ Saves(r) PROVE Surviving'
  <2>1. /\ \A q \in Requests \ {r} : pc'[q] = pc[q] /\ ask'[q] = ask[q]
        /\ phase = "up" /\ phase' = "up"
    BY <1>2, ServingMoves DEF Serving
  <2>2. CASE CreateUser(r) \/ SaveUsers(r)
    <3>1. /\ UNCHANGED <<stored, revoked, saveMu, answers, ask, ended, expired>>
          /\ pc'[r] \in {"save_users", "create"}
          /\ disk'.stored = disk.stored
      BY <2>2 DEF CreateUser, SaveUsers, Goto
    <3>2. QED
      BY <2>1, <3>1 DEF Surviving
  <2>3. CASE CreateToken(r)
    <3>1. /\ UNCHANGED <<revoked, disk, saveMu, answers, ask, ended, expired>>
          /\ stored' = (stored \ Cleaned(ask[r].user)) \cup {r}
          /\ pc[r] = "create" /\ pc'[r] = "save_new"
      BY <2>3 DEF CreateToken, Goto
    <3>2. r \notin held
      BY <3>1 DEF TokensInv, Unmade
    <3>3. \A t \in Accounts \ (ended \cup expired) : t \in stored => t \in stored'
      BY <3>1 DEF Cleaned, TokensInv
    <3>4. saveMu.by # r
      BY <1>0, <3>1 DEF ProcessInv, Saving
    <3>5. QED
      BY <2>1, <3>1, <3>2, <3>3, <3>4 DEF Surviving
  <2>4. CASE Revoke(r) \/ RevokeAll(r)
    <3>1. PICK mine \in SUBSET stored :
           /\ ended' = ended \cup mine
           /\ ask' = [ask EXCEPT ![r].mine = mine]
           /\ pc[r] \in {"revoke", "revoke_all"}
           /\ pc'[r] = "save_revoked" \/ pc'[r] \in Over
           /\ UNCHANGED <<stored, disk, saveMu, answers, expired>>
      BY <2>4, RevokesStored
    <3>2. ask'[r].op = ask[r].op
      BY <3>1 DEF Asked
    <3>3. Kept(r)' => Kept(r)
      BY <3>1, <3>2 DEF OpsInv, Over
    <3>4. QED
      BY <2>1, <3>1, <3>3 DEF Surviving, Over
  <2>5. CASE BeginSave(r)
    <3>1. /\ UNCHANGED <<stored, revoked, disk, answers, ask, pc, ended, expired>>
          /\ saveMu'.by = r /\ saveMu'.stored = stored
      BY <2>5 DEF BeginSave
    <3>2. QED
      BY <2>1, <3>1 DEF Surviving
  <2>6. CASE EndSave(r)
    <3>1. /\ UNCHANGED <<stored, revoked, ask, ended, expired>>
          /\ disk'.stored = saveMu.stored /\ saveMu'.by = None
      BY <2>6, Written DEF Free
    <3>2. saveMu.by = r /\ pc[r] \in {"save_new", "save_revoked"}
      BY <1>0, <2>6 DEF EndSave, ProcessInv, Saving
    <3>3. /\ pc'[r] \in {"ok", "revoke"}
          /\ \A t \in held' : t \in held \/ (t = r /\ ask[r].op \in {"login", "register", "refresh"})
          /\ pc'[r] = "revoke" => pc[r] = "save_new"
      BY <2>6, Ends DEF Answered
    <3>4. \A t \in Accounts : Kept(t)' => Kept(t) \/ (t = r /\ pc[r] = "save_new")
      BY <2>1, <3>1, <3>2, <3>3 DEF OpsInv
    <3>5. QED
      BY <1>0, <2>1, <3>1, <3>2, <3>3, <3>4 DEF Surviving
  <2>7. CASE WriteFails(r)
    <3>1. UNCHANGED <<stored, revoked, disk, ask, answers, ended, expired>> /\ pc'[r] = "error"
      BY <2>7 DEF WriteFails, Goto
    <3>2. saveMu' = saveMu \/ saveMu'.by = None
      BY <2>7 DEF WriteFails, Free
    <3>3. QED
      BY <1>0, <2>1, <3>1, <3>2 DEF Surviving
  <2>8. QED
    BY <1>2, <2>2, <2>3, <2>4, <2>5, <2>6, <2>7 DEF Works, Saves
<1>3. CASE \E t \in Accounts : Expire(t)
  BY <1>3 DEF Expire, Surviving
<1>4. CASE \E s \in Secrets : LoseFile(s)
  BY <1>4 DEF LoseFile, Surviving
<1>5. CASE Kill
  <2>1. phase' = "down" /\ saveMu'.by = None /\ UNCHANGED <<disk, answers, ask, ended, expired>>
    BY <1>5 DEF Kill, Free
  <2>2. \A r \in Requests : pc'[r] \in Over \cup {"new"}
    BY <1>5 DEF Kill, Active, Over
  <2>3. QED
    BY <2>1, <2>2 DEF Surviving, Over
<1>6. CASE Starts
  <2>1. UNCHANGED <<disk, saveMu, pc, ask, answers, ended, expired>> /\ phase # "up"
    BY <1>6 DEF Starts, Starting, LoadKeys, DerivePublic, WritePrivate, WritePublic, Serve
  <2>2. stored' = disk.stored \/ phase' # "up"
    BY <1>6 DEF Starts, LoadKeys, DerivePublic, WritePrivate, WritePublic, Serve
  <2>3. \A r \in Requests : pc[r] \in Over \cup {"new"}
    BY <2>1, NobodySaves
  <2>4. QED
    BY <2>1, <2>2, <2>3 DEF Surviving, Over
<1>7. CASE UNCHANGED vars
  BY <1>7 DEF vars, Surviving
<1>8. QED
  BY <1>1, <1>2, <1>3, <1>4, <1>5, <1>6, <1>7, NextSteps DEF Serving

-----------------------------------------------------------------------------
(* Accounts that were registered *)

LEMMA TakenSize ==
  ASSUME NEW table \in UserTable
  PROVE  /\ IsFiniteSet(Taken(table)) /\ Cardinality(Taken(table)) \in Nat
         /\ \A e \in Emails, r \in Requests :
              /\ Cardinality(Taken([table EXCEPT ![e] = r])) \in Nat
              /\ Cardinality(Taken([table EXCEPT ![e] = r])) <= Cardinality(Taken(table)) + 1
<1>1. IsFiniteSet(Taken(table))
  <2>1. Taken(table) \subseteq Emails
    BY DEF Taken
  <2>2. QED
    BY <2>1, AuthAssumption, FS_Subset
<1>2. Cardinality(Taken(table)) \in Nat
  BY <1>1, FS_CardinalityType
<1>3. ASSUME NEW e \in Emails, NEW r \in Requests
      PROVE  /\ Cardinality(Taken([table EXCEPT ![e] = r])) \in Nat
             /\ Cardinality(Taken([table EXCEPT ![e] = r])) <= Cardinality(Taken(table)) + 1
  <2>1. Taken([table EXCEPT ![e] = r]) = Taken(table) \cup {e}
    BY Distinct DEF Taken, UserTable
  <2>2. Cardinality(Taken(table) \cup {e}) \in
          {Cardinality(Taken(table)), Cardinality(Taken(table)) + 1}
    BY <1>1, FS_AddElement
  <2>3. \A n \in Nat : \A m \in {n, n + 1} : m \in Nat /\ m <= n + 1
    OBVIOUS
  <2>4. /\ Cardinality(Taken(table) \cup {e}) \in Nat
        /\ Cardinality(Taken(table) \cup {e}) <= Cardinality(Taken(table)) + 1
    BY <1>2, <2>2, <2>3
  <2>5. QED
    BY <2>1, <2>4
<1>4. QED
  BY <1>1, <1>2, <1>3

LEMMA InitAccounts == Init => AccountsInv
<1> SUFFICES ASSUME Init PROVE AccountsInv
  OBVIOUS
<1> DEFINE first == CHOOSE e \in Emails : TRUE
<1>1. first \in Emails
  BY AuthAssumption
<1>2. users = [e \in Emails |-> IF e = first THEN Owner ELSE None] /\ disk.users = users
  BY DEF Init
<1>3. Taken(users) = {first}
  BY <1>1, <1>2, Distinct DEF Taken, Accounts
<1>4. Cardinality(Taken(users)) = 1
  BY <1>3, FS_Singleton
<1>5. /\ \A r \in Requests : pc[r] = "new"
      /\ joined = {Owner} /\ email[Owner] = first
  BY Distinct DEF Init
<1>6. Registering = {}
  BY <1>5 DEF Registering, Active
<1>7. LimitInv
  BY <1>2, <1>4, <1>5, AuthAssumption DEF LimitInv
<1>8. JoinedInv
  BY <1>1, <1>2, <1>5 DEF JoinedInv
<1>9. QED
  BY <1>5, <1>6, <1>7, <1>8 DEF AccountsInv, RivalsInv, MakingInv, Making

(* A step without a registration adds no rival and moves no address.        *)
LEMMA RivalsStep ==
  ASSUME Typed, ProcessInv, RivalsInv, [Next]_vars
  PROVE  RivalsInv' /\ rivals \subseteq rivals'
<1> USE DEF Typed
<1>1. ASSUME NEW r \in Requests, Register(r) PROVE RivalsInv' /\ rivals \subseteq rivals'
  <2>1. \A q \in Requests \ {r} : pc'[q] = pc[q] /\ ask'[q] = ask[q]
    BY <1>1, ServingMoves DEF Serving, Asks
  <2>2. Registering' \subseteq Registering \cup {r}
    BY <2>1 DEF Registering, Active
  <2>3. rivals' = IF Registering = {} THEN rivals ELSE rivals \cup Registering \cup {r}
    BY <1>1 DEF Register
  <2>4. QED
    BY <2>2, <2>3 DEF RivalsInv
<1>2. ASSUME rivals' = rivals, Registering' \subseteq Registering
      PROVE  RivalsInv' /\ rivals \subseteq rivals'
  BY <1>2 DEF RivalsInv
<1>3. ASSUME NEW r \in Requests, Serving(r), ~ Register(r)
      PROVE  rivals' = rivals /\ Registering' \subseteq Registering
  <2>1. \A q \in Requests \ {r} : pc'[q] = pc[q] /\ ask'[q] = ask[q]
    BY <1>3, ServingMoves
  <2>2. rivals' = rivals
    BY <1>3 DEF Serving, Asks, Works, Saves, Login, CountUsers, Present, CreateUser, SaveUsers,
           CreateToken, Revoke, RevokeAll, Revoking, BeginSave, EndSave, WriteFails
  <2>3. CASE Login(r) \/ Present(r)
    <3>1. ask'[r].op # "register"
      BY <2>3 DEF Login, Present, Asked
    <3>2. QED
      BY <2>1, <2>2, <3>1 DEF Registering, Active
  <2>4. CASE ~ (Login(r) \/ Present(r))
    <3>1. pc[r] \notin Over \cup {"new"}
      <4>1. pc[r] \notin Over
        BY <1>3, ServingMoves
      <4>2. pc[r] # "new"
        BY <1>3, <2>4, Distinct DEF Serving, Asks, Works, Saves, CountUsers, CreateUser, SaveUsers,
             CreateToken, Revoke, RevokeAll, BeginSave, Saving, EndSave, WriteFails, ProcessInv, Accounts
      <4>3. QED
        BY <4>1, <4>2
    <3>2. ask'[r].op = ask[r].op
      <4>1. CASE Revoke(r) \/ RevokeAll(r)
        <5>1. PICK mine \in SUBSET stored : ask' = [ask EXCEPT ![r].mine = mine]
          BY <4>1, RevokesStored
        <5>2. QED
          BY <5>1 DEF Asked
      <4>2. CASE ~ (Revoke(r) \/ RevokeAll(r))
        BY <1>3, <2>4, <4>2 DEF Serving, Asks, Works, Saves, CountUsers, CreateUser, SaveUsers,
             CreateToken, BeginSave, EndSave, WriteFails
      <4>3. QED
        BY <4>1, <4>2
    <3>3. QED
      BY <2>1, <2>2, <3>1, <3>2 DEF Registering, Active
  <2>5. QED
    BY <2>3, <2>4
<1>4. ASSUME \/ \E t \in Accounts : Expire(t)
             \/ \E s \in Secrets : LoseFile(s)
             \/ Kill \/ Starts \/ UNCHANGED vars
      PROVE  rivals' = rivals /\ Registering' \subseteq Registering
  <2>1. CASE Kill
    <3>1. rivals' = rivals /\ \A r \in Requests : pc'[r] \in Over \cup {"new"}
      BY <2>1 DEF Kill, Active, Over
    <3>2. QED
      BY <3>1 DEF Registering, Active
  <2>2. CASE ~ Kill
    <3>1. UNCHANGED <<rivals, pc, ask>>
      BY <1>4, <2>2 DEF Expire, LoseFile, Starts, Starting, LoadKeys, DerivePublic, WritePrivate,
           WritePublic, Serve, vars
    <3>2. QED
      BY <3>1 DEF Registering, Active
  <2>3. QED
    BY <2>1, <2>2
<1>5. QED
  BY <1>1, <1>2, <1>3, <1>4, NextSteps

(* The other actions of a request touch no account.                         *)
Elsewhere(r) ==
  /\ Serving(r)
  /\ ~ (Register(r) \/ CreateUser(r) \/ SaveUsers(r) \/ EndSave(r))

LEMMA ElsewhereKeeps ==
  ASSUME Typed, ProcessInv, NEW r \in Requests, Elsewhere(r)
  PROVE  /\ UNCHANGED <<users, disk, email, joined>>
         /\ pc'[r] = "count" => pc[r] = "count"
         /\ pc'[r] = "create_user" =>
              /\ pc[r] \in {"count", "create_user"}
              /\ pc[r] = "count" =>
                   ~ (MaxUsers > 0 /\ Cardinality(Taken(users)) >= MaxUsers)
         /\ pc'[r] = "save_users" => pc[r] = "save_users"
         /\ ask'[r].op = "register" =>
              /\ ask[r].op = "register"
              /\ pc'[r] \in Making => pc[r] \in Making
<1> USE DEF Typed, Elsewhere, repos, answers
<1>1. CASE Login(r)
  BY <1>1 DEF Login, Goto, Quietly, Asked
<1>2. CASE CountUsers(r)
  BY <1>2 DEF CountUsers, Goto, Quietly, Making, Taken
<1>3. CASE Present(r)
  <2>1. UNCHANGED <<users, disk, email, joined>> /\ ask'[r].op # "register"
    BY <1>3 DEF Present, Quietly, Asked
  <2>2. pc'[r] \notin {"count", "create_user", "save_users"}
    BY <1>3 DEF Present, Goto, Checked, First
  <2>3. QED
    BY <2>1, <2>2
<1>4. CASE CreateToken(r)
  BY <1>4 DEF CreateToken, Goto, Making
<1>5. CASE Revoke(r) \/ RevokeAll(r)
  <2>1. PICK mine \in SUBSET stored :
          /\ ask' = [ask EXCEPT ![r].mine = mine]
          /\ pc'[r] \in Over \cup {"save_revoked"}
          /\ UNCHANGED <<users, disk, email, answers>>
    BY <1>5, RevokesStored
  <2>2. ask'[r].op = ask[r].op
    BY <2>1 DEF Asked
  <2>3. QED
    BY <2>1, <2>2 DEF Over, Making
<1>6. CASE BeginSave(r)
  BY <1>6 DEF BeginSave, Saving
<1>7. CASE WriteFails(r)
  BY <1>7 DEF WriteFails, Goto, Making
<1>8. QED
  BY <1>1, <1>2, <1>3, <1>4, <1>5, <1>6, <1>7 DEF Serving, Asks, Works, Saves

(* What a fault or a start does to the accounts.                            *)
LEMMA FaultsKeep ==
  ASSUME Typed, ProcessInv,
         \/ \E t \in Accounts : Expire(t)
         \/ \E s \in Secrets : LoseFile(s)
         \/ Kill \/ Starts \/ UNCHANGED vars
  PROVE  /\ UNCHANGED <<disk, email, joined, ask>>
         /\ \/ UNCHANGED <<users, pc, phase>>
            \/ /\ \A r \in Requests : pc'[r] \in Over \cup {"new"}
               /\ \/ users' = [e \in Emails |-> None] /\ phase' = "down"
                  \/ users' = users /\ phase' # "up"
                  \/ users' = disk.users
<1> USE DEF Typed, repos, secrets, answers
<1>1. CASE Kill
  BY <1>1 DEF Kill, Active, Over
<1>2. CASE Starts
  <2>1. \A r \in Requests : pc[r] \in Over \cup {"new"}
    BY <1>2, NobodySaves DEF Starts, LoadKeys, DerivePublic, WritePrivate, WritePublic, Serve
  <2>2. UNCHANGED <<disk, email, joined, ask, pc>>
    BY <1>2 DEF Starts, Starting, LoadKeys, DerivePublic, WritePrivate, WritePublic, Serve
  <2>3. (users' = users /\ phase' # "up") \/ users' = disk.users
    BY <1>2 DEF Starts, LoadKeys, DerivePublic, WritePrivate, WritePublic, Serve
  <2>4. QED
    BY <2>1, <2>2, <2>3
<1>3. CASE ~ (Kill \/ Starts)
  BY <1>3 DEF Expire, LoseFile, vars
<1>4. QED
  BY <1>1, <1>2, <1>3

LEMMA JoinedStep ==
  ASSUME Typed, ProcessInv, TokensInv, OpsInv, RivalsInv, JoinedInv, MakingInv, [Next]_vars
  PROVE  JoinedInv'
<1> USE DEF Typed
<1>0. rivals \subseteq rivals'
  BY RivalsStep
<1>1. ASSUME NEW r \in Requests, Register(r) PROVE JoinedInv'
  <2>1. PICK e \in Emails :
          /\ pc' = [pc EXCEPT ![r] = IF users[e] # None THEN "refused" ELSE "count"]
          /\ email' = [email EXCEPT ![r] = e]
    BY <1>1 DEF Register, Goto
  <2>2. UNCHANGED <<users, disk, joined, phase>> /\ pc[r] = "new" /\ phase = "up"
    BY <1>1 DEF Register, Arrive, Quietly, repos, secrets, answers
  <2>3. r \notin joined
    BY <2>2 DEF TokensInv
  <2>4. ASSUME NEW u \in joined \ rivals' PROVE
          /\ disk'.users[email'[u]] = u /\ users'[email'[u]] = u
          /\ \A q \in Requests : pc'[q] \in {"count", "create_user"} => email'[q] # email'[u]
    <3>1. u \in Accounts /\ u # None /\ u # r /\ email'[u] = email[u] /\ u \notin rivals
      BY <1>0, <2>1, <2>3, Distinct DEF Tokens
    <3>2. disk.users[email[u]] = u /\ users[email[u]] = u
      BY <2>2, <3>1 DEF JoinedInv
    <3>3. ASSUME NEW q \in Requests, pc'[q] \in {"count", "create_user"} PROVE email'[q] # email'[u]
      <4>1. CASE q = r
        BY <2>1, <3>1, <3>2, <3>3, <4>1, Distinct
      <4>2. CASE q # r
        BY <2>1, <3>1, <3>3, <4>2, Distinct DEF JoinedInv
      <4>3. QED
        BY <4>1, <4>2
    <3>4. QED
      BY <2>2, <3>1, <3>2, <3>3
  <2>5. QED
    BY <2>2, <2>4 DEF JoinedInv
<1>2. ASSUME NEW r \in Requests, CreateUser(r) PROVE JoinedInv'
  <2>1. /\ users' = [users EXCEPT ![email[r]] = r] /\ pc[r] = "create_user"
        /\ pc' = [pc EXCEPT ![r] = "save_users"] /\ UNCHANGED <<disk, joined, email, phase>>
    BY <1>2 DEF CreateUser, Goto, secrets, answers
  <2>2. \A u \in joined \ rivals : email[r] # email[u]
    BY <2>1 DEF JoinedInv
  <2>3. QED
    BY <1>0, <2>1, <2>2 DEF JoinedInv, UserTable
<1>3. ASSUME NEW r \in Requests, SaveUsers(r) PROVE JoinedInv'
  <2>1. /\ disk'.users = users /\ pc' = [pc EXCEPT ![r] = "create"]
        /\ UNCHANGED <<users, joined, email, phase>>
    BY <1>3 DEF SaveUsers, Goto, secrets, answers, repos
  <2>2. phase = "up"
    BY <1>3, ServingMoves DEF Serving, Works
  <2>3. QED
    BY <1>0, <2>1, <2>2 DEF JoinedInv
<1>4. ASSUME NEW r \in Requests, EndSave(r) PROVE JoinedInv'
  <2>1. disk'.users = disk.users /\ UNCHANGED <<users, email, phase>>
    BY <1>4, Written DEF repos, secrets
  <2>2. /\ pc'[r] \in {"ok", "revoke"} /\ \A q \in Requests \ {r} : pc'[q] = pc[q]
        /\ phase = "up" /\ pc[r] \in {"save_new", "save_revoked"}
    <3>1. pc'[r] \in {"ok", "revoke"}
      BY <1>4, Ends DEF Answered
    <3>2. phase = "up" /\ \A q \in Requests \ {r} : pc'[q] = pc[q]
      BY <1>4, ServingMoves DEF Serving, Saves
    <3>3. pc[r] \in {"save_new", "save_revoked"}
      BY <1>4, Distinct DEF EndSave, ProcessInv, Saving, Accounts
    <3>4. QED
      BY <3>1, <3>2, <3>3
  <2>3. joined' = joined \/ (joined' = joined \cup {r} /\ ask[r].op = "register")
    BY <1>4, Ends DEF Answered, answers
  <2>4. ASSUME ask[r].op = "register", r \notin rivals
        PROVE  /\ disk.users[email[r]] = r /\ users[email[r]] = r
               /\ \A q \in Requests : pc[q] \notin {"count", "create_user"}
    <3>1. pc[r] = "save_new"
      BY <2>2, <2>4 DEF OpsInv
    <3>2. r \in Registering
      BY <2>4, <3>1 DEF Registering, Active, Over
    <3>3. ASSUME NEW q \in Requests, pc[q] \in {"count", "create_user"} PROVE FALSE
      <4>1. q \in Registering /\ q # r
        BY <3>1, <3>3 DEF Registering, Active, Over, OpsInv
      <4>2. QED
        BY <2>4, <3>2, <4>1 DEF RivalsInv
    <3>4. QED
      BY <2>4, <3>1, <3>3 DEF MakingInv, Making
  <2>5. QED
    BY <1>0, <2>1, <2>2, <2>3, <2>4 DEF JoinedInv
<1>5. ASSUME NEW r \in Requests, Elsewhere(r) PROVE JoinedInv'
  <2>1. \A q \in Requests \ {r} : pc'[q] = pc[q]
    BY <1>5, ServingMoves DEF Elsewhere
  <2>2. /\ UNCHANGED <<users, disk, email, joined>>
        /\ pc'[r] \in {"count", "create_user"} => pc[r] \in {"count", "create_user"}
    BY <1>5, ElsewhereKeeps
  <2>3. phase' = phase
    BY <1>5, ServingMoves DEF Elsewhere, secrets
  <2>4. QED
    BY <1>0, <2>1, <2>2, <2>3 DEF JoinedInv
<1>6. ASSUME \/ \E t \in Accounts : Expire(t)
             \/ \E s \in Secrets : LoseFile(s)
             \/ Kill \/ Starts \/ UNCHANGED vars
      PROVE  JoinedInv'
  <2>1. UNCHANGED <<disk, email, joined>>
    BY <1>6, FaultsKeep
  <2>2. CASE UNCHANGED <<users, pc, phase>>
    BY <1>0, <2>1, <2>2 DEF JoinedInv
  <2>3. CASE /\ \A r \in Requests : pc'[r] \in Over \cup {"new"}
             /\ phase' # "up" \/ users' = disk.users
    BY <1>0, <2>1, <2>3 DEF JoinedInv, Over
  <2>4. QED
    BY <1>6, <2>2, <2>3, FaultsKeep
<1>7. QED
  BY <1>1, <1>2, <1>3, <1>4, <1>5, <1>6, NextSteps DEF Elsewhere

LEMMA MakingStep ==
  ASSUME Typed, ProcessInv, OpsInv, RivalsInv, MakingInv, [Next]_vars
  PROVE  MakingInv'
<1> USE DEF Typed, Making
<1>0. rivals \subseteq rivals'
  BY RivalsStep
<1>1. ASSUME NEW r \in Requests, Serving(r)
      PROVE  \A q \in Requests \ {r} : pc'[q] = pc[q] /\ ask'[q] = ask[q]
  BY <1>1, ServingMoves
<1>2. ASSUME NEW r \in Requests, Register(r) PROVE MakingInv'
  <2>1. /\ pc'[r] \in {"refused", "count"} /\ \A q \in Accounts \ {r} : email'[q] = email[q]
        /\ UNCHANGED <<users, disk>>
    BY <1>2 DEF Register, Goto, Quietly, repos
  <2>2. QED
    BY <1>0, <1>1, <1>2, <2>1, Distinct DEF MakingInv, Serving, Asks
<1>3. ASSUME NEW r \in Requests, CreateUser(r) PROVE MakingInv'
  <2>1. /\ users' = [users EXCEPT ![email[r]] = r] /\ pc[r] = "create_user"
        /\ pc'[r] = "save_users" /\ UNCHANGED <<disk, email, ask>>
    BY <1>3 DEF CreateUser, Goto
  <2>2. r \in Registering
    BY <2>1 DEF Registering, Active, Over, OpsInv
  <2>3. ASSUME NEW u \in Requests \ rivals, u # r, ask[u].op = "register",
               pc[u] \in {"save_users"} \cup Making
        PROVE  FALSE
    <3>1. u \in Registering
      BY <2>3 DEF Registering, Active, Over
    <3>2. QED
      BY <2>2, <2>3, <3>1 DEF RivalsInv
  <2>4. users'[email[r]] = r
    BY <2>1, Distinct DEF UserTable
  <2>5. QED
    BY <1>0, <1>1, <1>3, <2>1, <2>3, <2>4 DEF MakingInv, Serving, Works
<1>4. ASSUME NEW r \in Requests, SaveUsers(r) PROVE MakingInv'
  <2>1. /\ disk'.users = users /\ pc[r] = "save_users" /\ pc'[r] = "create"
        /\ UNCHANGED <<users, email, ask>>
    BY <1>4 DEF SaveUsers, Goto, repos
  <2>2. QED
    BY <1>0, <1>1, <1>4, <2>1 DEF MakingInv, Serving, Works
<1>5. ASSUME NEW r \in Requests, EndSave(r) PROVE MakingInv'
  <2>1. disk'.users = disk.users /\ UNCHANGED <<users, email, ask>> /\ pc'[r] \in {"ok", "revoke"}
    BY <1>5, Written, Ends DEF repos, Answered
  <2>2. QED
    BY <1>0, <1>1, <1>5, <2>1 DEF MakingInv, Serving, Saves
<1>6. ASSUME NEW r \in Requests, Elsewhere(r) PROVE MakingInv'
  <2>1. /\ UNCHANGED <<users, disk, email>>
        /\ pc'[r] = "save_users" => pc[r] = "save_users"
        /\ ask'[r].op = "register" =>
             ask[r].op = "register" /\ (pc'[r] \in Making => pc[r] \in Making)
    BY <1>6, ElsewhereKeeps
  <2>2. QED
    BY <1>0, <1>1, <1>6, <2>1 DEF MakingInv, Elsewhere
<1>7. ASSUME \/ \E t \in Accounts : Expire(t)
             \/ \E s \in Secrets : LoseFile(s)
             \/ Kill \/ Starts \/ UNCHANGED vars
      PROVE  MakingInv'
  <2>1. UNCHANGED <<disk, email, ask>>
    BY <1>7, FaultsKeep
  <2>2. CASE UNCHANGED <<users, pc>>
    BY <1>0, <2>1, <2>2 DEF MakingInv
  <2>3. CASE \A r \in Requests : pc'[r] \in Over \cup {"new"}
    BY <2>3 DEF MakingInv, Over
  <2>4. QED
    BY <1>7, <2>2, <2>3, FaultsKeep
<1>8. QED
  BY <1>2, <1>3, <1>4, <1>5, <1>6, <1>7, NextSteps DEF Elsewhere

LEMMA LimitStep ==
  ASSUME Typed, ProcessInv, OpsInv, RivalsInv, LimitInv, [Next]_vars
  PROVE  LimitInv'
<1> USE DEF Typed
<1> SUFFICES ASSUME MaxUsers > 0, rivals' = {} PROVE LimitInv'
  BY DEF LimitInv
<1>0. rivals = {} /\ MaxUsers \in Nat
  BY RivalsStep, AuthAssumption
<1> DEFINE n == Cardinality(Taken(users))
           full == Cardinality(Taken(disk.users))
<1>1. /\ n \in Nat /\ full \in Nat /\ n <= MaxUsers /\ full <= MaxUsers
      /\ \A q \in Requests : pc[q] = "create_user" => n < MaxUsers
  <2>1. users \in UserTable /\ disk.users \in UserTable
    OBVIOUS
  <2>2. n \in Nat /\ full \in Nat
    BY <2>1, TakenSize
  <2>3. QED
    BY <1>0, <2>2 DEF LimitInv
<1>2. ASSUME NEW r \in Requests, Serving(r)
      PROVE  \A q \in Requests \ {r} : pc'[q] = pc[q]
  BY <1>2, ServingMoves
<1>3. ASSUME NEW r \in Requests, CreateUser(r) PROVE LimitInv'
  <2>1. /\ users' = [users EXCEPT ![email[r]] = r] /\ pc[r] = "create_user"
        /\ pc'[r] = "save_users" /\ UNCHANGED disk
    BY <1>3 DEF CreateUser, Goto
  <2>2. email[r] \in Emails /\ users \in UserTable
    BY Distinct
  <2>3. Cardinality(Taken(users')) \in Nat /\ Cardinality(Taken(users')) <= n + 1
    BY <2>1, <2>2, TakenSize
  <2>4. n < MaxUsers
    BY <1>1, <2>1
  <2>5. Cardinality(Taken(users')) <= MaxUsers
    BY <1>0, <1>1, <2>3, <2>4
  <2>6. \A q \in Requests : pc'[q] # "create_user"
    <3>1. r \in Registering
      BY <2>1 DEF Registering, Active, Over, OpsInv
    <3>2. ASSUME NEW q \in Requests, q # r, pc[q] = "create_user" PROVE FALSE
      <4>1. q \in Registering
        BY <3>2 DEF Registering, Active, Over, OpsInv
      <4>2. QED
        BY <1>0, <3>1, <3>2, <4>1 DEF RivalsInv
    <3>3. QED
      BY <1>2, <1>3, <2>1, <3>2 DEF Serving, Works
  <2>7. QED
    BY <1>1, <2>1, <2>5, <2>6 DEF LimitInv
<1>4. ASSUME NEW r \in Requests, SaveUsers(r) PROVE LimitInv'
  <2>1. disk'.users = users /\ users' = users /\ pc'[r] = "create"
    BY <1>4 DEF SaveUsers, Goto, repos
  <2>2. QED
    BY <1>1, <1>2, <1>4, <2>1 DEF LimitInv, Serving, Works
<1>5. ASSUME NEW r \in Requests, Register(r) \/ EndSave(r) PROVE LimitInv'
  <2>1. disk'.users = disk.users /\ users' = users /\ pc'[r] # "create_user"
    <3>1. CASE Register(r)
      BY <3>1 DEF Register, Quietly, Goto, repos
    <3>2. CASE EndSave(r)
      BY <3>2, Written, Ends DEF repos, Answered
    <3>3. QED
      BY <1>5, <3>1, <3>2
  <2>2. QED
    BY <1>1, <1>2, <1>5, <2>1 DEF LimitInv, Serving, Saves, Asks
<1>6. ASSUME NEW r \in Requests, Elsewhere(r) PROVE LimitInv'
  <2>1. /\ UNCHANGED <<users, disk>>
        /\ pc'[r] = "create_user" =>
             /\ pc[r] \in {"count", "create_user"}
             /\ pc[r] = "count" => ~ (MaxUsers > 0 /\ n >= MaxUsers)
    BY <1>6, ElsewhereKeeps
  <2>2. pc'[r] = "create_user" => n < MaxUsers
    BY <1>0, <1>1, <2>1
  <2>3. QED
    BY <1>1, <1>2, <1>6, <2>1, <2>2 DEF LimitInv, Elsewhere
<1>7. ASSUME \/ \E t \in Accounts : Expire(t)
             \/ \E s \in Secrets : LoseFile(s)
             \/ Kill \/ Starts \/ UNCHANGED vars
      PROVE  LimitInv'
  <2>1. UNCHANGED disk
    BY <1>7, FaultsKeep
  <2>2. CASE UNCHANGED <<users, pc>>
    BY <1>1, <2>1, <2>2 DEF LimitInv
  <2>3. CASE /\ \A r \in Requests : pc'[r] \in Over \cup {"new"}
             /\ users' = users \/ users' = disk.users
    BY <1>1, <2>1, <2>3 DEF LimitInv, Over
  <2>4. CASE /\ \A r \in Requests : pc'[r] \in Over \cup {"new"}
             /\ users' = [e \in Emails |-> None]
    <3>1. Taken(users') = {}
      BY <2>4 DEF Taken
    <3>2. Cardinality(Taken(users')) = 0
      BY <3>1, FS_EmptySet
    <3>3. QED
      BY <1>0, <1>1, <2>1, <2>4, <3>2 DEF LimitInv, Over
  <2>5. QED
    BY <1>7, <2>2, <2>3, <2>4, FaultsKeep
<1>8. QED
  BY <1>3, <1>4, <1>5, <1>6, <1>7, NextSteps DEF Elsewhere

-----------------------------------------------------------------------------
(* Theorems *)

ServiceInv ==
  /\ Typed /\ ProcessInv /\ KeysInv /\ TokensInv
  /\ RevokedInv /\ ToldInv /\ OpsInv /\ HeldInv /\ AccountsInv

LEMMA InvariantHolds == Spec => []ServiceInv
<1>1. Init => ServiceInv
  BY InitTyped, InitProcess, InitKeys, InitTokens, InitRevoked, InitTold, InitOps, InitHeld, InitAccounts
     DEF ServiceInv
<1>2. ServiceInv /\ [Next]_vars => ServiceInv'
  BY TypedStep, ProcessStep, KeysStep, TokensStep, RevokedStep, ToldStep, OpsStep, SecretsStep,
     SurvivingStep, RivalsStep, JoinedStep, MakingStep, LimitStep
     DEF ServiceInv, HeldInv, AccountsInv
<1>3. QED
  BY <1>1, <1>2, PTL DEF Spec

(* The state of the service is always well typed: every account has a role, *)
(* and the mutex of the token repository is held only by a request at one  *)
(* of its two saves.                                                       *)
THEOREM TypeCorrect == Spec => []TypeOK
<1>1. ServiceInv => TypeOK
  <2> SUFFICES ASSUME ServiceInv PROVE TypeOK
    OBVIOUS
  <2> USE DEF ServiceInv, Typed
  <2>1. {users[e] : e \in Emails} \ {None} \subseteq roles
    BY DEF ProcessInv, HasRoles
  <2>2. saveMu.by # None => pc[saveMu.by] \in {"save_new", "save_revoked"}
    BY DEF ProcessInv, Saving
  <2>3. stored \cup revoked \subseteq Accounts
    BY DEF Tokens
  <2>4. QED
    BY <2>1, <2>2, <2>3 DEF TypeOK, UserTable, Generations
<1>2. QED
  BY <1>1, InvariantHolds, PTL

(* A service that is up signs and verifies with one pair, the one on disk,  *)
(* unless a start that made a new pair was killed half way                  *)
(* (loadOrGenerateKeyPair).                                                *)
THEOREM KeysBelongTogether == Spec => []KeysMatch
<1>1. ServiceInv => KeysMatch
  BY DEF ServiceInv, KeysInv, KeysMatch
<1>2. QED
  BY <1>1, InvariantHolds, PTL

(* A token an acknowledged request used or revoked is dead in memory and on *)
(* disk, whatever is saved meanwhile and however often the process is       *)
(* killed; one that an acknowledged logout found dead already is dead until *)
(* a kill that comes before it is saved (Refresh, Logout, LogoutAll; save). *)
THEOREM RevokedIsDead == Spec => []RevokedIsRefused
<1>1. ServiceInv => OwnRevocationHolds
  BY DEF ServiceInv, RevokedInv, Dead, OwnRevocationHolds
<1>2. ServiceInv => FoundDeadStaysDead
  BY DEF ServiceInv, ToldInv, Dead, FoundDeadStaysDead
<1>3. QED
  BY <1>1, <1>2, InvariantHolds, PTL DEF RevokedIsRefused

(* A token a client holds works until it is revoked or expires or its       *)
(* secrets are lost (Create, cleanupLocked, load, loadOrGenerateKeyPair,    *)
(* loadOrGenerateSalt).                                                    *)
THEOREM HeldWorks == Spec => []HeldIsUsable
<1>1. ServiceInv => HeldIsUsable
  <2> SUFFICES ASSUME ServiceInv, NEW t \in held \ (ended \cup expired)
               PROVE  /\ t \in disk.stored \ disk.revoked
                      /\ phase = "up" =>
                           /\ t \in stored \ revoked
                           /\ \A s \in {"priv", "salt"} \ lost : issued[t].by[s] = secret[s]
    BY DEF HeldIsUsable
  <2>1. t \in Accounts
    BY DEF ServiceInv, Typed, Tokens
  <2>2. t \in disk.stored /\ (phase = "up" => t \in stored)
    BY <2>1 DEF ServiceInv, HeldInv, Surviving, Kept
  <2>3. t \notin revoked \cup disk.revoked
    BY DEF ServiceInv, TokensInv
  <2>4. \A s \in {"priv", "salt"} \ lost : issued[t].by[s] = secret[s]
    BY <2>1 DEF ServiceInv, HeldInv, FirstSecrets
  <2>5. QED
    BY <2>2, <2>3, <2>4
<1>2. QED
  BY <1>1, InvariantHolds, PTL

(* An account whose registration was acknowledged keeps its address, and    *)
(* the limit of accounts is kept, except by registrations that overlapped   *)
(* (Register, UserRepo.Create, Count).                                     *)
THEOREM AccountsStay == Spec => []RegisteredIsKept
<1>1. ServiceInv => RegisteredIsKept
  <2> SUFFICES ASSUME ServiceInv PROVE RegisteredIsKept
    OBVIOUS
  <2> USE DEF ServiceInv, AccountsInv
  <2>1. ASSUME NEW u \in joined \ rivals
        PROVE  /\ disk.users[email[u]] = u /\ u \in disk.roles
               /\ phase = "up" => users[email[u]] = u /\ u \in roles
    <3>1. u \in Accounts /\ u # None /\ email[u] \in Emails
      BY Distinct DEF Typed, Tokens
    <3>2. QED
      BY <3>1 DEF JoinedInv, ProcessInv, HasRoles
  <2>2. MaxUsers > 0 /\ rivals = {} => Cardinality({e \in Emails : users[e] # None}) <= MaxUsers
    BY DEF LimitInv, Taken
  <2>3. QED
    BY <2>1, <2>2 DEF RegisteredIsKept
<1>2. QED
  BY <1>1, InvariantHolds, PTL

=============================================================================
