----------------------------- MODULE AuthTokens -----------------------------
(***************************************************************************)
(* The auth service: accounts, refresh tokens and the secrets they depend  *)
(* on, in the memory of the process and in its files.                      *)
(*                                                                         *)
(* Every request is a goroutine; an action is what it does under one lock. *)
(* A refresh token, and an account, has the name of the request that       *)
(* creates it.  The process may be killed anywhere and starts again from   *)
(* its files, which an operator may lose while it is down.                 *)
(***************************************************************************)
EXTENDS Naturals, FiniteSets

CONSTANTS
  Requests,  \* requests that will ever be made
  Emails,    \* addresses of accounts
  Owner,     \* the account there is at the beginning, and its token
  None,      \* no account, no request
  MaxUsers,  \* AUTH_MAX_USERS, 0 for no limit
  MaxActive, \* requests in flight at once
  MaxFaults  \* kills, failed writes, lost files and expiries

ASSUME AuthAssumption ==
  /\ MaxUsers \in Nat
  /\ Owner \notin Requests /\ None \notin Requests \cup {Owner}
  /\ IsFiniteSet(Emails) /\ Emails # {}

VARIABLES
  phase,    \* of the process: down, half (of a key pair), keyed or up
  files,    \* secret files: the generation of each, 0 when missing
  secret,   \* the secrets the process uses
  users,    \* usersAuth: the account of each email
  roles,    \* usersRole: accounts with a role
  stored,   \* keys of the map of refresh tokens
  revoked,  \* token models with RevokedAt set
  disk,     \* what the two repositories have written
  saveMu,   \* request that holds saveMu of the token repo, and its snapshot
  pc,       \* where each request is
  ask,      \* what each request asks for
  (* History *)
  issued,   \* secrets each token and account was made with, and its user
  email,    \* email of each account
  held,     \* tokens handed to a client
  over,     \* tokens revoked by a request that was acknowledged
  told,     \* tokens a logout found dead, and said so, not saved by a kill
  ended,    \* tokens some request revoked
  expired,  \* tokens past ExpiresAt
  joined,   \* accounts whose registration was acknowledged
  rivals,   \* accounts whose registrations overlapped
  lost,     \* secret files lost so far
  torn,     \* a start was cut off between the two files of a key pair
  faults    \* faults so far

repos == <<users, roles, stored, revoked>>
secrets == <<phase, files, secret, lost, torn>>
answers == <<held, over, joined>>

vars == <<secrets, repos, disk, saveMu, pc, ask, issued, email, answers,
          ended, expired, rivals, told, faults>>
-----------------------------------------------------------------------------
Accounts == Requests \cup {Owner}

Secrets == {"priv", "pub", "salt", "pepper"}

Labels == {"new", "count", "create_user", "save_users", "create", "save_new",
           "revoke", "revoke_all", "save_revoked", "ok", "refused", "error",
           "lost"}

Over == {"ok", "refused", "error", "lost"}

Active == {r \in Requests : pc[r] \notin Over \cup {"new"}}

NoAsk == [op |-> "none", token |-> None, user |-> None, mine |-> {}]

Free == [by |-> None, stored |-> {}, revoked |-> {}]

TypeOK ==
  /\ phase \in {"down", "half", "keyed", "up"}
  /\ files \in [Secrets -> Nat] /\ secret \in [Secrets -> Nat]
  /\ users \in [Emails -> Accounts \cup {None}]
  /\ {users[e] : e \in Emails} \ {None} \subseteq roles
  /\ stored \cup revoked \subseteq Accounts
  /\ pc \in [Requests -> Labels]
  /\ saveMu.by # None => pc[saveMu.by] \in {"save_new", "save_revoked"}

(* One account and its session, and a process that runs. *)
Init ==
  LET first == CHOOSE e \in Emails : TRUE
      all == [s \in Secrets |-> 1]
  IN  /\ phase = "up" /\ files = all /\ secret = all
      /\ users = [e \in Emails |-> IF e = first THEN Owner ELSE None]
      /\ roles = {Owner} /\ stored = {Owner} /\ revoked = {}
      /\ disk = [users |-> users, roles |-> roles, stored |-> stored,
                 revoked |-> revoked]
      /\ saveMu = Free
      /\ pc = [r \in Requests |-> "new"]
      /\ ask = [r \in Requests |-> NoAsk]
      /\ issued = [a \in Accounts |-> [by |-> all, user |-> Owner]]
      /\ email = [a \in Accounts |-> first]
      /\ held = {Owner} /\ joined = {Owner}
      /\ over = {} /\ told = {} /\ ended = {} /\ expired = {} /\ rivals = {}
      /\ lost = {} /\ torn = FALSE /\ faults = 0
-----------------------------------------------------------------------------
(* Requests arrive while the service is up *)

Goto(r, label) == pc' = [pc EXCEPT ![r] = label]

Arrive(r) ==
  /\ pc[r] = "new"
  /\ phase = "up"
  /\ Cardinality(Active) < MaxActive

Quietly == UNCHANGED <<repos, disk, saveMu, secrets, expired, faults, ended>>

(* The password belongs to one account; its hash depends on the pepper.     *)
Login(r) ==
  /\ Arrive(r)
  /\ \E e \in Emails, owner \in joined :
       LET good == users[e] = owner
                     /\ issued[owner].by["pepper"] = secret["pepper"]
       IN  /\ Goto(r, IF good THEN "create" ELSE "refused")
           /\ ask' = [ask EXCEPT ![r].op = "login", ![r].user = owner]
  /\ Quietly /\ UNCHANGED <<issued, email, answers, rivals, told>>

Registering == {q \in Active : ask[q].op = "register"}

Register(r) ==
  /\ Arrive(r)
  /\ \E e \in Emails :
       /\ Goto(r, IF users[e] # None THEN "refused" ELSE "count")
       /\ email' = [email EXCEPT ![r] = e]
  /\ ask' = [ask EXCEPT ![r].op = "register", ![r].user = r]
  /\ rivals' = IF Registering = {} THEN rivals
                                   ELSE rivals \cup Registering \cup {r}
  /\ Quietly /\ UNCHANGED <<issued, answers, told>>

CountUsers(r) ==
  LET count == Cardinality({e \in Emails : users[e] # None})
  IN  /\ pc[r] = "count"
      /\ Goto(r, IF MaxUsers > 0 /\ count >= MaxUsers THEN "refused"
                                                      ELSE "create_user")
      /\ Quietly /\ UNCHANGED <<ask, issued, email, answers, rivals, told>>

(* An account with the same email is replaced. *)
CreateUser(r) ==
  /\ pc[r] = "create_user"
  /\ users' = [users EXCEPT ![email[r]] = r]
  /\ roles' = roles \cup {r}
  /\ issued' = [issued EXCEPT ![r] = [by |-> secret, user |-> r]]
  /\ Goto(r, "save_users")
  /\ UNCHANGED <<stored, revoked, disk, saveMu, secrets, expired, faults,
                 ended, ask, email, answers, rivals, told>>

(* Variant, to test RegisteredIsKept: the new account is written only with  *)
(* the next one.                                                            *)
SaveUsers_Deferred(r) ==
  /\ pc[r] = "save_users"
  /\ Goto(r, "create")
  /\ disk' = [disk EXCEPT !.users = [users EXCEPT ![email[r]] = None],
                          !.roles = roles \ {r}]
  /\ UNCHANGED <<repos, saveMu, secrets, expired, faults, ended, ask,
                 issued, email, answers, rivals, told>>

(* Both read locks are held until the file is in place. *)
SaveUsers(r) ==
  /\ pc[r] = "save_users"
  /\ Goto(r, "create")
  /\ disk' = [disk EXCEPT !.users = users, !.roles = roles]
  /\ UNCHANGED <<repos, saveMu, secrets, expired, faults, ended, ask,
                 issued, email, answers, rivals, told>>
-----------------------------------------------------------------------------
(* Requests that present a refresh token *)

(* Signature and expiry of the token itself. *)
Verified(t) == issued[t].by["priv"] = secret["pub"]

(* The map is keyed by a hash of token and salt. *)
Found(t) == t \in stored /\ issued[t].by["salt"] = secret["salt"]

First(op) ==
  CASE op = "refresh" -> "create" [] op = "logout" -> "revoke"
    [] op = "logout_all" -> "revoke_all"

(* validateRefreshTokenWithDB and the user's role.  What is not found is,   *)
(* to a logout, a success.                                                  *)
Checked(op, t) ==
  IF ~Verified(t) THEN "error"
  ELSE IF t \in expired THEN "refused"
  ELSE IF ~Found(t) THEN (IF op = "refresh" THEN "refused" ELSE "ok")
  ELSE IF t \in revoked THEN "refused"
  ELSE IF op = "refresh" /\ issued[t].user \notin roles THEN "error"
  ELSE First(op)

Present(r) ==
  /\ Arrive(r)
  /\ \E op \in {"refresh", "logout", "logout_all"}, t \in held :
       /\ Goto(r, Checked(op, t))
       /\ ask' = [ask EXCEPT ![r] = [op |-> op, token |-> t, mine |-> {},
                                     user |-> issued[t].user]]
       /\ told' = IF Checked(op, t) = "ok" THEN told \cup ({t} \ stored)
                                           ELSE told
  /\ Quietly /\ UNCHANGED <<issued, email, answers, rivals>>

(* Variant, to test HeldIsUsable: every other session of the user goes.     *)
Cleaned_AllOthers(user) == {t \in stored : issued[t].user = user}

(* Revoked and expired tokens of the user are dropped. *)
Cleaned(user) ==
  {t \in stored : issued[t].user = user /\ t \in revoked \cup expired}

(* generateTokenPair stores the new refresh token. *)
CreateToken(r) ==
  /\ pc[r] = "create"
  /\ stored' = (stored \ Cleaned(ask[r].user)) \cup {r}
  /\ issued' = [issued EXCEPT ![r] = [by |-> secret, user |-> ask[r].user]]
  /\ Goto(r, "save_new")
  /\ UNCHANGED <<users, roles, revoked, disk, saveMu, secrets, expired,
                 faults, ended, ask, email, answers, rivals, told>>

Revoking(r, mine, label) ==
  /\ revoked' = revoked \cup mine
  /\ ended' = ended \cup mine
  /\ ask' = [ask EXCEPT ![r].mine = mine]
  /\ Goto(r, label)
  /\ UNCHANGED <<users, roles, stored, disk, saveMu, secrets, expired,
                 faults, issued, email, answers, rivals>>

(* A token dropped meanwhile fails a refresh, whose new token stays stored. *)
Revoke(r) ==
  LET t == ask[r].token
  IN  /\ pc[r] = "revoke"
      /\ IF t \in stored THEN Revoking(r, {t}, "save_revoked")
         ELSE Revoking(r, {}, IF ask[r].op = "refresh" THEN "refused"
                                                       ELSE "ok")
      /\ told' = IF t \in stored \/ ask[r].op = "refresh" THEN told
                                                        ELSE told \cup {t}

(* With nothing left to revoke, nothing is saved: not what another request  *)
(* revoked and has not saved yet, either.                                   *)
RevokeAll(r) ==
  LET all == {t \in stored : issued[t].user = ask[r].user}
  IN  /\ pc[r] = "revoke_all"
      /\ IF all \subseteq revoked
         THEN Revoking(r, {}, "ok") /\ told' = told \cup all
         ELSE Revoking(r, all, "save_revoked") /\ told' = told

Saving(r) == pc[r] \in {"save_new", "save_revoked"}

(* The snapshot is taken inside saveMu: it holds pointers to the models.    *)
BeginSave(r) ==
  /\ Saving(r)
  /\ saveMu.by = None
  /\ saveMu' = [by |-> r, stored |-> stored, revoked |-> revoked]
  /\ UNCHANGED <<repos, disk, secrets, expired, faults, ended, pc, ask,
                 issued, email, answers, rivals, told>>

(* The answer to a request whose last step this is. *)
Answer(r) ==
  /\ Goto(r, "ok")
  /\ over' = over \cup ask[r].mine
  /\ held' = IF ask[r].op \in {"login", "register", "refresh"}
             THEN held \cup {r} ELSE held
  /\ joined' = IF ask[r].op = "register" THEN joined \cup {r} ELSE joined

(* Variant, to test RevokedIsRefused: a refresh marks its token as used and *)
(* leaves the file to the next request.                                     *)
EndSave_NewOnly(r) ==
  /\ saveMu.by = r
  /\ disk' = [disk EXCEPT !.stored = saveMu.stored,
                !.revoked = IF pc[r] = "save_new"
                            THEN saveMu.stored \cap saveMu.revoked ELSE @]
  /\ saveMu' = Free
  /\ IF pc[r] = "save_new" /\ ask[r].op = "refresh"
     THEN Goto(r, "revoke") /\ UNCHANGED answers
     ELSE Answer(r)
  /\ UNCHANGED <<repos, secrets, expired, faults, ended, ask, issued, email,
                 rivals, told>>

(* The models are read again, unlocked, while they are written out: a model *)
(* revoked since the snapshot may come out either way.                      *)
EndSave(r) ==
  /\ saveMu.by = r
  /\ \E late \in SUBSET ((revoked \ saveMu.revoked) \cap saveMu.stored) :
       disk' = [disk EXCEPT !.stored = saveMu.stored,
                  !.revoked = (saveMu.stored \cap saveMu.revoked) \cup late]
  /\ saveMu' = Free
  /\ IF pc[r] = "save_new" /\ ask[r].op = "refresh"
     THEN Goto(r, "revoke") /\ UNCHANGED answers
     ELSE Answer(r)
  /\ UNCHANGED <<repos, secrets, expired, faults, ended, ask, issued, email,
                 rivals, told>>
-----------------------------------------------------------------------------
(* Failures *)

Fault == faults < MaxFaults /\ faults' = faults + 1

(* A file cannot be written: memory keeps the change, the request fails.    *)
WriteFails(r) ==
  /\ Fault
  /\ pc[r] = "save_users" \/ saveMu.by = r
  /\ Goto(r, "error")
  /\ saveMu' = IF saveMu.by = r THEN Free ELSE saveMu
  /\ UNCHANGED <<repos, disk, secrets, expired, ended, ask, issued, email,
                 answers, rivals, told>>

Expire(t) ==
  /\ Fault
  /\ t \in stored \ expired
  /\ expired' = expired \cup {t}
  /\ UNCHANGED <<repos, disk, saveMu, secrets, ended, pc, ask, issued, email,
                 answers, rivals, told>>

(* The files are replaced by a rename, so a kill leaves them whole. *)
Kill ==
  /\ Fault
  /\ phase # "down"
  /\ phase' = "down"
  /\ torn' = (torn \/ (phase = "half" /\ files["pub"] # 0))
  /\ users' = [e \in Emails |-> None] /\ roles' = {}
  /\ stored' = {} /\ revoked' = {}
  /\ saveMu' = Free
  /\ pc' = [r \in Requests |-> IF r \in Active THEN "lost" ELSE pc[r]]
  /\ told' = told \ (disk.stored \ disk.revoked)
  /\ UNCHANGED <<files, secret, lost, disk, expired, ended, ask, issued,
                 email, answers, rivals>>

LoseFile(s) ==
  /\ Fault
  /\ phase = "down" /\ files[s] # 0
  /\ files' = [files EXCEPT ![s] = 0]
  /\ lost' = lost \cup {s}
  /\ UNCHANGED <<phase, secret, torn, repos, disk, saveMu, expired, ended, pc,
                 ask, issued, email, answers, rivals, told>>

(* A secret generated now differs from any before: its file was lost.       *)
Generation == faults + 1

Starting == UNCHANGED <<disk, saveMu, lost, expired, faults, ended, pc, ask,
                        issued, email, answers, rivals, told>>

KeyPair(g) == [secret EXCEPT !["priv"] = g, !["pub"] = g]

(* Both files there: they are used as they are. *)
LoadKeys ==
  /\ phase = "down" /\ files["priv"] # 0 /\ files["pub"] # 0
  /\ secret' = [secret EXCEPT !["priv"] = files["priv"],
                              !["pub"] = files["pub"]]
  /\ phase' = "keyed"
  /\ Starting /\ UNCHANGED <<files, torn, repos>>

(* The public key is derived from the private one. *)
DerivePublic ==
  /\ phase = "down" /\ files["priv"] # 0 /\ files["pub"] = 0
  /\ secret' = KeyPair(files["priv"])
  /\ files' = [files EXCEPT !["pub"] = files["priv"]]
  /\ phase' = "keyed" /\ torn' = FALSE
  /\ Starting /\ UNCHANGED repos

(* A new pair replaces both files, the private key first. *)
WritePrivate ==
  /\ phase = "down" /\ files["priv"] = 0
  /\ secret' = KeyPair(Generation)
  /\ files' = [files EXCEPT !["priv"] = Generation]
  /\ phase' = "half"
  /\ Starting /\ UNCHANGED <<torn, repos>>

(* Variant, to test KeysMatch: a public key that is there is left alone.    *)
WritePublic_KeepsOrphan ==
  /\ phase = "half"
  /\ files' = [files EXCEPT !["pub"] = IF @ = 0 THEN secret["pub"] ELSE @]
  /\ phase' = "keyed" /\ torn' = FALSE
  /\ Starting /\ UNCHANGED <<secret, repos>>

WritePublic ==
  /\ phase = "half"
  /\ files' = [files EXCEPT !["pub"] = secret["pub"]]
  /\ phase' = "keyed" /\ torn' = FALSE
  /\ Starting /\ UNCHANGED <<secret, repos>>

(* Pepper and salt are read, or made and written; the repositories load.    *)
Serve ==
  LET Kept(s) == IF files[s] = 0 THEN Generation ELSE files[s]
  IN  /\ phase = "keyed"
      /\ phase' = "up"
      /\ files' = [files EXCEPT !["pepper"] = Kept("pepper"),
                                !["salt"] = Kept("salt")]
      /\ secret' = [secret EXCEPT !["pepper"] = Kept("pepper"),
                                  !["salt"] = Kept("salt")]
      /\ users' = disk.users /\ roles' = disk.roles
      /\ stored' = disk.stored /\ revoked' = disk.revoked
      /\ Starting /\ UNCHANGED torn

Quiet ==
  /\ \A r \in Requests : pc[r] \in Over
  /\ phase = "up"
  /\ UNCHANGED vars

Next ==
  \/ \E r \in Requests :
       \/ Login(r) \/ Register(r) \/ CountUsers(r) \/ CreateUser(r)
       \/ SaveUsers(r) \/ Present(r) \/ CreateToken(r) \/ Revoke(r)
       \/ RevokeAll(r) \/ BeginSave(r) \/ EndSave(r) \/ WriteFails(r)
  \/ \E t \in Accounts : Expire(t)
  \/ \E s \in Secrets : LoseFile(s)
  \/ Kill \/ LoadKeys \/ DerivePublic \/ WritePrivate \/ WritePublic \/ Serve
  \/ Quiet

Spec == Init /\ [][Next]_vars
-----------------------------------------------------------------------------
(* Properties *)

(* A refresh token that an acknowledged request used or revoked is refused  *)
(* from then on, whatever other requests save meanwhile and however often   *)
(* the process is killed (Refresh, Logout, LogoutAll; save).                *)
OwnRevocationHolds ==
  \A t \in over :
    /\ t \notin disk.stored \ disk.revoked
    /\ phase = "up" => t \notin stored \ revoked

(* A logout that found nothing to revoke, the token being dropped or every  *)
(* token of the user revoked, answers success without a save.  What it      *)
(* vouches for is refused too, but only by this process: the revocation may *)
(* be another request's, and a kill before that one's save brings it back.  *)
FoundDeadStaysDead ==
  phase = "up" => told \cap (stored \ revoked) = {}

(* Both, for every request that told its client a token is gone.            *)
RevokedIsRefused == OwnRevocationHolds /\ FoundDeadStaysDead

(* A token handed to a client works until someone revokes it, it expires or *)
(* the secrets it was made with are lost: concurrent requests of the same   *)
(* user, cleanup and restarts do not take it (Create, cleanupLocked, load,  *)
(* loadOrGenerateKeyPair, loadOrGenerateSalt).                              *)
HeldIsUsable ==
  \A t \in held \ (ended \cup expired) :
    /\ t \in disk.stored \ disk.revoked
    /\ phase = "up" =>
         /\ t \in stored \ revoked
         /\ \A s \in {"priv", "salt"} \ lost : issued[t].by[s] = secret[s]

(* A service that is up verifies with the key that belongs to the one it    *)
(* signs with, and serves that key next time too, unless a start that made  *)
(* a new pair was killed while the public key of the lost one was still     *)
(* there (loadOrGenerateKeyPair).                                           *)
KeysMatch ==
  phase \in {"keyed", "up"} /\ ~torn =>
    /\ secret["priv"] = secret["pub"]
    /\ files["pub"] = secret["pub"]

(* An account whose registration was acknowledged keeps its email, on disk  *)
(* too, and there are no more accounts than the limit, except by            *)
(* registrations that overlapped (Register, UserRepo.Create, Count).        *)
RegisteredIsKept ==
  /\ \A u \in joined \ rivals :
       /\ disk.users[email[u]] = u /\ u \in disk.roles
       /\ phase = "up" => users[email[u]] = u /\ u \in roles
  /\ MaxUsers > 0 /\ rivals = {} =>
       Cardinality({e \in Emails : users[e] # None}) <= MaxUsers
-----------------------------------------------------------------------------
(* What a comment says and the code does not keep. *)

(* A logout whose token is already invalid is answered with 200.            *)
LogoutIsIdempotent ==
  \A r \in Requests : ask[r].op = "logout" => pc[r] # "refused"
=============================================================================
