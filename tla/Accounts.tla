------------------------------ MODULE Accounts ------------------------------
(***************************************************************************)
(* Users, web sessions and API tokens of distsrv, and the admin requests   *)
(* that change them.                                                       *)
(*                                                                         *)
(* Each SQL statement is atomic, a handler is a sequence of them: the      *)
(* account a request acts for is the row its middleware read (job.me), the *)
(* account it acts on the row its handler read (job.target), and both may  *)
(* be stale when the statement that writes runs.  User names and passwords *)
(* are left out: a login whose password was right names the row it read.   *)
(***************************************************************************)
EXTENDS Naturals, FiniteSets

CONSTANTS
    Procs,          \* goroutines that may serve a request at the same time
    Legacy,         \* users of a database older than the is_admin column
    RemovesLine,    \* does the operator delete admin.password, as README says
    MaxUsers,       \* bound: accounts ever created
    MaxSessions,    \* bound: sessions ever created
    MaxTokens,      \* bound: API tokens ever created
    MaxCrashes      \* bound: process kills

ASSUME AccountsAssumption ==
    /\ Legacy \in Nat /\ RemovesLine \in BOOLEAN
    /\ MaxUsers \in Nat /\ MaxSessions \in Nat /\ MaxTokens \in Nat
    /\ MaxCrashes \in Nat

VARIABLES
    users,      \* table users: [id, admin, disabled, born]
    sessions,   \* table sessions: [tok, user, born]
    tokens,     \* table api_tokens: [id, user, born]
    lastUid,    \* AUTOINCREMENT counter of users
    lastTok,    \* number of random session tokens drawn
    lastTid,    \* AUTOINCREMENT counter of api_tokens
    pwLine,     \* does config.toml have admin.password
    mode,       \* "down", "booting", "serving"
    pc, job,    \* next step and locals of each request
    crashes,
    births,     \* history: accounts ever created, the ghost behind "born"
    overlap,    \* history: a user was changed while another request was
                \* about to change one
    stray       \* history: sessions given to a disabled user, or left by a
                \* disabling that a kill or an error cut short

tables == <<users, sessions, tokens, lastUid, lastTok, lastTid>>
config == <<pwLine, mode>>
history == <<births, overlap, stray>>
vars == <<tables, config, pc, job, crashes, history>>

-----------------------------------------------------------------------------
(* Data *)

Nobody == [id |-> 0, admin |-> FALSE, disabled |-> FALSE, born |-> 0]
Blank == [me |-> Nobody, tok |-> 0, op |-> "none", target |-> Nobody]

(* What is left of a row of which only the id is still used *)
IdOf(u) == [Nobody EXCEPT !.id = u.id, !.born = u.born]

ActiveAdmins == {u \in users : u.admin /\ ~u.disabled}

HasUser(id) == \E u \in users : u.id = id

SetAdmin(id, b) == users' = {IF u.id = id THEN [u EXCEPT !.admin = b] ELSE u : u \in users}
SetDisabled(id, b) == users' = {IF u.id = id THEN [u EXCEPT !.disabled = b] ELSE u : u \in users}

(* The id of a deleted account is given out again *)
NextUidReusing ==
    CHOOSE n \in 1 .. lastUid + 1 :
        /\ \A u \in users : u.id < n
        /\ n = 1 \/ \E u \in users : u.id = n - 1

NextUid == lastUid + 1

CreateUser(admin) ==
    /\ users' = users \cup {[id |-> NextUid, admin |-> admin,
                             disabled |-> FALSE, born |-> births + 1]}
    /\ lastUid' = NextUid
    /\ births' = births + 1

(* History: a session that has ended is stray no more. *)
Forget == stray' = stray \cap {s.tok : s \in sessions'}

(* The row goes and, by ON DELETE CASCADE, its sessions and tokens. *)
DeleteUser(id) ==
    /\ users' = {u \in users : u.id # id}
    /\ sessions' = {s \in sessions : s.user # id}
    /\ tokens' = {t \in tokens : t.user # id}

-----------------------------------------------------------------------------
(* Control *)

Goto(p, l) == pc' = [pc EXCEPT ![p] = l]
Keep(p, j) == job' = [job EXCEPT ![p] = j]
Finish(p) == Goto(p, "idle") /\ Keep(p, Blank)
Start(p) == mode = "serving" /\ pc[p] = "idle"

-----------------------------------------------------------------------------
(* Login: the row is read, its password and disabled_at are checked, and   *)
(* the session is inserted by a later statement.                           *)

LoginVerify(p, u) ==
    /\ Start(p)
    /\ ~u.disabled
    /\ Keep(p, [Blank EXCEPT !.me = IdOf(u)])
    /\ Goto(p, "session")
    /\ UNCHANGED <<tables, config, crashes, history>>

(* The reference to users fails when the account is gone. *)
LoginSession(p) ==
    /\ pc[p] = "session"
    /\ IF HasUser(job[p].me.id) /\ lastTok < MaxSessions
       THEN /\ lastTok' = lastTok + 1
            /\ sessions' = sessions \cup
                 {[tok |-> lastTok + 1, user |-> job[p].me.id,
                   born |-> job[p].me.born]}
            /\ stray' = stray \cup
                 {lastTok + 1 : u \in {v \in users : v.id = job[p].me.id /\ v.disabled}}
       ELSE UNCHANGED <<lastTok, sessions, stray>>
    /\ Finish(p)
    /\ UNCHANGED <<users, tokens, lastUid, lastTid, config, crashes, births, overlap>>

-----------------------------------------------------------------------------
(* requireAuth: the session, then its user.  Any session may be found past *)
(* its expires_at; the read then deletes it.                               *)

AuthSession(p, s) ==
    /\ Start(p)
    /\ Keep(p, [Blank EXCEPT !.tok = s.tok, !.me = [Nobody EXCEPT !.id = s.user, !.born = s.born]])
    /\ Goto(p, "auth")
    /\ UNCHANGED <<tables, config, crashes, history>>

AuthExpired(p, s) ==
    /\ Start(p)
    /\ sessions' = sessions \ {s} /\ Forget
    /\ UNCHANGED <<users, tokens, lastUid, lastTok, lastTid, config, pc, job, crashes, births, overlap>>

AuthUser(p) ==
    /\ pc[p] = "auth"
    /\ \E u \in users : /\ u.id = job[p].me.id /\ ~u.disabled
                        /\ Keep(p, [job[p] EXCEPT !.me = u])
    /\ Goto(p, "act")
    /\ UNCHANGED <<tables, config, crashes, history>>

(* The account is gone or disabled, or the request changes nothing here. *)
Refuse(p) ==
    /\ \/ pc[p] = "auth" /\ \A u \in users : u.id = job[p].me.id => u.disabled
       \/ pc[p] = "act"
    /\ Finish(p)
    /\ UNCHANGED <<tables, config, crashes, history>>

-----------------------------------------------------------------------------
(* Requests of any account *)

Logout(p) ==
    /\ pc[p] = "act"
    /\ sessions' = {s \in sessions : s.tok # job[p].tok} /\ Forget
    /\ Finish(p)
    /\ UNCHANGED <<users, tokens, lastUid, lastTok, lastTid, config, crashes, births, overlap>>

TokenCreate(p) ==
    /\ pc[p] = "act"
    /\ HasUser(job[p].me.id)
    /\ lastTid < MaxTokens
    /\ lastTid' = lastTid + 1
    /\ tokens' = tokens \cup {[id |-> lastTid + 1, user |-> job[p].me.id,
                               born |-> job[p].me.born]}
    /\ Finish(p)
    /\ UNCHANGED <<users, sessions, lastUid, lastTok, config, crashes, history>>

(* DELETE by id alone *)
DeleteAPITokenAny(id, user) == tokens' = {t \in tokens : t.id # id}

DeleteAPIToken(id, user) == tokens' = {t \in tokens : t.id # id \/ t.user # user}

TokenDelete(p, id) ==
    /\ pc[p] = "act"
    /\ DeleteAPIToken(id, job[p].me.id)
    /\ Finish(p)
    /\ UNCHANGED <<users, sessions, lastUid, lastTok, lastTid, config, crashes, history>>

-----------------------------------------------------------------------------
(* Requests of an admin.  The name check of user creation adds nothing to  *)
(* the UNIQUE constraint of its INSERT.                                    *)

UserCreate(p, admin) ==
    /\ pc[p] = "act"
    /\ job[p].me.admin
    /\ births < MaxUsers
    /\ CreateUser(admin)
    /\ Finish(p)
    /\ UNCHANGED <<sessions, tokens, lastTok, lastTid, config, crashes, overlap, stray>>

Ops == {"toggleAdmin", "toggleDisabled", "delete"}

(* Does the operation, on the row read, take an active admin away? *)
NeedsCount(op, t) ==
    \/ op = "toggleAdmin" /\ t.admin
    \/ op = "toggleDisabled" /\ t.admin /\ ~t.disabled
    \/ op = "delete" /\ t.admin /\ ~t.disabled

(* What the operation still uses of the row: a toggle the value it flips   *)
Aim(op, t) == [IdOf(t) EXCEPT !.admin = (op = "toggleAdmin" /\ t.admin),
                              !.disabled = (op = "toggleDisabled" /\ t.disabled)]

(* An admin's own account is refused as a target; who asked does not       *)
(* matter after that.                                                      *)
ReadTarget(p, op, t) ==
    /\ pc[p] = "act"
    /\ job[p].me.admin
    /\ t.id # job[p].me.id
    /\ Keep(p, [Blank EXCEPT !.op = op, !.target = Aim(op, t)])
    /\ Goto(p, IF NeedsCount(op, t) THEN "count" ELSE "write")
    /\ UNCHANGED <<tables, config, crashes, history>>

(* The guard that counts every admin, the disabled ones too *)
CountAllAdmins(p) ==
    /\ pc[p] = "count"
    /\ IF Cardinality({u \in users : u.admin}) <= 1
       THEN Finish(p) ELSE Goto(p, "write") /\ UNCHANGED job
    /\ UNCHANGED <<tables, config, crashes, history>>

CountActiveAdmins(p) ==
    /\ pc[p] = "count"
    /\ IF Cardinality(ActiveAdmins) <= 1
       THEN Finish(p) ELSE Goto(p, "write") /\ UNCHANGED job
    /\ UNCHANGED <<tables, config, crashes, history>>

Writing(p) ==
    /\ pc[p] = "write"
    /\ overlap' = (overlap \/ \E q \in Procs \ {p} : pc[q] = "write")

SetUserAdmin(p) ==
    /\ Writing(p)
    /\ job[p].op = "toggleAdmin"
    /\ SetAdmin(job[p].target.id, ~job[p].target.admin)
    /\ Finish(p)
    /\ UNCHANGED <<sessions, tokens, lastUid, lastTok, lastTid,
                   config, crashes, births, stray>>

(* SetUserDisabled without the statement that deletes the sessions *)
SetUserDisabledOnly(p) ==
    /\ Writing(p)
    /\ job[p].op = "toggleDisabled"
    /\ SetDisabled(job[p].target.id, ~job[p].target.disabled)
    /\ Finish(p)
    /\ UNCHANGED <<sessions, tokens, lastUid, lastTok, lastTid,
                   config, crashes, births, stray>>

SetUserDisabled(p) ==
    /\ Writing(p)
    /\ job[p].op = "toggleDisabled"
    /\ SetDisabled(job[p].target.id, ~job[p].target.disabled)
    /\ IF job[p].target.disabled
       THEN Finish(p)
       ELSE Goto(p, "kick") /\ Keep(p, [Blank EXCEPT !.target = IdOf(job[p].target)])
    /\ UNCHANGED <<sessions, tokens, lastUid, lastTok, lastTid,
                   config, crashes, births, stray>>

(* Sessions of the accounts that a request is disabling at the moment *)
Kicked(kickers) ==
    {s.tok : s \in {x \in sessions : \E p \in kickers : job[p].target.id = x.user}}

(* The second statement of SetUserDisabled.  When it fails the admin is    *)
(* told of an error, but the first one has been committed.                 *)
KickSessions(p) ==
    /\ pc[p] = "kick"
    /\ \/ sessions' = {s \in sessions : s.user # job[p].target.id} /\ Forget
       \/ UNCHANGED sessions /\ stray' = stray \cup Kicked({p})
    /\ Finish(p)
    /\ UNCHANGED <<users, tokens, lastUid, lastTok, lastTid, config, crashes, births, overlap>>

UserDelete(p) ==
    /\ Writing(p)
    /\ job[p].op = "delete"
    /\ DeleteUser(job[p].target.id) /\ Forget
    /\ Finish(p)
    /\ UNCHANGED <<lastUid, lastTok, lastTid, config, crashes, births>>

-----------------------------------------------------------------------------
(* The process is killed and started again.                                *)

Crash ==
    /\ crashes < MaxCrashes
    /\ crashes' = crashes + 1
    /\ mode # "down"
    /\ mode' = "down"
    /\ pc' = [p \in Procs |-> "idle"]
    /\ job' = [p \in Procs |-> Blank]
    /\ stray' = stray \cup Kicked({p \in Procs : pc[p] = "kick"})
    /\ UNCHANGED <<tables, pwLine, births, overlap>>

(* Step 3 of the README's first-start list, once an account exists.  Only  *)
(* a start reads config.toml, so the edit is put just before one.          *)
RemovePasswordLine ==
    /\ RemovesLine
    /\ mode = "down" /\ users # {}
    /\ pwLine
    /\ pwLine' = FALSE
    /\ UNCHANGED <<tables, mode, pc, job, crashes, history>>

(* migrate without the promotion of the oldest user *)
BootNoPromotion ==
    /\ mode = "down"
    /\ pwLine
    /\ mode' = "booting"
    /\ UNCHANGED <<tables, pwLine, pc, job, crashes, history>>

(* config.Load validates admin.password on every start; the migration      *)
(* makes the oldest user an admin when no user is one.                     *)
Boot ==
    /\ mode = "down"
    /\ pwLine
    /\ mode' = "booting"
    /\ IF users # {} /\ \A u \in users : ~u.admin
       THEN \E u \in users : (\A v \in users : u.id <= v.id) /\ SetAdmin(u.id, TRUE)
       ELSE UNCHANGED users
    /\ UNCHANGED <<sessions, tokens, lastUid, lastTok, lastTid, pwLine, pc, job,
                   crashes, history>>

BootstrapAdmin ==
    /\ mode = "booting"
    /\ mode' = "serving"
    /\ IF users = {} THEN CreateUser(TRUE) ELSE UNCHANGED <<users, lastUid, births>>
    /\ UNCHANGED <<sessions, tokens, lastTok, lastTid, pwLine, pc, job, crashes, overlap, stray>>

-----------------------------------------------------------------------------
(* An empty database, or one from before accounts had roles *)
Init ==
    /\ \E n \in 0 .. Legacy :
        /\ users = {[id |-> i, admin |-> FALSE, disabled |-> FALSE, born |-> i] : i \in 1 .. n}
        /\ lastUid = n /\ births = n
    /\ sessions = {} /\ tokens = {} /\ lastTok = 0 /\ lastTid = 0
    /\ pwLine = TRUE /\ mode = "down"
    /\ pc = [p \in Procs |-> "idle"]
    /\ job = [p \in Procs |-> Blank]
    /\ crashes = 0 /\ overlap = FALSE /\ stray = {}

Step(p) ==
    \/ LoginSession(p) \/ AuthUser(p) \/ Refuse(p)
    \/ Logout(p) \/ TokenCreate(p) \/ (\E t \in tokens : TokenDelete(p, t.id))
    \/ (\E b \in BOOLEAN : UserCreate(p, b))
    \/ (\E op \in Ops, t \in users : ReadTarget(p, op, t))
    \/ CountActiveAdmins(p)
    \/ SetUserAdmin(p) \/ SetUserDisabled(p) \/ KickSessions(p) \/ UserDelete(p)

Request(p) ==
    \/ \E u \in users : LoginVerify(p, u)
    \/ \E s \in sessions : AuthSession(p, s) \/ AuthExpired(p, s)

Environment ==
    Crash \/ RemovePasswordLine \/ Boot \/ BootstrapAdmin

Next == (\E p \in Procs : Step(p) \/ Request(p)) \/ Environment

Spec == Init /\ [][Next]_vars

(* Goroutines are scheduled fairly, and systemd starts the process again. *)
FairSpec ==
    /\ Spec
    /\ \A p \in Procs : WF_vars(Step(p))
    /\ WF_vars(Boot) /\ WF_vars(BootstrapAdmin)

-----------------------------------------------------------------------------
(* Properties *)

User == [id : 1 .. lastUid, admin : BOOLEAN, disabled : BOOLEAN, born : 1 .. births]
Read == [id : 0 .. lastUid, admin : BOOLEAN, disabled : BOOLEAN, born : 0 .. births]

(* Every variable has its type: the ids in the tables were given out by    *)
(* their counters, and each request is at a step it has.                   *)
TypeOK ==
    /\ lastUid \in Nat /\ lastTok \in Nat /\ lastTid \in Nat /\ births \in Nat
    /\ users \subseteq User
    /\ sessions \subseteq [tok : 1 .. lastTok, user : 1 .. lastUid, born : 1 .. births]
    /\ tokens \subseteq [id : 1 .. lastTid, user : 1 .. lastUid, born : 1 .. births]
    /\ pwLine \in BOOLEAN /\ mode \in {"down", "booting", "serving"}
    /\ pc \in [Procs -> {"idle", "session", "auth", "act", "count", "write", "kick"}]
    /\ job \in [Procs -> [me : Read, tok : 0 .. lastTok, op : Ops \cup {"none"}, target : Read]]
    /\ crashes \in Nat /\ overlap \in BOOLEAN /\ stray \subseteq 1 .. lastTok

(* A session or token that still authenticates belongs to the very account *)
(* that logged in or created it, and a request acts for and on the accounts *)
(* it read or none: although both carry an id across statements between    *)
(* which its account can be deleted and another one created.               *)
Credentials == sessions \cup tokens

CredentialsBelongToTheirOwner ==
    /\ \A c \in Credentials : \E u \in users : u.id = c.user /\ u.born = c.born
    /\ \A u \in users, p \in Procs :
         /\ u.id = job[p].me.id => u.born = job[p].me.born
         /\ u.id = job[p].target.id => u.born = job[p].target.born

(* The server never serves without an admin who can log in, unless two     *)
(* requests that change users overlapped: checks and writes of one request *)
(* at a time, kills and restarts keep one.                                 *)
AdminRemainsUnlessOverlap ==
    mode = "serving" => overlap \/ ActiveAdmins # {}

(* README.md says the last admin can be neither demoted nor disabled: the  *)
(* system keeps at least one.                                              *)
AdminRemains == mode = "serving" => ActiveAdmins # {}

Kicking(u) == \E p \in Procs : pc[p] = "kick" /\ job[p].target.id = u.id

(* Disabling ends the sessions: a disabled account keeps only those that a *)
(* request has still to delete, that a kill or a DELETE that failed after  *)
(* the account was marked kept from deletion, or that a login which had    *)
(* checked the account before inserted after.                              *)
DisabledKeepsOnlyStray ==
    \A u \in users : u.disabled /\ ~Kicking(u) =>
        \A s \in sessions : s.user = u.id => s.tok \in stray

(* Ids are given out once, so that a row found under an id is the one that *)
(* was read under it, and sessions and tokens end with their account.      *)
RowsOnce ==
    /\ births = lastUid
    /\ \A u, v \in users : u.id = v.id => u = v
    /\ \A u \in users : u.born = u.id

Owned == \A c \in Credentials : c.born = c.user /\ \E u \in users : u.id = c.user

Carried ==
    \A p \in Procs : /\ job[p].me.born = job[p].me.id
                     /\ job[p].target.born = job[p].target.id
                     /\ pc[p] # "idle" => mode = "serving"

(* The write that p is about to do leaves u an active admin. *)
Survives(p, u) ==
    \/ u.id # job[p].target.id
    \/ job[p].op = "toggleAdmin" /\ ~job[p].target.admin
    \/ job[p].op = "toggleDisabled" /\ job[p].target.disabled

(* Without overlapping writes, an admin is there from the first start on,  *)
(* and will be after the write of any request that has done its checks.    *)
Guarded ==
    \/ overlap
    \/ /\ \/ ActiveAdmins # {}
          \/ /\ \A u \in users : ~u.admin /\ ~u.disabled
             /\ mode # "serving" /\ (mode = "booting" => users = {})
       /\ \A p \in Procs : pc[p] = "write" => \E u \in ActiveAdmins : Survives(p, u)

(* Preserved by every step *)
IInv == TypeOK /\ RowsOnce /\ Owned /\ Carried /\ Guarded /\ DisabledKeepsOnlyStray

(* An API token disappears only with its account or by a request of the    *)
(* account that owns it.                                                   *)
TokensRemovedByOwner ==
    [][\A t \in tokens \ tokens' :
         \/ \A u \in users' : u.id # t.user
         \/ \E p \in Procs : pc[p] = "act" /\ pc'[p] = "idle" /\ job[p].me.id = t.user]_vars

(* Whenever the process is down it comes to serve, as README.md's first    *)
(* steps expect of the restart that follows them.                          *)
RestartServes == mode = "down" ~> mode = "serving"

=============================================================================
