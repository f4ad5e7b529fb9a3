--------------------------- MODULE AccountsProofs ---------------------------
(* Theorems about Accounts, for every value of its constants. *)
EXTENDS Accounts, FiniteSetTheorems, TLAPS

Labels == {"idle", "session", "auth", "act", "count", "write", "kick"}
Locals == [me : Read, tok : 0 .. lastTok, op : Ops \cup {"none"}, target : Read]

-----------------------------------------------------------------------------
(* Type correctness *)

(* The types grow with the counters. *)
LEMMA TypesGrow ==
    ASSUME TypeOK, lastUid' \in Nat, lastUid <= lastUid', births' \in Nat,
           births <= births', lastTok' \in Nat, lastTok <= lastTok'
    PROVE  /\ 1 .. lastUid \subseteq 1 .. lastUid' /\ 1 .. births \subseteq 1 .. births'
           /\ 1 .. lastTok \subseteq 1 .. lastTok'
           /\ User \subseteq User' /\ Locals \subseteq Locals'
<1>1. /\ 1 .. lastUid \subseteq 1 .. lastUid' /\ 0 .. lastUid \subseteq 0 .. lastUid'
      /\ 1 .. births \subseteq 1 .. births' /\ 0 .. births \subseteq 0 .. births'
      /\ 1 .. lastTok \subseteq 1 .. lastTok' /\ 0 .. lastTok \subseteq 0 .. lastTok'
  BY DEF TypeOK
<1>2. User \subseteq User' /\ Read \subseteq Read'
  BY <1>1 DEF User, Read
<1>3. QED
  BY <1>1, <1>2 DEF Locals

(* An idle request's locals have their type, and so does a row read. *)
LEMMA ReadTypes ==
    ASSUME TypeOK
    PROVE  Nobody \in Read /\ Blank \in Locals /\ User \subseteq Read
<1>1. Nobody \in Read
  BY DEF TypeOK, Nobody, Read
<1>2. Blank \in Locals
  BY <1>1 DEF TypeOK, Blank, Locals
<1>3. User \subseteq Read
  BY DEF TypeOK, User, Read
<1>4. QED
  BY <1>1, <1>2, <1>3

(* What a request keeps of a row it read has the row's id.  *)
LEMMA KeptOfRow ==
    ASSUME TypeOK, NEW u \in Read
    PROVE  /\ IdOf(u) \in Read /\ IdOf(u).id = u.id /\ IdOf(u).born = u.born
           /\ \A op : Aim(op, u) \in Read /\ Aim(op, u).id = u.id /\ Aim(op, u).born = u.born
<1>1. Nobody \in Read
  BY ReadTypes
<1>2. IdOf(u) \in Read /\ IdOf(u).id = u.id /\ IdOf(u).born = u.born
  BY <1>1 DEF IdOf, Read
<1>3. ASSUME NEW op
      PROVE  Aim(op, u) \in Read /\ Aim(op, u).id = u.id /\ Aim(op, u).born = u.born
  <2>1. (op = "toggleAdmin" /\ u.admin) \in BOOLEAN /\ (op = "toggleDisabled" /\ u.disabled) \in BOOLEAN
    OBVIOUS
  <2>2. QED
    BY <1>2, <2>1 DEF Aim, Read
<1>4. QED
  BY <1>2, <1>3

(* A request's step keeps the types of its label and its locals.  *)
LEMMA LocalTypes ==
    ASSUME TypeOK, NEW p \in Procs,
           \/ UNCHANGED job
           \/ Keep(p, Blank)
           \/ \E u \in User : \/ Keep(p, [Blank EXCEPT !.me = IdOf(u)])
                              \/ Keep(p, [job[p] EXCEPT !.me = u])
                              \/ \E o \in Ops : Keep(p, [Blank EXCEPT !.op = o, !.target = Aim(o, u)])
           \/ Keep(p, [Blank EXCEPT !.target = IdOf(job[p].target)]),
           \/ UNCHANGED pc
           \/ \E l \in Labels : Goto(p, l)
    PROVE  job' \in [Procs -> Locals] /\ pc' \in [Procs -> Labels]
<1>1. job \in [Procs -> Locals] /\ pc \in [Procs -> Labels]
  BY DEF TypeOK, Locals, Labels
<1>2. Blank \in Locals /\ User \subseteq Read
  BY ReadTypes
<1>3. \A u \in User : /\ [Blank EXCEPT !.me = IdOf(u)] \in Locals
                      /\ [job[p] EXCEPT !.me = u] \in Locals
                      /\ \A o \in Ops : [Blank EXCEPT !.op = o, !.target = Aim(o, u)] \in Locals
  BY <1>1, <1>2, KeptOfRow DEF Locals
<1>4. [Blank EXCEPT !.target = IdOf(job[p].target)] \in Locals
  <2>1. job[p].target \in Read
    BY <1>1 DEF Locals
  <2>2. QED
    BY <1>2, <2>1, KeptOfRow DEF Locals
<1>5. job' \in [Procs -> Locals]
  BY <1>1, <1>2, <1>3, <1>4 DEF Keep
<1>6. pc' \in [Procs -> Labels]
  BY <1>1 DEF Goto
<1>7. QED
  BY <1>5, <1>6

(* Updates of a user's row keep the types of the table.  *)
LEMMA RowTypes ==
    ASSUME TypeOK, NEW id, NEW b \in BOOLEAN
    PROVE  /\ SetAdmin(id, b) => users' \subseteq User
           /\ SetDisabled(id, b) => users' \subseteq User
BY DEF TypeOK, User, SetAdmin, SetDisabled

(* Creating a user keeps the types, under the counters that grow. *)
LEMMA CreateTypes ==
    ASSUME TypeOK, NEW b \in BOOLEAN, CreateUser(b), UNCHANGED lastTok
    PROVE  /\ lastUid' \in Nat /\ births' \in Nat
           /\ lastUid <= lastUid' /\ births <= births'
           /\ users' \subseteq User'
<1>1. /\ lastUid' = lastUid + 1 /\ births' = births + 1
      /\ lastUid' \in Nat /\ births' \in Nat /\ lastUid <= lastUid' /\ births <= births'
  BY DEF TypeOK, CreateUser, NextUid
<1>2. User \subseteq User'
  BY <1>1, TypesGrow DEF TypeOK
<1>3. [id |-> NextUid, admin |-> b, disabled |-> FALSE, born |-> births + 1] \in User'
  BY <1>1 DEF User, NextUid, TypeOK
<1>4. QED
  BY <1>1, <1>2, <1>3 DEF CreateUser, TypeOK

(* An account a request carries and finds again has the id of one given out. *)
LEMMA KnownUser ==
    ASSUME TypeOK, RowsOnce, Carried, NEW p \in Procs, HasUser(job[p].me.id)
    PROVE  /\ job[p].me.id \in 1 .. lastUid
           /\ job[p].me.born = job[p].me.id /\ job[p].me.born \in 1 .. births
<1>1. PICK u \in users : u.id = job[p].me.id
  BY DEF HasUser
<1>2. u.id \in 1 .. lastUid
  BY DEF TypeOK, User
<1>3. job[p].me.born = job[p].me.id /\ births = lastUid
  BY DEF RowsOnce, Carried
<1>4. QED
  BY <1>1, <1>2, <1>3

(* Every step of every action keeps the types. *)
LEMMA NextTypes == TypeOK /\ RowsOnce /\ Carried /\ [Next]_vars => TypeOK'
<1> SUFFICES ASSUME TypeOK, RowsOnce, Carried, [Next]_vars PROVE TypeOK'
  OBVIOUS
<1>a. job \in [Procs -> Locals] /\ pc \in [Procs -> Labels]
  BY DEF TypeOK, Locals, Labels
<1>b. ASSUME UNCHANGED <<lastUid, lastTok, births>> PROVE User' = User /\ Locals' = Locals
  BY <1>b DEF User, Locals, Read
<1>c. ASSUME /\ UNCHANGED <<lastUid, lastTok, lastTid, births, pwLine, mode, crashes>>
             /\ users' \subseteq User /\ sessions' \subseteq sessions /\ tokens' \subseteq tokens
             /\ overlap' \in BOOLEAN /\ stray' \subseteq stray
             /\ job' \in [Procs -> Locals] /\ pc' \in [Procs -> Labels]
      PROVE  TypeOK'
  BY <1>c, <1>b DEF TypeOK, Locals, Labels
<1>d. ASSUME /\ UNCHANGED <<lastUid, lastTok, lastTid, births, config, crashes, overlap, users>>
             /\ sessions' \subseteq sessions /\ tokens' \subseteq tokens /\ stray' \subseteq stray
             /\ job' \in [Procs -> Locals] /\ pc' \in [Procs -> Labels]
      PROVE  TypeOK'
  <2>1. users' \subseteq User /\ overlap' \in BOOLEAN
    BY <1>d DEF TypeOK
  <2>2. QED
    BY <2>1, <1>c, <1>d DEF config
<1>1. ASSUME NEW p \in Procs, NEW u \in users, LoginVerify(p, u) PROVE TypeOK'
  <2>1. u \in User
    BY DEF TypeOK
  <2>2. job' \in [Procs -> Locals] /\ pc' \in [Procs -> Labels]
    BY <1>1, <2>1, LocalTypes DEF LoginVerify, Labels
  <2>3. QED
    BY <1>1, <2>2, <1>d DEF LoginVerify, tables, config, history
<1>2. ASSUME NEW p \in Procs, LoginSession(p) PROVE TypeOK'
  <2>1. job' \in [Procs -> Locals] /\ pc' \in [Procs -> Labels]
    BY <1>2, LocalTypes DEF LoginSession, Finish, Labels
  <2>2. CASE UNCHANGED <<lastTok, sessions, stray>>
    BY <1>2, <2>1, <2>2, <1>d DEF LoginSession, config
  <2>3. CASE /\ HasUser(job[p].me.id) /\ lastTok' = lastTok + 1
             /\ sessions' = sessions \cup {[tok |-> lastTok + 1, user |-> job[p].me.id,
                                            born |-> job[p].me.born]}
             /\ stray' = stray \cup {lastTok + 1 : u \in {v \in users : v.id = job[p].me.id /\ v.disabled}}
    <3>1. /\ lastTok' \in Nat /\ lastTok <= lastTok' /\ lastTok + 1 \in 1 .. lastTok'
          /\ UNCHANGED <<lastUid, births>> /\ lastUid \in Nat /\ births \in Nat
      BY <1>2, <2>3 DEF LoginSession, TypeOK
    <3>2. Locals \subseteq Locals' /\ 1 .. lastTok \subseteq 1 .. lastTok'
      BY <3>1, TypesGrow
    <3>3. User' = User
      BY <3>1 DEF User
    <3>4. job[p].me.id \in 1 .. lastUid /\ job[p].me.born \in 1 .. births
      BY <2>3, KnownUser
    <3>5. sessions' \subseteq [tok : 1 .. lastTok', user : 1 .. lastUid, born : 1 .. births]
      <4>1. [tok |-> lastTok + 1, user |-> job[p].me.id, born |-> job[p].me.born]
              \in [tok : 1 .. lastTok', user : 1 .. lastUid, born : 1 .. births]
        BY <3>1, <3>4
      <4>2. sessions \subseteq [tok : 1 .. lastTok', user : 1 .. lastUid, born : 1 .. births]
        BY <3>2 DEF TypeOK
      <4>3. QED
        BY <2>3, <4>1, <4>2
    <3>6. stray' \subseteq 1 .. lastTok'
      BY <2>3, <3>1, <3>2 DEF TypeOK
    <3>7. QED
      BY <1>2, <2>1, <3>1, <3>2, <3>3, <3>5, <3>6 DEF LoginSession, TypeOK, Locals, Labels, config
  <2>4. QED
    BY <1>2, <2>2, <2>3 DEF LoginSession
<1>3. ASSUME NEW p \in Procs, NEW s \in sessions, AuthSession(p, s) PROVE TypeOK'
  <2>1. [Blank EXCEPT !.tok = s.tok, !.me = [Nobody EXCEPT !.id = s.user, !.born = s.born]] \in Locals
    <3>1. Blank \in Locals /\ Nobody \in Read /\ s.tok \in 0 .. lastTok
      BY ReadTypes DEF TypeOK
    <3>2. s.user \in 0 .. lastUid /\ s.born \in 0 .. births
      BY DEF TypeOK
    <3>3. [Nobody EXCEPT !.id = s.user, !.born = s.born] \in Read
      BY <3>1, <3>2 DEF Read
    <3>4. QED
      BY <3>1, <3>3 DEF Locals
  <2>2. job' \in [Procs -> Locals] /\ pc' \in [Procs -> Labels]
    BY <1>3, <2>1, <1>a DEF AuthSession, Keep, Goto, Labels
  <2>3. QED
    BY <1>3, <2>2, <1>d DEF AuthSession, tables, config, history
<1>4. ASSUME NEW p \in Procs, NEW s \in sessions, AuthExpired(p, s) PROVE TypeOK'
  BY <1>4, <1>a, <1>d DEF AuthExpired, Forget, config
<1>5. ASSUME NEW p \in Procs, AuthUser(p) PROVE TypeOK'
  <2>1. users \subseteq User
    BY DEF TypeOK
  <2>2. job' \in [Procs -> Locals] /\ pc' \in [Procs -> Labels]
    BY <1>5, <2>1, <1>a, LocalTypes DEF AuthUser, Labels
  <2>3. QED
    BY <1>5, <2>1, <2>2, <1>d DEF AuthUser, tables, config, history
<1>6. ASSUME NEW p \in Procs, Refuse(p) PROVE TypeOK'
  <2>1. job' \in [Procs -> Locals] /\ pc' \in [Procs -> Labels]
    BY <1>6, <1>a, LocalTypes DEF Refuse, Labels, Finish
  <2>2. QED
    BY <1>6, <2>1, <1>d DEF Refuse, tables, config, history
<1>7. ASSUME NEW p \in Procs, Logout(p) PROVE TypeOK'
  <2>1. job' \in [Procs -> Locals] /\ pc' \in [Procs -> Labels]
    BY <1>7, <1>a, LocalTypes DEF Logout, Labels, Finish
  <2>2. QED
    BY <1>7, <2>1, <1>d DEF Logout, Forget, config
<1>8. ASSUME NEW p \in Procs, TokenCreate(p) PROVE TypeOK'
  <2>1. job' \in [Procs -> Locals] /\ pc' \in [Procs -> Labels]
    BY <1>8, <1>a, LocalTypes DEF TokenCreate, Labels, Finish
  <2>2. job[p].me.id \in 1 .. lastUid /\ job[p].me.born \in 1 .. births
    BY <1>8, KnownUser DEF TokenCreate
  <2>3. User' = User /\ Locals' = Locals
    BY <1>8, <1>b DEF TokenCreate, history
  <2>4. tokens' \subseteq [id : 1 .. lastTid', user : 1 .. lastUid, born : 1 .. births] /\ lastTid' \in Nat
    BY <1>8, <2>2 DEF TokenCreate, TypeOK
  <2>5. QED
    BY <1>8, <2>1, <2>3, <2>4 DEF TokenCreate, TypeOK, Locals, Labels, config, history
<1>9. ASSUME NEW p \in Procs, NEW i, TokenDelete(p, i) PROVE TypeOK'
  <2>1. job' \in [Procs -> Locals] /\ pc' \in [Procs -> Labels]
    BY <1>9, <1>a, LocalTypes DEF TokenDelete, Labels, Finish
  <2>2. QED
    BY <1>9, <2>1, <1>d DEF TokenDelete, DeleteAPIToken, tables, config, history
<1>10. ASSUME NEW p \in Procs, NEW b \in BOOLEAN, UserCreate(p, b) PROVE TypeOK'
  <2>1. job' \in [Procs -> Locals] /\ pc' \in [Procs -> Labels]
    BY <1>10, <1>a, LocalTypes DEF UserCreate, Labels, Finish
  <2>2. /\ lastUid' \in Nat /\ births' \in Nat /\ lastUid <= lastUid' /\ births <= births'
        /\ users' \subseteq User'
    BY <1>10, CreateTypes DEF UserCreate
  <2>3. Locals \subseteq Locals' /\ 1 .. lastUid \subseteq 1 .. lastUid' /\ 1 .. births \subseteq 1 .. births'
    BY <1>10, <2>2, TypesGrow DEF UserCreate, TypeOK
  <2>4. QED
    BY <1>10, <2>1, <2>2, <2>3 DEF UserCreate, TypeOK, Locals, Labels, config
<1>11. ASSUME NEW p \in Procs, NEW op \in Ops, NEW t \in users, ReadTarget(p, op, t) PROVE TypeOK'
  <2>1. users \subseteq User
    BY DEF TypeOK
  <2>2. job' \in [Procs -> Locals] /\ pc' \in [Procs -> Labels]
    BY <1>11, <2>1, <1>a, LocalTypes DEF ReadTarget, Labels
  <2>3. QED
    BY <1>11, <2>1, <2>2, <1>d DEF ReadTarget, tables, config, history
<1>12. ASSUME NEW p \in Procs, CountActiveAdmins(p) PROVE TypeOK'
  <2>1. job' \in [Procs -> Locals] /\ pc' \in [Procs -> Labels]
    BY <1>12, <1>a, LocalTypes DEF CountActiveAdmins, Labels, Finish
  <2>2. QED
    BY <1>12, <2>1, <1>d DEF CountActiveAdmins, tables, config, history
<1>13. ASSUME NEW p \in Procs, SetUserAdmin(p) PROVE TypeOK'
  <2>1. job' \in [Procs -> Locals] /\ pc' \in [Procs -> Labels]
    BY <1>13, <1>a, LocalTypes DEF SetUserAdmin, Labels, Finish
  <2>2. users' \subseteq User
    BY <1>13, <1>a, RowTypes DEF SetUserAdmin, Locals, Read
  <2>3. QED
    BY <1>13, <2>1, <2>2, <1>c DEF SetUserAdmin, Writing, config, TypeOK
<1>14. ASSUME NEW p \in Procs, SetUserDisabled(p) PROVE TypeOK'
  <2>1. job' \in [Procs -> Locals] /\ pc' \in [Procs -> Labels]
    BY <1>14, <1>a, LocalTypes DEF SetUserDisabled, Labels, Finish
  <2>2. users' \subseteq User
    BY <1>14, <1>a, RowTypes DEF SetUserDisabled, Locals, Read
  <2>3. QED
    BY <1>14, <2>1, <2>2, <1>c DEF SetUserDisabled, Writing, config, TypeOK
<1>15. ASSUME NEW p \in Procs, KickSessions(p) PROVE TypeOK'
  <2>1. job' \in [Procs -> Locals] /\ pc' \in [Procs -> Labels]
    BY <1>15, <1>a, LocalTypes DEF KickSessions, Labels, Finish
  <2>2. CASE /\ sessions' = {s \in sessions : s.user # job[p].target.id}
             /\ Forget
    BY <1>15, <2>1, <2>2, <1>d DEF KickSessions, Forget, config
  <2>3. CASE UNCHANGED sessions /\ stray' = stray \cup Kicked({p})
    <3>1. Kicked({p}) \subseteq 1 .. lastTok
      BY DEF Kicked, TypeOK
    <3>2. User' = User /\ Locals' = Locals
      BY <1>15, <1>b DEF KickSessions
    <3>3. QED
      BY <1>15, <2>1, <2>3, <3>1, <3>2 DEF KickSessions, TypeOK, Locals, Labels, config
  <2>4. QED
    BY <1>15, <2>2, <2>3 DEF KickSessions
<1>16. ASSUME NEW p \in Procs, UserDelete(p) PROVE TypeOK'
  <2>1. job' \in [Procs -> Locals] /\ pc' \in [Procs -> Labels]
    BY <1>16, <1>a, LocalTypes DEF UserDelete, Labels, Finish
  <2>2. users' \subseteq User /\ sessions' \subseteq sessions /\ tokens' \subseteq tokens
    BY <1>16 DEF UserDelete, DeleteUser, TypeOK
  <2>3. QED
    BY <1>16, <2>1, <2>2, <1>c DEF UserDelete, Forget, Writing, config, TypeOK
<1>17. ASSUME Crash PROVE TypeOK'
  <2>1. User' = User /\ Locals' = Locals /\ Blank \in Locals
    BY <1>17, <1>b, ReadTypes DEF Crash, tables
  <2>2. stray' \subseteq 1 .. lastTok
    BY <1>17 DEF Crash, Kicked, TypeOK
  <2>3. QED
    <3>1. /\ job' \in [Procs -> Locals] /\ pc' \in [Procs -> Labels]
          /\ crashes' \in Nat /\ mode' = "down" /\ UNCHANGED <<tables, pwLine, births, overlap>>
      BY <1>17, <2>1 DEF Crash, Labels, TypeOK
    <3>2. QED
      BY <3>1, <2>1, <2>2 DEF TypeOK, Locals, Labels, tables
<1>18. ASSUME RemovePasswordLine PROVE TypeOK'
  <2>1. User' = User /\ Locals' = Locals
    BY <1>18, <1>b DEF RemovePasswordLine, tables, history
  <2>2. QED
    BY <1>18, <2>1 DEF RemovePasswordLine, TypeOK, Locals, tables, history
<1>19. ASSUME Boot PROVE TypeOK'
  <2>1. User' = User /\ Locals' = Locals
    BY <1>19, <1>b DEF Boot, history
  <2>2. users' \subseteq User
    BY <1>19, RowTypes DEF Boot, TypeOK
  <2>3. QED
    BY <1>19, <2>1, <2>2 DEF Boot, TypeOK, Locals, history
<1>20. ASSUME BootstrapAdmin PROVE TypeOK'
  <2>1. /\ lastUid' \in Nat /\ births' \in Nat /\ lastUid <= lastUid' /\ births <= births'
        /\ users' \subseteq User'
    <3>1. CASE users = {}
      BY <1>20, <3>1, CreateTypes DEF BootstrapAdmin
    <3>2. CASE users # {}
      <4>1. UNCHANGED <<lastUid, lastTok, births>> /\ users' = users
        BY <1>20, <3>2 DEF BootstrapAdmin
      <4>2. User' = User
        BY <4>1 DEF User
      <4>3. QED
        BY <4>1, <4>2 DEF TypeOK
    <3>3. QED
      BY <3>1, <3>2
  <2>2. Locals \subseteq Locals' /\ 1 .. lastUid \subseteq 1 .. lastUid' /\ 1 .. births \subseteq 1 .. births'
    BY <1>20, <2>1, TypesGrow DEF BootstrapAdmin, TypeOK
  <2>3. QED
    BY <1>20, <2>1, <2>2 DEF BootstrapAdmin, TypeOK, Locals
<1>21. CASE UNCHANGED vars
  <2>1. User' = User /\ Locals' = Locals
    BY <1>21, <1>b DEF vars, tables, history
  <2>2. QED
    BY <1>21, <2>1 DEF vars, tables, config, history, TypeOK, Locals
<1>22. QED
  BY <1>1, <1>2, <1>3, <1>4, <1>5, <1>6, <1>7, <1>8, <1>9, <1>10, <1>11, <1>12, <1>13,
     <1>14, <1>15, <1>16, <1>17, <1>18, <1>19, <1>20, <1>21
  DEF Next, Step, Request, Environment

-----------------------------------------------------------------------------
(* Ids are given out once, and rows, credentials and requests agree.  *)

(* Updating a row keeps every id, and creating one adds a new one. *)
LEMMA UpdateKeepsIds ==
    ASSUME TypeOK, RowsOnce, NEW id, NEW b \in BOOLEAN,
           SetAdmin(id, b) \/ SetDisabled(id, b), UNCHANGED <<births, lastUid>>
    PROVE  RowsOnce' /\ \A u \in users : \E v \in users' : v.id = u.id
<1> DEFINE f(u) == IF u.id = id THEN [u EXCEPT !.admin = b] ELSE u
           g(u) == IF u.id = id THEN [u EXCEPT !.disabled = b] ELSE u
<1>1. users \subseteq User
  BY DEF TypeOK
<1>2. \A u \in users : f(u).id = u.id /\ f(u).born = u.born /\ g(u).id = u.id /\ g(u).born = u.born
  BY <1>1 DEF User
<1> HIDE DEF f, g
<1>3. CASE users' = {f(u) : u \in users}
  BY <1>2, <1>3 DEF RowsOnce
<1>4. CASE users' = {g(u) : u \in users}
  BY <1>2, <1>4 DEF RowsOnce
<1>5. QED
  BY <1>3, <1>4 DEF SetAdmin, SetDisabled, f, g

LEMMA CreateKeepsIds ==
    ASSUME TypeOK, RowsOnce, NEW b \in BOOLEAN, CreateUser(b)
    PROVE  RowsOnce' /\ users \subseteq users'
<1>1. \A u \in users : u.id # lastUid + 1
  BY DEF TypeOK, User
<1> DEFINE n == [id |-> lastUid + 1, admin |-> b, disabled |-> FALSE, born |-> births + 1]
<1>2. users' = users \cup {n} /\ lastUid' = lastUid + 1 /\ births' = births + 1
  BY DEF CreateUser, NextUid
<1>3. n.id = lastUid + 1 /\ n.born = lastUid + 1
  BY DEF RowsOnce
<1> HIDE DEF n
<1>4. /\ \A u, v \in users' : u.id = v.id => u = v
      /\ \A u \in users' : u.born = u.id
  BY <1>1, <1>2, <1>3 DEF RowsOnce
<1>5. QED
  BY <1>2, <1>4 DEF RowsOnce

(* What every step does to the ids in table users: a row goes only by      *)
(* UserDelete, and two rows never share an id.                             *)
LEMMA NextRows ==
    TypeOK /\ RowsOnce /\ Carried /\ [Next]_vars =>
        /\ RowsOnce'
        /\ \/ \A u \in users : \E v \in users' : v.id = u.id
           \/ \E p \in Procs : UserDelete(p)
<1> SUFFICES ASSUME TypeOK, RowsOnce, Carried, [Next]_vars
             PROVE  /\ RowsOnce'
                    /\ \/ \A u \in users : \E v \in users' : v.id = u.id
                       \/ \E p \in Procs : UserDelete(p)
  OBVIOUS
<1> DEFINE Goal == RowsOnce' /\ \A u \in users : \E v \in users' : v.id = u.id
<1>1. ASSUME UNCHANGED <<users, births, lastUid>> PROVE Goal
  <2>1. \A u \in users : u \in users'
    BY <1>1
  <2>2. QED
    BY <1>1, <2>1 DEF RowsOnce
<1>2. ASSUME NEW p \in Procs, NEW b \in BOOLEAN, UserCreate(p, b) PROVE Goal
  <2>1. RowsOnce' /\ users \subseteq users'
    BY <1>2, CreateKeepsIds DEF UserCreate
  <2>2. QED
    BY <2>1
<1>3. ASSUME NEW p \in Procs, SetUserAdmin(p) PROVE Goal
  <2>1. job[p].target.admin \in BOOLEAN
    BY DEF TypeOK, Read
  <2>2. QED
    BY <1>3, <2>1, UpdateKeepsIds DEF SetUserAdmin
<1>4. ASSUME NEW p \in Procs, SetUserDisabled(p) PROVE Goal
  <2>1. job[p].target.disabled \in BOOLEAN
    BY DEF TypeOK, Read
  <2>2. QED
    BY <1>4, <2>1, UpdateKeepsIds DEF SetUserDisabled
<1>5. ASSUME NEW p \in Procs, UserDelete(p) PROVE RowsOnce'
  BY <1>5 DEF UserDelete, DeleteUser, RowsOnce
<1>6. ASSUME Boot PROVE Goal
  <2>1. CASE UNCHANGED users
    BY <1>6, <2>1, <1>1 DEF Boot, history
  <2>2. CASE \E u \in users : SetAdmin(u.id, TRUE)
    BY <1>6, <2>2, UpdateKeepsIds DEF Boot, history
  <2>3. QED
    BY <1>6, <2>1, <2>2 DEF Boot
<1>7. ASSUME BootstrapAdmin PROVE Goal
  <2>1. CASE users = {}
    <3>1. RowsOnce'
      BY <1>7, <2>1, CreateKeepsIds DEF BootstrapAdmin
    <3>2. QED
      BY <2>1, <3>1
  <2>2. CASE users # {}
    BY <1>7, <2>2, <1>1 DEF BootstrapAdmin
  <2>3. QED
    BY <2>1, <2>2
<1>8. CASE UNCHANGED <<users, births, lastUid>>
  BY <1>8, <1>1
<1>9. QED
  BY <1>2, <1>3, <1>4, <1>5, <1>6, <1>7, <1>8
  DEF Next, Step, Request, Environment, vars, tables, history, LoginVerify, LoginSession,
      AuthSession, AuthExpired, AuthUser, Refuse, Logout, TokenCreate, TokenDelete, ReadTarget,
      CountActiveAdmins, KickSessions, Crash, RemovePasswordLine

(* Sessions and tokens keep their account. *)
LEMMA NextOwned ==
    TypeOK /\ RowsOnce /\ Carried /\ Owned /\ [Next]_vars => Owned'
<1> SUFFICES ASSUME TypeOK, RowsOnce, Carried, Owned, [Next]_vars PROVE Owned'
  OBVIOUS
<1>1. ASSUME \A u \in users : \E v \in users' : v.id = u.id,
             sessions' \subseteq sessions, tokens' \subseteq tokens
      PROVE  Owned'
  BY <1>1 DEF Owned, Credentials
<1>2. ASSUME NEW p \in Procs, UserDelete(p) PROVE Owned'
  BY <1>2 DEF UserDelete, DeleteUser, Owned, Credentials
<1>3. ASSUME NEW p \in Procs, LoginSession(p) PROVE Owned'
  <2>1. UNCHANGED users /\ tokens' = tokens
    BY <1>3 DEF LoginSession
  <2>2. CASE sessions' \subseteq sessions
    BY <2>1, <2>2 DEF Owned, Credentials
  <2>3. CASE HasUser(job[p].me.id) /\ sessions' = sessions \cup {[tok |-> lastTok + 1,
                                          user |-> job[p].me.id, born |-> job[p].me.born]}
    <3>1. /\ job[p].me.born = job[p].me.id
          /\ \E u \in users : u.id = job[p].me.id
      BY <2>3, KnownUser DEF HasUser
    <3>2. QED
      BY <2>1, <2>3, <3>1 DEF Owned, Credentials
  <2>4. QED
    BY <1>3, <2>2, <2>3 DEF LoginSession
<1>4. ASSUME NEW p \in Procs, TokenCreate(p) PROVE Owned'
  BY <1>4, KnownUser DEF TokenCreate, Owned, Credentials, HasUser
<1>5. CASE sessions' \subseteq sessions /\ tokens' \subseteq tokens
  BY <1>5, <1>1, <1>2, NextRows
<1>6. QED
  BY <1>2, <1>3, <1>4, <1>5
  DEF Next, Step, Request, Environment, vars, tables, LoginVerify, AuthSession, AuthExpired,
      AuthUser, Refuse, Logout, TokenDelete, DeleteAPIToken, UserCreate, ReadTarget, CountActiveAdmins,
      SetUserAdmin, SetUserDisabled, KickSessions, Crash, RemovePasswordLine, Boot, BootstrapAdmin

(* Requests carry rows as they were read, and only while the server serves. *)
LEMMA NextCarried ==
    TypeOK /\ RowsOnce /\ Owned /\ Carried /\ [Next]_vars => Carried'
<1> SUFFICES ASSUME TypeOK, RowsOnce, Owned, Carried, [Next]_vars PROVE Carried'
  OBVIOUS
<1> DEFINE Whole(j) == j.me.born = j.me.id /\ j.target.born = j.target.id
<1>a. job \in [Procs -> Locals] /\ pc \in [Procs -> Labels]
  BY DEF TypeOK, Locals, Labels
<1>b. /\ Whole(Blank)
      /\ \A u \in users : Whole([Blank EXCEPT !.me = IdOf(u)])
      /\ \A s \in sessions :
           Whole([Blank EXCEPT !.tok = s.tok, !.me = [Nobody EXCEPT !.id = s.user, !.born = s.born]])
      /\ \A op \in Ops, u \in users : Whole([Blank EXCEPT !.op = op, !.target = Aim(op, u)])
      /\ \A p \in Procs : /\ \A u \in users : Whole([job[p] EXCEPT !.me = u])
                          /\ Whole([Blank EXCEPT !.target = IdOf(job[p].target)])
  <2>a. users \subseteq Read
    BY ReadTypes DEF TypeOK
  <2>1. Whole(Blank)
    BY DEF Blank, Nobody
  <2>2. ASSUME NEW u \in users PROVE Whole([Blank EXCEPT !.me = IdOf(u)])
    <3>1. IdOf(u).id = u.id /\ IdOf(u).born = u.born
      BY <2>a, KeptOfRow
    <3>2. QED
      BY <3>1 DEF Blank, Nobody, RowsOnce
  <2>3. ASSUME NEW s \in sessions
        PROVE  Whole([Blank EXCEPT !.tok = s.tok, !.me = [Nobody EXCEPT !.id = s.user, !.born = s.born]])
    <3>1. s.born = s.user
      BY DEF Owned, Credentials
    <3>2. QED
      BY <3>1 DEF Blank, Nobody
  <2>4. ASSUME NEW op \in Ops, NEW u \in users
        PROVE  Whole([Blank EXCEPT !.op = op, !.target = Aim(op, u)])
    <3>1. Aim(op, u).id = u.id /\ Aim(op, u).born = u.born
      BY <2>a, KeptOfRow
    <3>2. QED
      BY <3>1 DEF Blank, Nobody, RowsOnce
  <2>5. ASSUME NEW p \in Procs
        PROVE  /\ \A u \in users : Whole([job[p] EXCEPT !.me = u])
               /\ Whole([Blank EXCEPT !.target = IdOf(job[p].target)])
    <3>1. job[p] \in Locals /\ Whole(job[p])
      BY <1>a DEF Carried
    <3>2. \A u \in users : Whole([job[p] EXCEPT !.me = u])
      BY <3>1 DEF Locals, RowsOnce
    <3>3. /\ IdOf(job[p].target).id = job[p].target.id
          /\ IdOf(job[p].target).born = job[p].target.born
      BY <3>1, KeptOfRow DEF Locals
    <3>4. Whole([Blank EXCEPT !.target = IdOf(job[p].target)])
      BY <3>1, <3>3 DEF Blank, Nobody
    <3>5. QED
      BY <3>2, <3>4
  <2>6. QED
    BY <2>1, <2>2, <2>3, <2>4, <2>5
<1>c. ASSUME NEW p \in Procs, mode = "serving", mode' = mode,
             job' = job \/ \E j : Keep(p, j) /\ Whole(j),
             pc' = pc \/ \E l : Goto(p, l)
      PROVE  Carried'
  <2>1. \A q \in Procs : Whole(job'[q])
    <3>1. CASE job' = job
      BY <3>1 DEF Carried
    <3>2. CASE \E j : Keep(p, j) /\ Whole(j)
      <4> PICK j : Keep(p, j) /\ Whole(j)
        BY <3>2
      <4>1. \A q \in Procs : job'[q] = IF q = p THEN j ELSE job[q]
        BY <1>a DEF Keep
      <4> HIDE DEF Whole
      <4>2. \A q \in Procs : Whole(job[q])
        BY DEF Carried, Whole
      <4>3. QED
        BY <4>1, <4>2
    <3>3. QED
      BY <1>c, <3>1, <3>2
  <2>2. QED
    BY <1>c, <2>1 DEF Carried
<1> HIDE DEF Whole
<1>1. ASSUME NEW p \in Procs, Step(p) \/ Request(p) PROVE Carried'
  <2>1. mode = "serving"
    BY <1>1 DEF Step, Request, LoginVerify, LoginSession, AuthSession, AuthExpired, AuthUser, Refuse,
                Logout, TokenCreate, TokenDelete, UserCreate, ReadTarget, CountActiveAdmins, Writing,
                SetUserAdmin, SetUserDisabled, KickSessions, UserDelete, Start, Carried
  <2>2. mode' = mode
    BY <1>1 DEF Step, Request, LoginVerify, LoginSession, AuthSession, AuthExpired, AuthUser, Refuse,
                Logout, TokenCreate, TokenDelete, UserCreate, ReadTarget, CountActiveAdmins, Writing,
                SetUserAdmin, SetUserDisabled, KickSessions, UserDelete, config
  <2>3. pc' = pc \/ \E l : Goto(p, l)
    BY <1>1 DEF Step, Request, LoginVerify, LoginSession, AuthSession, AuthExpired, AuthUser, Refuse,
                Logout, TokenCreate, TokenDelete, UserCreate, ReadTarget, CountActiveAdmins, Writing,
                SetUserAdmin, SetUserDisabled, KickSessions, UserDelete, Finish
  <2>4. job' = job \/ \E j : Keep(p, j) /\ Whole(j)
    <3>1. CASE job' = job \/ Keep(p, Blank)
      BY <3>1, <1>b
    <3>2. CASE Request(p)
      BY <3>2, <1>b DEF Request, LoginVerify, AuthSession, AuthExpired
    <3>3. CASE AuthUser(p)
      BY <3>3, <1>b DEF AuthUser
    <3>4. CASE \E op \in Ops, t \in users : ReadTarget(p, op, t)
      <4>1. PICK op \in Ops, t \in users : ReadTarget(p, op, t)
        BY <3>4
      <4>2. Keep(p, [Blank EXCEPT !.op = op, !.target = Aim(op, t)])
        BY <4>1 DEF ReadTarget
      <4>3. Whole([Blank EXCEPT !.op = op, !.target = Aim(op, t)])
        BY <1>b
      <4>4. QED
        BY <4>2, <4>3
    <3>5. CASE SetUserDisabled(p)
      <4>1. Keep(p, Blank) \/ Keep(p, [Blank EXCEPT !.target = IdOf(job[p].target)])
        BY <3>5 DEF SetUserDisabled, Finish
      <4>2. QED
        BY <4>1, <1>b
    <3>6. QED
      BY <1>1, <3>1, <3>2, <3>3, <3>4, <3>5
      DEF Step, LoginSession, Refuse, Logout, TokenCreate, TokenDelete, UserCreate,
          CountActiveAdmins, SetUserAdmin, KickSessions, UserDelete, Finish
  <2>5. QED
    BY <2>1, <2>2, <2>3, <2>4, <1>c
<1>2. ASSUME Crash PROVE Carried'
  BY <1>2, <1>b DEF Crash, Carried, Whole
<1>3. ASSUME Boot \/ BootstrapAdmin PROVE Carried'
  BY <1>3 DEF Boot, BootstrapAdmin, Carried
<1>4. ASSUME RemovePasswordLine \/ UNCHANGED vars PROVE Carried'
  BY <1>4 DEF RemovePasswordLine, vars, config, Carried
<1>5. QED
  BY <1>1, <1>2, <1>3, <1>4 DEF Next, Environment

-----------------------------------------------------------------------------
(* An active admin remains. *)

(* The accounts are finitely many, as their ids are. *)
LEMMA UsersFinite ==
    ASSUME TypeOK, RowsOnce, NEW S \in SUBSET users
    PROVE  IsFiniteSet(S)
<1> DEFINE f == [u \in S |-> u.id]
<1>1. f \in Injection(S, 1 .. lastUid)
  <2>1. \A u \in S : u.id \in 1 .. lastUid
    BY DEF TypeOK, User
  <2>2. \A u, v \in S : u.id = v.id => u = v
    BY DEF RowsOnce
  <2>3. f \in [S -> 1 .. lastUid] /\ \A u, v \in S : f[u] = f[v] => u = v
    BY <2>1, <2>2
  <2>4. QED
    BY <2>3 DEF Injection, IsInjective
<1>2. IsFiniteSet(1 .. lastUid)
  BY FS_Interval DEF TypeOK
<1> HIDE DEF f
<1>3. QED
  BY <1>1, <1>2, FS_Injection

(* Where more than one is counted there are two of different ids. *)
LEMMA TwoAdmins ==
    ASSUME TypeOK, RowsOnce, ~(Cardinality(ActiveAdmins) <= 1)
    PROVE  \E u, v \in ActiveAdmins : u.id # v.id
<1>1. ActiveAdmins \in SUBSET users /\ IsFiniteSet(ActiveAdmins)
  BY UsersFinite DEF ActiveAdmins
<1>2. ActiveAdmins # {}
  BY <1>1, FS_EmptySet
<1>3. PICK u \in ActiveAdmins : TRUE
  BY <1>2
<1>4. ActiveAdmins # {u}
  BY <1>1, FS_Singleton
<1>5. PICK v \in ActiveAdmins : v # u
  BY <1>3, <1>4
<1>6. QED
  BY <1>1, <1>3, <1>5 DEF RowsOnce

(* Steps that leave the table of users alone and bring no request before   *)
(* its write leave the admins guarded. *)
LEMMA QuietGuarded ==
    ASSUME TypeOK, Guarded, UNCHANGED <<users, overlap, mode>>,
           NEW p \in Procs,
           \A q \in Procs \ {p} : pc'[q] = pc[q] /\ job'[q] = job[q],
           pc'[p] # "write"
    PROVE  Guarded'
<1>1. ActiveAdmins' = ActiveAdmins
  BY DEF ActiveAdmins
<1>2. \A q \in Procs \ {p} : \A u : Survives(q, u)' <=> Survives(q, u)
  BY DEF Survives
<1>3. QED
  BY <1>1, <1>2 DEF Guarded

(* A request that comes to its write with somebody to survive it does too. *)
LEMMA ReadyGuarded ==
    ASSUME TypeOK, Guarded, UNCHANGED <<users, overlap, mode>>,
           NEW p \in Procs,
           \A q \in Procs \ {p} : pc'[q] = pc[q] /\ job'[q] = job[q],
           overlap \/ \E u \in ActiveAdmins : Survives(p, u)'
    PROVE  Guarded'
<1>1. ActiveAdmins' = ActiveAdmins
  BY DEF ActiveAdmins
<1>2. \A q \in Procs \ {p} : \A u : Survives(q, u)' <=> Survives(q, u)
  BY DEF Survives
<1>3. QED
  BY <1>1, <1>2 DEF Guarded

(* Reading the target: without a count to come, the operation takes no     *)
(* active admin away. *)
LEMMA ReadTargetGuarded ==
    ASSUME TypeOK, RowsOnce, Carried, Guarded,
           NEW p \in Procs, NEW op \in Ops, NEW t \in users, ReadTarget(p, op, t)
    PROVE  Guarded'
<1>1. /\ UNCHANGED <<users, overlap, mode>>
      /\ \A q \in Procs \ {p} : pc'[q] = pc[q] /\ job'[q] = job[q]
  BY DEF ReadTarget, Keep, Goto, tables, config, history, TypeOK
<1>2. CASE NeedsCount(op, t)
  <2>1. pc'[p] = "count"
    BY <1>2 DEF ReadTarget, Goto, TypeOK
  <2>2. QED
    BY <1>1, <2>1, QuietGuarded
<1>3. CASE ~NeedsCount(op, t)
  <2>1. /\ job'[p].op = op /\ job'[p].target.id = t.id
        /\ op = "toggleAdmin" => job'[p].target.admin = t.admin
        /\ op = "toggleDisabled" => job'[p].target.disabled = t.disabled
    <3>1. job'[p] = [Blank EXCEPT !.op = op, !.target = Aim(op, t)]
      BY DEF ReadTarget, Keep, TypeOK
    <3>2. job'[p].op = op /\ job'[p].target = Aim(op, t)
      BY <3>1 DEF Blank
    <3>3. t \in Read /\ t.admin \in BOOLEAN /\ t.disabled \in BOOLEAN
      BY ReadTypes DEF TypeOK, User
    <3>4. Aim(op, t).id = t.id
      BY <3>3, KeptOfRow
    <3>5. Aim(op, t).admin = (op = "toggleAdmin" /\ t.admin)
      BY DEF Aim, IdOf, Nobody
    <3>6. Aim(op, t).disabled = (op = "toggleDisabled" /\ t.disabled)
      BY DEF Aim, IdOf, Nobody
    <3>7. QED
      BY <3>2, <3>3, <3>4, <3>5, <3>6
  <2>2. mode = "serving"
    BY DEF ReadTarget, Carried
  <2>3. overlap \/ ActiveAdmins # {}
    BY <2>2 DEF Guarded
  <2>4. t.admin \in BOOLEAN /\ t.disabled \in BOOLEAN
    BY DEF TypeOK, User
  <2>5. ASSUME NEW u \in ActiveAdmins PROVE Survives(p, u)'
    <3>1. u \in users /\ u.admin /\ ~u.disabled
      BY DEF ActiveAdmins
    <3>2. u.id = t.id => u = t
      BY <3>1 DEF RowsOnce
    <3>3. QED
      BY <1>3, <2>1, <2>4, <3>1, <3>2 DEF NeedsCount, Ops, Survives
  <2>6. QED
    BY <1>1, <2>3, <2>5, ReadyGuarded
<1>4. QED
  BY <1>2, <1>3

(* Counting two active admins: one of them is not the target. *)
LEMMA CountGuarded ==
    ASSUME TypeOK, RowsOnce, Guarded, NEW p \in Procs, CountActiveAdmins(p)
    PROVE  Guarded'
<1>1. /\ UNCHANGED <<users, overlap, mode>>
      /\ \A q \in Procs \ {p} : pc'[q] = pc[q] /\ job'[q] = job[q]
  BY DEF CountActiveAdmins, Finish, Keep, Goto, tables, config, history, TypeOK
<1>2. CASE Cardinality(ActiveAdmins) <= 1
  <2>1. pc'[p] = "idle"
    BY <1>2 DEF CountActiveAdmins, Finish, Goto, TypeOK
  <2>2. QED
    BY <1>1, <2>1, QuietGuarded
<1>3. CASE ~(Cardinality(ActiveAdmins) <= 1)
  <2>1. PICK u \in ActiveAdmins, v \in ActiveAdmins : u.id # v.id
    BY <1>3, TwoAdmins
  <2>2. job' = job
    BY <1>3 DEF CountActiveAdmins
  <2>3. Survives(p, u)' \/ Survives(p, v)'
    BY <2>1, <2>2 DEF Survives
  <2>4. QED
    BY <1>1, <2>1, <2>3, ReadyGuarded
<1>4. QED
  BY <1>2, <1>3

(* A write leaves an active admin, and when it overlapped with none no     *)
(* other request is about to write. *)
LEMMA WriteGuarded ==
    ASSUME TypeOK, Guarded, NEW p \in Procs, Writing(p), pc'[p] # "write",
           \A q \in Procs \ {p} : pc'[q] = pc[q],
           \A u \in ActiveAdmins : Survives(p, u) => ActiveAdmins' # {}
    PROVE  Guarded'
<1>1. CASE overlap'
  BY <1>1 DEF Guarded
<1>2. CASE ~overlap'
  <2>1. ~overlap /\ \A q \in Procs \ {p} : pc[q] # "write"
    BY <1>2 DEF Writing
  <2>2. ActiveAdmins' # {}
    BY <2>1 DEF Guarded, Writing
  <2>3. QED
    BY <2>1, <2>2 DEF Guarded
<1>3. QED
  BY <1>1, <1>2

(* A step of a request moves its own label and locals only.  *)
LEMMA OthersStay ==
    ASSUME TypeOK, NEW p \in Procs, Step(p) \/ Request(p)
    PROVE  /\ \A q \in Procs \ {p} : pc'[q] = pc[q] /\ job'[q] = job[q]
           /\ mode' = mode
<1>1. ASSUME job' = job \/ \E j : Keep(p, j), pc' = pc \/ \E l : Goto(p, l)
      PROVE  \A q \in Procs \ {p} : pc'[q] = pc[q] /\ job'[q] = job[q]
  BY <1>1 DEF Keep, Goto, TypeOK
<1>2. job' = job \/ \E j : Keep(p, j)
  BY DEF Step, Request, LoginVerify, LoginSession, AuthSession, AuthExpired, AuthUser, Refuse,
         Logout, TokenCreate, TokenDelete, UserCreate, ReadTarget, CountActiveAdmins, Writing,
         SetUserAdmin, SetUserDisabled, KickSessions, UserDelete, Finish
<1>3. pc' = pc \/ \E l : Goto(p, l)
  BY DEF Step, Request, LoginVerify, LoginSession, AuthSession, AuthExpired, AuthUser, Refuse,
         Logout, TokenCreate, TokenDelete, UserCreate, ReadTarget, CountActiveAdmins, Writing,
         SetUserAdmin, SetUserDisabled, KickSessions, UserDelete, Finish
<1>4. mode' = mode
  BY DEF Step, Request, LoginVerify, LoginSession, AuthSession, AuthExpired, AuthUser, Refuse,
         Logout, TokenCreate, TokenDelete, UserCreate, ReadTarget, CountActiveAdmins, Writing,
         SetUserAdmin, SetUserDisabled, KickSessions, UserDelete, config
<1>5. QED
  BY <1>1, <1>2, <1>3, <1>4

(* What the three writes leave of an active admin that survives them *)
LEMMA SurvivorStays ==
    ASSUME TypeOK, NEW p \in Procs, NEW u \in ActiveAdmins, Survives(p, u),
           SetUserAdmin(p) \/ SetUserDisabled(p) \/ UserDelete(p)
    PROVE  ActiveAdmins' # {}
<1>1. u \in users /\ u.admin /\ ~u.disabled /\ u \in User
  BY DEF ActiveAdmins, TypeOK
<1>2. CASE u.id # job[p].target.id
  <2>1. u \in users'
    BY <1>1, <1>2 DEF SetUserAdmin, SetUserDisabled, UserDelete, SetAdmin, SetDisabled, DeleteUser
  <2>2. QED
    BY <1>1, <2>1 DEF ActiveAdmins
<1>3. CASE u.id = job[p].target.id /\ SetUserAdmin(p)
  <2>1. ~job[p].target.admin
    BY <1>3 DEF Survives, SetUserAdmin
  <2>2. [u EXCEPT !.admin = ~job[p].target.admin] \in users'
    BY <1>1, <1>3 DEF SetUserAdmin, SetAdmin
  <2>3. /\ [u EXCEPT !.admin = ~job[p].target.admin].admin
        /\ ~[u EXCEPT !.admin = ~job[p].target.admin].disabled
    BY <1>1, <2>1 DEF User
  <2>4. QED
    BY <2>2, <2>3 DEF ActiveAdmins
<1>4. CASE u.id = job[p].target.id /\ SetUserDisabled(p)
  <2>1. job[p].target.disabled
    BY <1>4 DEF Survives, SetUserDisabled
  <2>2. [u EXCEPT !.disabled = ~job[p].target.disabled] \in users'
    BY <1>1, <1>4 DEF SetUserDisabled, SetDisabled
  <2>3. /\ [u EXCEPT !.disabled = ~job[p].target.disabled].admin
        /\ ~[u EXCEPT !.disabled = ~job[p].target.disabled].disabled
    BY <1>1, <2>1 DEF User
  <2>4. QED
    BY <2>2, <2>3 DEF ActiveAdmins
<1>5. CASE u.id = job[p].target.id /\ UserDelete(p)
  BY <1>5 DEF Survives, UserDelete
<1>6. QED
  BY <1>2, <1>3, <1>4, <1>5

(* New rows take no admin away.  *)
LEMMA GrowthGuarded ==
    ASSUME users \subseteq users' PROVE ActiveAdmins \subseteq ActiveAdmins'
BY DEF ActiveAdmins

(* The start leaves an active admin wherever it leaves an account. *)
LEMMA StartGuarded ==
    ASSUME TypeOK, Carried, Guarded, Boot \/ BootstrapAdmin
    PROVE  Guarded'
<1>1. \A p \in Procs : pc[p] = "idle" /\ pc'[p] = "idle"
  BY DEF Carried, Boot, BootstrapAdmin
<1>2. CASE overlap
  BY <1>2 DEF Guarded, Boot, BootstrapAdmin, history
<1>3. CASE ActiveAdmins # {}
  <2>1. PICK u \in users : u.admin /\ ~u.disabled
    BY <1>3 DEF ActiveAdmins
  <2>2. users' = users
    BY <2>1 DEF Boot, BootstrapAdmin
  <2>3. QED
    BY <1>1, <1>3, <2>2 DEF Guarded, ActiveAdmins
<1>4. CASE ~overlap /\ ActiveAdmins = {} /\ Boot
  <2>1. \A u \in users : ~u.admin /\ ~u.disabled
    BY <1>4 DEF Guarded
  <2>2. CASE users = {}
    <3>1. users' = {} /\ mode' = "booting"
      BY <1>4, <2>2 DEF Boot
    <3>2. QED
      BY <1>1, <3>1 DEF Guarded
  <2>3. CASE users # {}
    <3>1. PICK u \in users : SetAdmin(u.id, TRUE)
      BY <1>4, <2>1, <2>3 DEF Boot
    <3>2. [u EXCEPT !.admin = TRUE] \in users'
      BY <3>1 DEF SetAdmin
    <3>3. [u EXCEPT !.admin = TRUE].admin /\ ~[u EXCEPT !.admin = TRUE].disabled
      BY <2>1 DEF TypeOK, User
    <3>4. ActiveAdmins' # {}
      BY <3>2, <3>3 DEF ActiveAdmins
    <3>5. QED
      BY <1>1, <3>4 DEF Guarded
  <2>4. QED
    BY <2>2, <2>3
<1>5. CASE ~overlap /\ ActiveAdmins = {} /\ BootstrapAdmin
  <2>1. users = {}
    BY <1>5 DEF Guarded, BootstrapAdmin
  <2>2. \E u \in users' : u.admin /\ ~u.disabled
    <3>1. [id |-> NextUid, admin |-> TRUE, disabled |-> FALSE, born |-> births + 1] \in users'
      BY <1>5, <2>1 DEF BootstrapAdmin, CreateUser
    <3>2. QED
      BY <3>1
  <2>3. ActiveAdmins' # {}
    BY <2>2 DEF ActiveAdmins
  <2>4. QED
    BY <1>1, <2>3 DEF Guarded
<1>6. QED
  BY <1>2, <1>3, <1>4, <1>5

(* Every step keeps the admins guarded. *)
LEMMA NextGuarded ==
    TypeOK /\ RowsOnce /\ Carried /\ Guarded /\ [Next]_vars => Guarded'
<1> SUFFICES ASSUME TypeOK, RowsOnce, Carried, Guarded, [Next]_vars PROVE Guarded'
  OBVIOUS
<1>a. ASSUME NEW p \in Procs, Step(p) \/ Request(p), UNCHANGED <<users, overlap>>,
             pc'[p] # "write"
      PROVE  Guarded'
  BY <1>a, OthersStay, QuietGuarded
<1>b. ASSUME NEW p \in Procs, Finish(p) PROVE pc'[p] = "idle"
  BY <1>b DEF Finish, Goto, TypeOK
<1>1. ASSUME NEW p \in Procs, NEW u \in users, LoginVerify(p, u) PROVE Guarded'
  <2>1. UNCHANGED <<users, overlap>> /\ pc'[p] = "session"
    BY <1>1 DEF LoginVerify, Goto, TypeOK, tables, history
  <2>2. QED
    BY <1>1, <2>1, <1>a DEF Request
<1>2. ASSUME NEW p \in Procs, LoginSession(p) PROVE Guarded'
  BY <1>2, <1>a, <1>b DEF LoginSession, Step
<1>3. ASSUME NEW p \in Procs, NEW s \in sessions, AuthSession(p, s) PROVE Guarded'
  <2>1. UNCHANGED <<users, overlap>> /\ pc'[p] = "auth"
    BY <1>3 DEF AuthSession, Goto, TypeOK, tables, history
  <2>2. QED
    BY <1>3, <2>1, <1>a DEF Request
<1>4. ASSUME NEW p \in Procs, NEW s \in sessions, AuthExpired(p, s) PROVE Guarded'
  <2>1. UNCHANGED <<users, overlap>> /\ pc'[p] = "idle"
    BY <1>4 DEF AuthExpired, Start, history
  <2>2. QED
    BY <1>4, <2>1, <1>a DEF Request
<1>5. ASSUME NEW p \in Procs, AuthUser(p) PROVE Guarded'
  <2>1. UNCHANGED <<users, overlap>> /\ pc'[p] = "act"
    BY <1>5 DEF AuthUser, Goto, TypeOK, tables, history
  <2>2. QED
    BY <1>5, <2>1, <1>a DEF Step
<1>6. ASSUME NEW p \in Procs,
             Refuse(p) \/ Logout(p) \/ TokenCreate(p) \/ (\E t \in tokens : TokenDelete(p, t.id))
               \/ KickSessions(p)
      PROVE Guarded'
  <2>1. UNCHANGED <<users, overlap>> /\ Finish(p)
    BY <1>6 DEF Refuse, Logout, TokenCreate, TokenDelete, KickSessions, tables, history
  <2>2. QED
    BY <1>6, <2>1, <1>a, <1>b DEF Step
<1>7. ASSUME NEW p \in Procs, NEW b \in BOOLEAN, UserCreate(p, b) PROVE Guarded'
  <2>1. /\ ActiveAdmins \subseteq ActiveAdmins' /\ overlap' = overlap
        /\ pc'[p] = "idle" /\ mode = "serving"
    BY <1>7, <1>b, GrowthGuarded DEF UserCreate, CreateUser, Carried
  <2>2. \A q \in Procs \ {p} : pc'[q] = pc[q] /\ job'[q] = job[q]
    BY <1>7, OthersStay DEF Step
  <2>3. \A q \in Procs \ {p} : \A u : Survives(q, u)' <=> Survives(q, u)
    BY <2>2 DEF Survives
  <2>4. QED
    BY <2>1, <2>2, <2>3 DEF Guarded
<1>8. ASSUME NEW p \in Procs, NEW op \in Ops, NEW t \in users, ReadTarget(p, op, t) PROVE Guarded'
  BY <1>8, ReadTargetGuarded
<1>9. ASSUME NEW p \in Procs, CountActiveAdmins(p) PROVE Guarded'
  BY <1>9, CountGuarded
<1>10. ASSUME NEW p \in Procs, SetUserAdmin(p) \/ SetUserDisabled(p) \/ UserDelete(p)
       PROVE  Guarded'
  <2>1. Writing(p) /\ pc'[p] # "write"
    BY <1>10, <1>b DEF SetUserAdmin, SetUserDisabled, UserDelete, Goto, TypeOK
  <2>2. \A q \in Procs \ {p} : pc'[q] = pc[q]
    BY <1>10, OthersStay DEF Step
  <2>3. QED
    BY <1>10, <2>1, <2>2, SurvivorStays, WriteGuarded
<1>11. ASSUME Crash PROVE Guarded'
  BY <1>11 DEF Crash, Guarded, ActiveAdmins, tables
<1>12. ASSUME Boot \/ BootstrapAdmin PROVE Guarded'
  BY <1>12, StartGuarded
<1>13. ASSUME RemovePasswordLine \/ UNCHANGED vars PROVE Guarded'
  BY <1>13 DEF RemovePasswordLine, vars, tables, config, history, Guarded, ActiveAdmins, Survives
<1>14. QED
  BY <1>1, <1>2, <1>3, <1>4, <1>5, <1>6, <1>7, <1>8, <1>9, <1>10, <1>11, <1>12, <1>13
  DEF Next, Step, Request, Environment

-----------------------------------------------------------------------------
(* A disabled account keeps stray sessions only. *)

(* It does when no session is new, and an account is newly disabled only   *)
(* by a request that is to delete its sessions.  *)
LEMMA FewerSessions ==
    ASSUME DisabledKeepsOnlyStray,
           sessions' \subseteq sessions,
           \A s \in sessions' : s.tok \in stray => s.tok \in stray',
           \A q \in Procs : pc[q] = "kick" =>
               pc'[q] = "kick" /\ job'[q].target.id = job[q].target.id,
           \A u \in users' : u.disabled =>
               Kicking(u)' \/ \E v \in users : v.id = u.id /\ v.disabled
    PROVE  DisabledKeepsOnlyStray'
<1> SUFFICES ASSUME NEW u \in users', u.disabled, ~Kicking(u)',
                    NEW s \in sessions', s.user = u.id
             PROVE  s.tok \in stray'
  BY DEF DisabledKeepsOnlyStray
<1>1. PICK v \in users : v.id = u.id /\ v.disabled
  OBVIOUS
<1>2. ~Kicking(v)
  BY <1>1 DEF Kicking
<1>3. QED
  BY <1>1, <1>2 DEF DisabledKeepsOnlyStray

(* The statement that disables is followed by the one that ends sessions. *)
LEMMA SetDisabledKicks ==
    ASSUME TypeOK, NEW p \in Procs, SetUserDisabled(p)
    PROVE  \A u \in users' : u.disabled =>
               Kicking(u)' \/ \E v \in users : v.id = u.id /\ v.disabled
<1> SUFFICES ASSUME NEW u \in users', u.disabled
             PROVE  Kicking(u)' \/ \E v \in users : v.id = u.id /\ v.disabled
  OBVIOUS
<1>1. PICK v \in users : u = IF v.id = job[p].target.id
                             THEN [v EXCEPT !.disabled = ~job[p].target.disabled] ELSE v
  BY DEF SetUserDisabled, SetDisabled
<1>2. v \in User
  BY DEF TypeOK
<1>3. CASE v.id = job[p].target.id
  <2>1. ~job[p].target.disabled /\ u.id = v.id
    BY <1>1, <1>2, <1>3 DEF User
  <2>2. pc'[p] = "kick" /\ job'[p] = [Blank EXCEPT !.target = IdOf(job[p].target)]
    BY <2>1 DEF SetUserDisabled, Goto, Keep, TypeOK
  <2>3. job'[p].target.id = job[p].target.id
    <3>1. IdOf(job[p].target).id = job[p].target.id
      BY KeptOfRow DEF TypeOK
    <3>2. \A i : [Blank EXCEPT !.target = i].target = i
      BY DEF Blank
    <3>3. QED
      BY <2>2, <3>1, <3>2
  <2>4. QED
    BY <1>3, <2>1, <2>2, <2>3 DEF Kicking
<1>4. CASE v.id # job[p].target.id
  BY <1>1, <1>4
<1>5. QED
  BY <1>3, <1>4

(* Role changes and creations disable nobody. *)
LEMMA NobodyDisabled ==
    ASSUME TypeOK,
           \/ users' \subseteq users
           \/ \E id, b : SetAdmin(id, b)
           \/ \E b : CreateUser(b)
    PROVE  \A u \in users' : u.disabled => \E v \in users : v.id = u.id /\ v.disabled
<1>1. CASE users' \subseteq users
  BY <1>1
<1>2. ASSUME NEW id, NEW b, SetAdmin(id, b), NEW u \in users', u.disabled
      PROVE  \E v \in users : v.id = u.id /\ v.disabled
  <2>1. PICK v \in users : u = IF v.id = id THEN [v EXCEPT !.admin = b] ELSE v
    BY <1>2 DEF SetAdmin
  <2>2. v \in User
    BY DEF TypeOK
  <2>3. u.id = v.id /\ u.disabled = v.disabled
    BY <2>1, <2>2 DEF User
  <2>4. QED
    BY <1>2, <2>3
<1>3. ASSUME NEW b, CreateUser(b), NEW u \in users', u.disabled
      PROVE  \E v \in users : v.id = u.id /\ v.disabled
  <2>1. u \in users \/ u = [id |-> NextUid, admin |-> b, disabled |-> FALSE, born |-> births + 1]
    BY <1>3 DEF CreateUser
  <2>2. u \in users
    BY <1>3, <2>1
  <2>3. QED
    BY <1>3, <2>2
<1>4. QED
  BY <1>1, <1>2, <1>3

(* A login that passed its check before the account was disabled *)
LEMMA LateLogin ==
    ASSUME TypeOK, DisabledKeepsOnlyStray, NEW p \in Procs, LoginSession(p)
    PROVE  DisabledKeepsOnlyStray'
<1>1. \A q \in Procs : pc[q] = "kick" =>
        pc'[q] = "kick" /\ job'[q].target.id = job[q].target.id
  BY OthersStay DEF LoginSession, Step
<1>2. users' = users
  BY DEF LoginSession
<1>3. CASE UNCHANGED <<lastTok, sessions, stray>>
  BY <1>1, <1>2, <1>3, FewerSessions
<1>4. CASE /\ sessions' = sessions \cup {[tok |-> lastTok + 1, user |-> job[p].me.id,
                                          born |-> job[p].me.born]}
           /\ stray' = stray \cup {lastTok + 1 : u \in {v \in users : v.id = job[p].me.id /\ v.disabled}}
  <2> SUFFICES ASSUME NEW u \in users, u.disabled, ~Kicking(u)',
                      NEW s \in sessions', s.user = u.id
               PROVE  s.tok \in stray'
    BY <1>2 DEF DisabledKeepsOnlyStray
  <2>1. CASE s \in sessions
    <3>1. ~Kicking(u)
      BY <1>1 DEF Kicking
    <3>2. QED
      BY <1>4, <2>1, <3>1 DEF DisabledKeepsOnlyStray
  <2>2. CASE s \notin sessions
    <3>1. s.tok = lastTok + 1 /\ u.id = job[p].me.id
      BY <1>4, <2>2
    <3>2. QED
      BY <1>4, <3>1
  <2>3. QED
    BY <2>1, <2>2
<1>5. QED
  BY <1>3, <1>4 DEF LoginSession

(* Every step keeps it. *)
LEMMA NextDisabled ==
    TypeOK /\ RowsOnce /\ Carried /\ DisabledKeepsOnlyStray /\ [Next]_vars
        => DisabledKeepsOnlyStray'
<1> SUFFICES ASSUME TypeOK, RowsOnce, Carried, DisabledKeepsOnlyStray, [Next]_vars
             PROVE  DisabledKeepsOnlyStray'
  OBVIOUS
<1>a. ASSUME NEW p \in Procs, Step(p) \/ Request(p), pc[p] # "kick",
             sessions' \subseteq sessions, stray' = stray \/ Forget,
             \/ users' \subseteq users
             \/ \E id, b : SetAdmin(id, b)
             \/ \E b : CreateUser(b)
      PROVE  DisabledKeepsOnlyStray'
  <2>1. \A q \in Procs : pc[q] = "kick" =>
          pc'[q] = "kick" /\ job'[q].target.id = job[q].target.id
    BY <1>a, OthersStay
  <2>2. \A s \in sessions' : s.tok \in stray => s.tok \in stray'
    BY <1>a DEF Forget
  <2>3. QED
    BY <1>a, <2>1, <2>2, NobodyDisabled, FewerSessions
<1>1. ASSUME NEW p \in Procs,
             Request(p) \/ AuthUser(p) \/ Refuse(p) \/ Logout(p) \/ TokenCreate(p)
               \/ (\E t \in tokens : TokenDelete(p, t.id))
               \/ (\E op \in Ops, t \in users : ReadTarget(p, op, t)) \/ CountActiveAdmins(p)
      PROVE  DisabledKeepsOnlyStray'
  <2>1. /\ pc[p] # "kick" /\ users' = users
        /\ sessions' \subseteq sessions /\ (stray' = stray \/ Forget)
    BY <1>1 DEF Request, LoginVerify, AuthSession, AuthExpired, Start, AuthUser, Refuse, Logout,
                TokenCreate, TokenDelete, ReadTarget, CountActiveAdmins, tables, history
  <2>2. QED
    BY <1>1, <2>1, <1>a DEF Step
<1>2. ASSUME NEW p \in Procs, LoginSession(p) PROVE DisabledKeepsOnlyStray'
  BY <1>2, LateLogin
<1>3. ASSUME NEW p \in Procs, NEW b \in BOOLEAN, UserCreate(p, b) PROVE DisabledKeepsOnlyStray'
  BY <1>3, <1>a DEF UserCreate, Step
<1>4. ASSUME NEW p \in Procs, SetUserAdmin(p) PROVE DisabledKeepsOnlyStray'
  BY <1>4, <1>a DEF SetUserAdmin, Writing, Step
<1>5. ASSUME NEW p \in Procs, SetUserDisabled(p) PROVE DisabledKeepsOnlyStray'
  <2>1. \A q \in Procs : pc[q] = "kick" =>
          pc'[q] = "kick" /\ job'[q].target.id = job[q].target.id
    BY <1>5, OthersStay DEF SetUserDisabled, Writing, Step
  <2>2. sessions' = sessions /\ stray' = stray
    BY <1>5 DEF SetUserDisabled
  <2>3. QED
    BY <1>5, <2>1, <2>2, SetDisabledKicks, FewerSessions
<1>6. ASSUME NEW p \in Procs, KickSessions(p) PROVE DisabledKeepsOnlyStray'
  <2> SUFFICES ASSUME NEW u \in users, u.disabled, ~Kicking(u)',
                      NEW s \in sessions', s.user = u.id
               PROVE  s.tok \in stray'
    BY <1>6 DEF KickSessions, DisabledKeepsOnlyStray
  <2>1. s \in sessions /\ (s.tok \in stray => s.tok \in stray')
    BY <1>6 DEF KickSessions, Forget
  <2>2. CASE s.user # job[p].target.id
    <3>1. ~Kicking(u)
      BY <1>6, <2>2, OthersStay DEF Step, Kicking
    <3>2. QED
      BY <2>1, <3>1 DEF DisabledKeepsOnlyStray
  <2>3. CASE s.user = job[p].target.id
    BY <1>6, <2>1, <2>3 DEF KickSessions, Kicked
  <2>4. QED
    BY <2>2, <2>3
<1>7. ASSUME NEW p \in Procs, UserDelete(p) PROVE DisabledKeepsOnlyStray'
  BY <1>7, <1>a DEF UserDelete, DeleteUser, Writing, Step
<1>8. ASSUME Crash PROVE DisabledKeepsOnlyStray'
  <2> SUFFICES ASSUME NEW u \in users, u.disabled, NEW s \in sessions, s.user = u.id
               PROVE  s.tok \in stray'
    BY <1>8 DEF Crash, tables, DisabledKeepsOnlyStray
  <2>1. CASE Kicking(u)
    BY <1>8, <2>1 DEF Crash, Kicking, Kicked
  <2>2. CASE ~Kicking(u)
    BY <1>8, <2>2 DEF Crash, DisabledKeepsOnlyStray
  <2>3. QED
    BY <2>1, <2>2
<1>9. ASSUME Boot \/ BootstrapAdmin \/ RemovePasswordLine \/ UNCHANGED vars
      PROVE  DisabledKeepsOnlyStray'
  <2>1. sessions' = sessions /\ stray' = stray /\ pc' = pc /\ job' = job
    BY <1>9 DEF Boot, BootstrapAdmin, RemovePasswordLine, vars, tables, history
  <2>2. users' \subseteq users \/ (\E id, b : SetAdmin(id, b)) \/ (\E b : CreateUser(b))
    BY <1>9 DEF Boot, BootstrapAdmin, RemovePasswordLine, vars, tables
  <2>3. QED
    BY <2>1, <2>2, NobodyDisabled, FewerSessions
<1>10. QED
  BY <1>1, <1>2, <1>3, <1>4, <1>5, <1>6, <1>7, <1>8, <1>9 DEF Next, Step, Environment

-----------------------------------------------------------------------------
(* The invariant and what follows from it *)

LEMMA InitIInv == Init => IInv
<1> SUFFICES ASSUME Init PROVE IInv
  OBVIOUS
<1>1. PICK n \in 0 .. Legacy :
        /\ users = {[id |-> i, admin |-> FALSE, disabled |-> FALSE, born |-> i] : i \in 1 .. n}
        /\ lastUid = n /\ births = n
  BY DEF Init
<1>2. n \in Nat
  BY <1>1, AccountsAssumption
<1> DEFINE Old(i) == [id |-> i, admin |-> FALSE, disabled |-> FALSE, born |-> i]
<1>a. \A u \in users : \E i \in 1 .. n : u = Old(i)
  BY <1>1
<1>b. \A i : Old(i).id = i /\ Old(i).born = i /\ ~Old(i).admin /\ ~Old(i).disabled
  OBVIOUS
<1>c. \A i \in 1 .. n : Old(i) \in User
  BY <1>1, <1>2 DEF User
<1> HIDE DEF Old
<1>3. users \subseteq User
  BY <1>a, <1>c
<1>4. Nobody \in Read
  BY <1>1, <1>2 DEF Nobody, Read
<1>5. Blank \in [me : Read, tok : 0 .. lastTok, op : Ops \cup {"none"}, target : Read]
  BY <1>4 DEF Blank, Init
<1>6. TypeOK
  BY <1>1, <1>2, <1>3, <1>5 DEF Init, TypeOK
<1>7. RowsOnce
  <2>1. \A u \in users : u = Old(u.id) /\ u.born = u.id
    BY <1>a, <1>b
  <2>2. QED
    BY <1>1, <2>1 DEF RowsOnce
<1>8. Owned /\ DisabledKeepsOnlyStray
  BY DEF Init, Owned, Credentials, DisabledKeepsOnlyStray
<1>9. Carried
  BY DEF Init, Carried, Blank, Nobody
<1>10. Guarded
  <2>1. \A u \in users : ~u.admin /\ ~u.disabled
    BY <1>a, <1>b
  <2>2. QED
    BY <2>1 DEF Init, Guarded
<1>11. QED
  BY <1>6, <1>7, <1>8, <1>9, <1>10 DEF IInv

LEMMA NextIInv == IInv /\ [Next]_vars => IInv'
BY NextTypes, NextRows, NextOwned, NextCarried, NextGuarded, NextDisabled DEF IInv

(* Accounts, sessions, tokens and the requests in progress agree, and the  *)
(* admins are guarded, whatever the number of requests.  *)
THEOREM Invariance == Spec => []IInv
<1>1. Init => IInv
  BY InitIInv
<1>2. IInv /\ [Next]_vars => IInv'
  BY NextIInv
<1>3. QED
  BY <1>1, <1>2, PTL DEF Spec

(* Every variable has its type. *)
THEOREM TypeCorrectness == Spec => []TypeOK
<1>1. IInv => TypeOK
  BY DEF IInv
<1>2. QED
  BY <1>1, Invariance, PTL

(* No session, token or request outlives its account to act for another.  *)
THEOREM OwnedCredentials == Spec => []CredentialsBelongToTheirOwner
<1>1. IInv => CredentialsBelongToTheirOwner
  <2> SUFFICES ASSUME RowsOnce, Owned, Carried PROVE CredentialsBelongToTheirOwner
    BY DEF IInv
  <2>1. \A c \in Credentials : \E u \in users : u.id = c.user /\ u.born = c.born
    BY DEF RowsOnce, Owned
  <2>2. \A u \in users, p \in Procs :
          /\ u.id = job[p].me.id => u.born = job[p].me.born
          /\ u.id = job[p].target.id => u.born = job[p].target.born
    BY DEF RowsOnce, Carried
  <2>3. QED
    BY <2>1, <2>2 DEF CredentialsBelongToTheirOwner
<1>2. QED
  BY <1>1, Invariance, PTL

(* While it serves, the server has an admin who can log in, unless two     *)
(* requests that change users overlapped. *)
THEOREM AdminStays == Spec => []AdminRemainsUnlessOverlap
<1>1. IInv => AdminRemainsUnlessOverlap
  BY DEF IInv, Guarded, AdminRemainsUnlessOverlap
<1>2. QED
  BY <1>1, Invariance, PTL

(* Disabling an account ends its sessions, but for the stray ones. *)
THEOREM DisablingEndsSessions == Spec => []DisabledKeepsOnlyStray
<1>1. IInv => DisabledKeepsOnlyStray
  BY DEF IInv
<1>2. QED
  BY <1>1, Invariance, PTL

(* A step that takes a token is a request of its owner or takes the owner. *)
LEMMA TokenSteps ==
    ASSUME TypeOK, [Next]_vars, NEW t \in tokens \ tokens'
    PROVE  \/ \A u \in users' : u.id # t.user
           \/ \E p \in Procs : pc[p] = "act" /\ pc'[p] = "idle" /\ job[p].me.id = t.user
<1>1. ASSUME NEW p \in Procs, UserDelete(p) PROVE \A u \in users' : u.id # t.user
  BY <1>1 DEF UserDelete, DeleteUser
<1>2. ASSUME NEW p \in Procs, NEW id, TokenDelete(p, id)
      PROVE  pc[p] = "act" /\ pc'[p] = "idle" /\ job[p].me.id = t.user
  BY <1>2 DEF TokenDelete, DeleteAPIToken, Finish, Goto, TypeOK
<1>3. CASE tokens \subseteq tokens'
  BY <1>3
<1>4. QED
  BY <1>1, <1>2, <1>3
  DEF Next, Step, Request, Environment, vars, tables, LoginVerify, LoginSession, AuthSession,
      AuthExpired, AuthUser, Refuse, Logout, TokenCreate, UserCreate, ReadTarget, CountActiveAdmins,
      SetUserAdmin, SetUserDisabled, KickSessions, Crash, RemovePasswordLine, Boot, BootstrapAdmin

(* A token is taken away only by its owner, or with its owner. *)
THEOREM OwnersRemoveTokens == Spec => TokensRemovedByOwner
<1>1. IInv /\ [Next]_vars =>
        [\A t \in tokens \ tokens' :
            \/ \A u \in users' : u.id # t.user
            \/ \E p \in Procs : pc[p] = "act" /\ pc'[p] = "idle" /\ job[p].me.id = t.user]_vars
  BY TokenSteps DEF IInv
<1>2. QED
  BY <1>1, Invariance, PTL DEF Spec, TokensRemovedByOwner

=============================================================================
