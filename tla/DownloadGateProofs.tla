------------------------- MODULE DownloadGateProofs -------------------------
(* Theorems about DownloadGate, for every value of its constants. *)
EXTENDS DownloadGate, TLAPS

-----------------------------------------------------------------------------
(* Type correctness *)

(* The locals of an idle request have their type. *)
LEMMA BlankType == Blank \in Request /\ NoApp.name \in Names
<1>1. (CHOOSE n \in Names : TRUE) \in Names
  BY GateAssumption
<1>2. QED
  BY <1>1 DEF Blank, NoApp, Request

(* The initial state satisfies the invariant. *)
LEMMA InitIInv == Init => IInv
<1> SUFFICES ASSUME Init PROVE IInv
  OBVIOUS
<1>1. job \in [Browsers -> Request]
  BY BlankType DEF Init
<1>2. secret \in Seq(Passwords)
  BY DEF Init
<1>3. Types
  BY <1>1, <1>2 DEF Init, Types
<1>4. OneAppPerName /\ CookiesEntered /\ HeldIsSent
  BY DEF Init, OneAppPerName, CookiesEntered, HeldIsSent, Blank
<1>5. QED
  BY <1>3, <1>4 DEF IInv

(* The types grow with the counter of apps and the list of hashes.         *)
LEMMA TypesGrow ==
    ASSUME Types, lastApp' \in Nat, lastApp <= lastApp',
           secret' \in Seq(Passwords), Len(secret) <= Len(secret')
    PROVE  /\ Row \subseteq Row' /\ CookieRow \subseteq CookieRow'
           /\ Request \subseteq Request'
           /\ 1 .. lastApp \subseteq 1 .. lastApp'
           /\ 1 .. Len(secret) \subseteq 1 .. Len(secret')
<1>1. /\ 1 .. lastApp \subseteq 1 .. lastApp'
      /\ 1 .. Len(secret) \subseteq 1 .. Len(secret')
      /\ 0 .. Len(secret) \subseteq 0 .. Len(secret')
  BY DEF Types
<1>2. Row \subseteq Row' /\ CookieRow \subseteq CookieRow'
  BY <1>1 DEF Row, CookieRow
<1>3. Request \subseteq Request'
  BY <1>2 DEF Request
<1>4. QED
  BY <1>1, <1>2, <1>3

(* They do not move while the tables stand still.                          *)
LEMMA SameTypes ==
    ASSUME UNCHANGED tables
    PROVE  Row' = Row /\ CookieRow' = CookieRow /\ Request' = Request
BY DEF Row, CookieRow, Request, tables

(* The end of a request keeps the types of what it touches. *)
LEMMA FinishTypes ==
    ASSUME Types, UNCHANGED tables, NEW b \in Browsers,
           NEW a \in {"none", "served", "asked", "redirected", "gone"}, Finish(b, a)
    PROVE  /\ pc' \in [Browsers -> {"idle", "gate", "cookie"}]
           /\ job' \in [Browsers -> Request']
           /\ answer' \in [Browsers -> {"none", "served", "asked", "redirected", "gone"}]
<1>1. Request' = Request /\ Blank \in Request
  BY SameTypes, BlankType
<1>2. QED
  BY <1>1 DEF Finish, Types

(* So does serving an app that exists or existed. *)
LEMMA ServeTypes ==
    ASSUME Types, UNCHANGED tables, NEW b \in Browsers, NEW for,
           NEW id \in 1 .. lastApp, Serve(b, for, id),
           UNCHANGED <<jar, entered>>
    PROVE  Types'
<1>1. /\ pc' \in [Browsers -> {"idle", "gate", "cookie"}]
      /\ job' \in [Browsers -> Request']
      /\ answer' \in [Browsers -> {"none", "served", "asked", "redirected", "gone"}]
  BY FinishTypes DEF Serve
<1>2. links' \in [Browsers -> SUBSET (1 .. lastApp)]
  BY DEF Serve, Types
<1>3. QED
  BY <1>1, <1>2, SameTypes DEF Types, tables

(* And passing the first read of the app. *)
LEMMA EnterTypes ==
    ASSUME Types, UNCHANGED tables, NEW b \in Browsers, NEW for \in {"page", "package"},
           NEW x \in apps, NEW sent \in SUBSET CookieRow, Enter(b, for, x, sent),
           UNCHANGED <<jar, entered>>
    PROVE  Types'
<1>1. x \in Row /\ x.id \in 1 .. lastApp
  BY DEF Types, Row
<1>2. CASE x.hash = 0
  <2>1. Serve(b, for, x.id)
    BY <1>2 DEF Enter
  <2>2. QED
    BY <2>1, <1>1, ServeTypes
<1>3. CASE x.hash # 0
  <2> DEFINE j == [for |-> for, app |-> x, sent |-> sent, holds |-> Holds(b, x)]
  <2>1. Holds(b, x) \in BOOLEAN
    BY DEF Holds
  <2>2. j \in Request
    BY <2>1, <1>1 DEF Request
  <2>3. /\ pc' = [pc EXCEPT ![b] = "gate"] /\ job' = [job EXCEPT ![b] = j]
        /\ UNCHANGED <<answer, links>>
    BY <1>3 DEF Enter
  <2> HIDE DEF j
  <2>4. job' \in [Browsers -> Request]
    BY <2>2, <2>3 DEF Types
  <2>5. QED
    BY <2>3, <2>4, SameTypes DEF Types, tables
<1>4. QED
  BY <1>2, <1>3

(* The steps of a tester's requests keep the types. *)
LEMMA TesterTypes ==
    ASSUME Types, CookiesEntered, NEW b \in Browsers, Tester(b)
    PROVE  Types'
<1>1. ASSUME NEW n \in Names, PageBegin(b, n) PROVE Types'
  <2>1. SentWithPage(b, n) \in SUBSET CookieRow
    BY DEF SentWithPage, Types
  <2>2. QED
    BY <1>1, <2>1, EnterTypes DEF PageBegin
<1>2. ASSUME NEW id \in links[b], PackageBegin(b, id) PROVE Types'
  <2>1. SentWithPackage(b) \in SUBSET CookieRow
    BY DEF SentWithPackage
  <2>2. QED
    BY <1>2, <2>1, EnterTypes DEF PackageBegin
<1>3. CASE PackageGone(b)
  BY <1>3, FinishTypes, SameTypes DEF PackageGone, Types, tables
<1>4. CASE GatePass(b)
  <2>1. PICK x \in apps : x.id = job[b].app.id
    BY <1>4 DEF GatePass
  <2>2. job[b].app.id \in 1 .. lastApp
    BY <2>1 DEF Types, Row
  <2>3. QED
    BY <1>4, <2>2, ServeTypes DEF GatePass
<1>5. CASE GateAsk(b)
  BY <1>5, FinishTypes, SameTypes DEF GateAsk, Types, tables
<1>6. ASSUME NEW n \in Names, NEW pw \in Passwords \cup {Guess}, AuthRead(b, n, pw)
      PROVE Types'
  <2>1. PICK x \in apps :
          /\ VerifyPassword(x.hash, pw)
          /\ entered' = entered \cup {[browser |-> b, app |-> x.id, hash |-> x.hash]}
          /\ job' = [job EXCEPT ![b] = [Blank EXCEPT !.for = "cookie", !.app = x]]
    BY <1>6 DEF AuthRead
  <2>2. x \in Row /\ x.id \in 1 .. lastApp /\ x.hash \in 1 .. Len(secret)
    BY <2>1 DEF Types, Row, VerifyPassword, Hashes
  <2>3. [Blank EXCEPT !.for = "cookie", !.app = x] \in Request
    BY <2>2, BlankType DEF Request
  <2>4. job' \in [Browsers -> Request]
    BY <2>1, <2>3 DEF Types
  <2>5. entered' \subseteq [browser : Browsers, app : 1 .. lastApp, hash : 1 .. Len(secret)]
    BY <2>1, <2>2 DEF Types
  <2>6. QED
    BY <1>6, <2>4, <2>5, SameTypes DEF AuthRead, Types, tables
<1>7. ASSUME NEW n \in Names, NEW pw \in Passwords \cup {Guess}, AuthWrong(b, n, pw)
      PROVE Types'
  <2>1. PICK a \in {"redirected", "asked"} : Finish(b, a)
    BY <1>7 DEF AuthWrong
  <2>2. QED
    BY <1>7, <2>1, FinishTypes, SameTypes DEF AuthWrong, Types, tables
<1>8. CASE AuthCookie(b)
  <2> DEFINE c == Cookie(job[b].app, job[b].app.name)
  <2>1. [browser |-> b, app |-> job[b].app.id, hash |-> job[b].app.hash] \in entered
    BY <1>8 DEF AuthCookie, CookiesEntered, Entered
  <2>2. job[b].app.id \in 1 .. lastApp /\ job[b].app.hash \in 1 .. Len(secret)
    BY <2>1 DEF Types
  <2>3. job[b].app.name \in Names
    BY BlankType DEF Types, Request, Row
  <2>4. c \in CookieRow
    BY <2>2, <2>3 DEF Cookie, CookieRow
  <2>5. Stored(b, c) \subseteq CookieRow
    BY <2>4 DEF Stored, Types
  <2>6. jar' \in [Browsers -> SUBSET CookieRow]
    BY <1>8, <2>5 DEF AuthCookie, Types
  <2>7. QED
    BY <1>8, <2>6, FinishTypes, SameTypes DEF AuthCookie, Types, tables
<1>9. CASE AuthLost(b)
  BY <1>9, FinishTypes, SameTypes DEF AuthLost, Types, tables
<1>10. ASSUME NEW c \in jar[b], CookieExpires(b, c) PROVE Types'
  <2>1. jar' \in [Browsers -> SUBSET CookieRow]
    BY <1>10 DEF CookieExpires, Types
  <2>2. PICK h \in BOOLEAN : job' = [job EXCEPT ![b].holds = h]
    BY <1>10 DEF CookieExpires, Types, Request
  <2>3. job' \in [Browsers -> Request]
    BY <2>2 DEF Types, Request
  <2>4. QED
    BY <1>10, <2>1, <2>3, SameTypes DEF CookieExpires, Types, tables
<1>11. QED
  BY <1>1, <1>2, <1>3, <1>4, <1>5, <1>6, <1>7, <1>8, <1>9, <1>10 DEF Tester

(* What a statement of an administrator does not touch stays well typed,   *)
(* and requests lose no more than their hold.                              *)
LEMMA AdminUntouched ==
    ASSUME Types, lastApp' \in Nat, lastApp <= lastApp',
           secret' \in Seq(Passwords), Len(secret) <= Len(secret'),
           UNCHANGED <<jar, links, pc, answer, entered>>,
           job' = job \/ \E a \in 1 .. lastApp : Changed(a),
           apps' \subseteq Row'
    PROVE  Types'
<1>1. job' \in [Browsers -> Request]
  <2>1. CASE job' = job
    BY <2>1 DEF Types
  <2>2. ASSUME NEW a \in 1 .. lastApp, Changed(a) PROVE job' \in [Browsers -> Request]
    <3>1. \A b \in Browsers : [job[b] EXCEPT !.holds = FALSE] \in Request
      BY DEF Types, Request
    <3>2. QED
      BY <2>2, <3>1 DEF Changed, Types
  <2>3. QED
    BY <2>1, <2>2
<1>2. job' \in [Browsers -> Request']
  BY <1>1, TypesGrow
<1>3. /\ jar' \in [Browsers -> SUBSET CookieRow']
      /\ links' \in [Browsers -> SUBSET (1 .. lastApp')]
  BY TypesGrow DEF Types
<1>4. entered' \subseteq [browser : Browsers, app : 1 .. lastApp', hash : 1 .. Len(secret')]
  BY TypesGrow DEF Types
<1>5. QED
  BY <1>2, <1>3, <1>4 DEF Types

(* The statements of administrators keep the types. *)
LEMMA AdminTypes ==
    ASSUME Types, Admin
    PROVE  Types'
<1>0. lastApp \in Nat /\ secret \in Seq(Passwords) /\ Len(secret) \in Nat
  BY DEF Types
<1>1. ASSUME NEW n \in Names, CreateApp(n) PROVE Types'
  <2>1. /\ lastApp' = lastApp + 1 /\ secret' = secret
        /\ UNCHANGED <<jar, links, pc, job, answer, entered>>
        /\ apps' = apps \cup {[id |-> lastApp + 1, name |-> n, hash |-> 0]}
    BY <1>1 DEF CreateApp
  <2>2. Row \subseteq Row'
    BY <2>1, <1>0, TypesGrow
  <2>3. [id |-> lastApp + 1, name |-> n, hash |-> 0] \in Row'
    BY <2>1, <1>0 DEF Row
  <2>4. apps' \subseteq Row'
    BY <2>1, <2>2, <2>3 DEF Types
  <2>5. QED
    BY <2>1, <2>4, <1>0, AdminUntouched
<1>2. ASSUME NEW x \in apps, NEW n \in Names, UpdateApp(x, n) PROVE Types'
  <2>1. /\ UNCHANGED <<lastApp, secret, jar, links, pc, answer, entered>>
        /\ Changed(x.id) /\ apps' = (apps \ {x}) \cup {[x EXCEPT !.name = n]}
    BY <1>2 DEF UpdateApp
  <2>2. x.id \in 1 .. lastApp /\ [x EXCEPT !.name = n] \in Row /\ Row' = Row
    BY <2>1 DEF Types, Row
  <2>3. apps' \subseteq Row'
    BY <2>1, <2>2 DEF Types
  <2>4. QED
    BY <2>1, <2>2, <2>3, <1>0, AdminUntouched
<1>3. ASSUME NEW x \in apps, NEW pw \in Passwords, SetAppPassword(x, pw) PROVE Types'
  <2>1. /\ UNCHANGED <<lastApp, jar, links, pc, answer, entered>>
        /\ secret' = Append(secret, pw)
        /\ Changed(x.id) /\ apps' = (apps \ {x}) \cup {[x EXCEPT !.hash = Len(secret) + 1]}
    BY <1>3 DEF SetAppPassword
  <2>2. secret' \in Seq(Passwords) /\ Len(secret') = Len(secret) + 1
    BY <2>1, <1>0
  <2>3. x.id \in 1 .. lastApp /\ Row \subseteq Row'
    BY <2>1, <2>2, <1>0, TypesGrow DEF Types, Row
  <2>4. [x EXCEPT !.hash = Len(secret) + 1] \in Row'
    BY <2>1, <2>2, <1>0 DEF Types, Row
  <2>5. apps' \subseteq Row'
    BY <2>1, <2>3, <2>4 DEF Types
  <2>6. QED
    BY <2>1, <2>2, <2>3, <2>5, <1>0, AdminUntouched
<1>4. ASSUME NEW x \in apps, ClearAppPassword(x) PROVE Types'
  <2>1. /\ UNCHANGED <<lastApp, secret, jar, links, pc, answer, entered>>
        /\ Changed(x.id) /\ apps' = (apps \ {x}) \cup {[x EXCEPT !.hash = 0]}
    BY <1>4 DEF ClearAppPassword
  <2>2. x.id \in 1 .. lastApp /\ [x EXCEPT !.hash = 0] \in Row /\ Row' = Row
    BY <2>1, <1>0 DEF Types, Row
  <2>3. apps' \subseteq Row'
    BY <2>1, <2>2 DEF Types
  <2>4. QED
    BY <2>1, <2>2, <2>3, <1>0, AdminUntouched
<1>5. ASSUME NEW x \in apps, DeleteApp(x) PROVE Types'
  <2>1. /\ UNCHANGED <<lastApp, secret, jar, links, pc, answer, entered>>
        /\ Changed(x.id) /\ apps' = apps \ {x}
    BY <1>5 DEF DeleteApp
  <2>2. x.id \in 1 .. lastApp /\ apps' \subseteq Row'
    BY <2>1 DEF Types, Row
  <2>3. QED
    BY <2>1, <2>2, <1>0, AdminUntouched
<1>6. QED
  BY <1>1, <1>2, <1>3, <1>4, <1>5 DEF Admin

-----------------------------------------------------------------------------
(* The parts of the invariant *)

(* Only administrators change the rows. *)
LEMMA TesterTables ==
    ASSUME NEW b \in Browsers, Tester(b)
    PROVE  UNCHANGED tables
BY DEF Tester, PageBegin, PackageBegin, PackageGone, GatePass, GateAsk,
       AuthRead, AuthWrong, AuthCookie, AuthLost, CookieExpires

(* A new app has a new id and a free short id, a renamed one a free one. *)
LEMMA AdminNames ==
    ASSUME Types, OneAppPerName, Admin
    PROVE  OneAppPerName'
<1>1. ASSUME NEW n \in Names, CreateApp(n) PROVE OneAppPerName'
  <2>1. \A x \in apps : x.id # lastApp + 1 /\ x.name # n
    BY <1>1 DEF CreateApp, Types, Row
  <2>2. QED
    BY <1>1, <2>1 DEF CreateApp, OneAppPerName
<1>2. ASSUME NEW x \in apps, NEW y, y.id = x.id,
             y.name = x.name \/ \A z \in apps : z.name # y.name,
             apps' = (apps \ {x}) \cup {y}
      PROVE OneAppPerName'
  BY <1>2 DEF OneAppPerName
<1>3. ASSUME NEW x \in apps, NEW n \in Names, UpdateApp(x, n) PROVE OneAppPerName'
  <2> DEFINE y == [x EXCEPT !.name = n]
  <2>1. y.id = x.id /\ y.name = n
    BY DEF Types, Row
  <2>2. apps' = (apps \ {x}) \cup {y} /\ \A z \in apps : z.name # n
    BY <1>3 DEF UpdateApp
  <2> HIDE DEF y
  <2>3. QED
    BY <2>1, <2>2, <1>2
<1>4. ASSUME NEW x \in apps, NEW h, apps' = (apps \ {x}) \cup {[x EXCEPT !.hash = h]}
      PROVE OneAppPerName'
  <2> DEFINE y == [x EXCEPT !.hash = h]
  <2>1. y.id = x.id /\ y.name = x.name
    BY DEF Types, Row
  <2>2. apps' = (apps \ {x}) \cup {y}
    BY <1>4
  <2> HIDE DEF y
  <2>3. QED
    BY <2>1, <2>2, <1>2
<1>5. ASSUME NEW x \in apps, DeleteApp(x) PROVE OneAppPerName'
  BY <1>5 DEF DeleteApp, OneAppPerName
<1>6. QED
  BY <1>1, <1>3, <1>4, <1>5 DEF Admin, SetAppPassword, ClearAppPassword

(* The locals of the other browsers' requests stay as they are. *)
LEMMA OtherBrowsers ==
    ASSUME Types, NEW b \in Browsers, Tester(b), NEW o \in Browsers, o # b
    PROVE  /\ pc'[o] = pc[o] /\ job'[o] = job[o] /\ jar'[o] = jar[o]
           /\ entered \subseteq entered'
BY DEF Types, Tester, PageBegin, PackageBegin, PackageGone, GatePass, GateAsk,
       AuthRead, AuthWrong, AuthCookie, AuthLost, CookieExpires, Enter, Serve, Finish

(* A tester's step sends cookies of the jar, and stores one only for a     *)
(* password that was entered.                                              *)
LEMMA TesterCookies ==
    ASSUME Types, CookiesEntered, NEW b \in Browsers, Tester(b)
    PROVE  CookiesEntered'
<1> DEFINE P(o) == /\ \A c \in jar[o] \cup job[o].sent : Entered(o, c.app, c.hash)
                   /\ pc[o] = "cookie" => Entered(o, job[o].app.id, job[o].app.hash)
<1>0. P(b) /\ b \in DOMAIN pc /\ b \in DOMAIN job /\ b \in DOMAIN jar
  BY DEF CookiesEntered, Types
<1>1. ASSUME NEW a, Finish(b, a), UNCHANGED <<jar, entered>> PROVE P(b)'
  BY <1>0, <1>1 DEF Finish, Blank, Entered
<1>2. ASSUME NEW for, NEW x \in apps, NEW sent \in SUBSET jar[b],
             Enter(b, for, x, sent), UNCHANGED <<jar, entered>>
      PROVE P(b)'
  <2>1. CASE x.hash = 0
    BY <1>1, <1>2, <2>1 DEF Enter, Serve
  <2>2. CASE x.hash # 0
    BY <1>0, <1>2, <2>2 DEF Enter, Entered
  <2>3. QED
    BY <2>1, <2>2
<1>3. ASSUME NEW n \in Names, PageBegin(b, n) PROVE P(b)'
  <2>1. SentWithPage(b, n) \in SUBSET jar[b]
    BY DEF SentWithPage
  <2> HIDE DEF P
  <2>2. QED
    BY <1>2, <1>3, <2>1 DEF PageBegin
<1>4. ASSUME NEW id \in links[b], PackageBegin(b, id) PROVE P(b)'
  <2>1. SentWithPackage(b) \in SUBSET jar[b]
    BY DEF SentWithPackage
  <2> HIDE DEF P
  <2>2. QED
    BY <1>2, <1>4, <2>1 DEF PackageBegin
<1>5. ASSUME PackageGone(b) \/ GatePass(b) \/ GateAsk(b) \/ AuthLost(b) PROVE P(b)'
  <2> HIDE DEF P
  <2>1. QED
    BY <1>1, <1>5 DEF PackageGone, GatePass, GateAsk, AuthLost, Serve
<1>6. ASSUME NEW n \in Names, NEW pw \in Passwords \cup {Guess}, AuthWrong(b, n, pw)
      PROVE P(b)'
  <2> HIDE DEF P
  <2>1. QED
    BY <1>1, <1>6 DEF AuthWrong
<1>7. ASSUME NEW n \in Names, NEW pw \in Passwords \cup {Guess}, AuthRead(b, n, pw)
      PROVE P(b)'
  <2>1. PICK x \in apps :
          /\ entered' = entered \cup {[browser |-> b, app |-> x.id, hash |-> x.hash]}
          /\ job' = [job EXCEPT ![b] = [Blank EXCEPT !.for = "cookie", !.app = x]]
    BY <1>7 DEF AuthRead
  <2>2. job'[b].app = x /\ job'[b].sent = {} /\ jar' = jar
    BY <1>0, <1>7, <2>1 DEF AuthRead, Blank
  <2>3. QED
    BY <1>0, <2>1, <2>2 DEF Entered
<1>8. ASSUME AuthCookie(b) PROVE P(b)'
  <2> DEFINE c == Cookie(job[b].app, job[b].app.name)
  <2>1. Entered(b, c.app, c.hash)
    BY <1>0, <1>8 DEF AuthCookie, Cookie
  <2>2. /\ jar'[b] \subseteq jar[b] \cup {c}
        /\ job'[b].sent = {} /\ pc'[b] = "idle" /\ entered' = entered
    BY <1>0, <1>8 DEF AuthCookie, Stored, Finish, Blank
  <2> HIDE DEF c
  <2>3. QED
    BY <1>0, <2>1, <2>2 DEF Entered
<1>9. ASSUME NEW c \in jar[b], CookieExpires(b, c) PROVE P(b)'
  <2>1. /\ jar'[b] \subseteq jar[b] /\ job'[b].sent = job[b].sent
        /\ job'[b].app = job[b].app /\ pc' = pc /\ entered' = entered
    BY <1>0, <1>9 DEF CookieExpires, Types, Request
  <2>2. QED
    BY <1>0, <2>1 DEF Entered
<1>10. P(b)'
  <2> HIDE DEF P
  <2>1. QED
    BY <1>3, <1>4, <1>5, <1>6, <1>7, <1>8, <1>9 DEF Tester
<1>11. ASSUME NEW o \in Browsers, o # b PROVE P(o)'
  <2>1. P(o)
    BY DEF CookiesEntered
  <2>2. QED
    BY <1>11, <2>1, OtherBrowsers DEF Entered
<1>12. QED
  BY <1>10, <1>11 DEF CookiesEntered

(* Administrators change neither jars nor what requests carry.             *)
LEMMA AdminCookies ==
    ASSUME Types, CookiesEntered, Admin
    PROVE  CookiesEntered'
<1>1. UNCHANGED <<jar, pc, entered>>
  BY DEF Admin, CreateApp, UpdateApp, SetAppPassword, ClearAppPassword, DeleteApp
<1>2. job' = job \/ \E a : Changed(a)
  BY DEF Admin, CreateApp, UpdateApp, SetAppPassword, ClearAppPassword, DeleteApp
<1>3. ASSUME NEW b \in Browsers
      PROVE  job'[b].app = job[b].app /\ job'[b].sent = job[b].sent
  BY <1>2, <1>3 DEF Changed, Types, Request
<1>4. QED
  BY <1>1, <1>3 DEF CookiesEntered, Entered

(* A page request sends what the jar holds, and loses its hold as soon as  *)
(* the cookie goes.                                                        *)
LEMMA TesterHolds ==
    ASSUME Types, HeldIsSent, NEW b \in Browsers, Tester(b)
    PROVE  HeldIsSent'
<1> DEFINE H(o) == pc[o] = "gate" /\ job[o].for = "page" /\ job[o].holds =>
                     /\ job[o].app \in apps
                     /\ Cookie(job[o].app, job[o].app.name) \in job[o].sent
<1>0. H(b) /\ b \in DOMAIN pc /\ b \in DOMAIN job /\ UNCHANGED apps
  BY TesterTables DEF HeldIsSent, Types, tables
<1>1. ASSUME pc'[b] # "gate" PROVE H(b)'
  BY <1>1
<1>2. ASSUME NEW n \in Names, PageBegin(b, n) PROVE H(b)'
  <2>1. PICK x \in apps : x.name = n /\ Enter(b, "page", x, SentWithPage(b, n))
    BY <1>2 DEF PageBegin
  <2>2. CASE x.hash = 0
    BY <1>0, <2>1, <2>2 DEF Enter, Serve, Finish
  <2>3. CASE x.hash # 0
    <3>1. /\ job'[b].app = x /\ job'[b].sent = SentWithPage(b, n)
          /\ job'[b].holds = Holds(b, x)
      BY <1>0, <2>1, <2>3 DEF Enter
    <3>2. Holds(b, x) => Cookie(x, x.name) \in SentWithPage(b, n)
      BY <2>1 DEF Holds, SentWithPage, Cookie
    <3>3. QED
      BY <1>0, <3>1, <3>2 DEF Cookie
  <2>4. QED
    BY <2>2, <2>3
<1>3. ASSUME NEW id \in links[b], PackageBegin(b, id) PROVE H(b)'
  <2>1. PICK x \in apps : Enter(b, "package", x, SentWithPackage(b))
    BY <1>3 DEF PackageBegin
  <2>2. pc'[b] # "gate" \/ job'[b].for # "page"
    BY <1>0, <2>1 DEF Enter, Serve, Finish
  <2>3. QED
    BY <2>2
<1>4. ASSUME NEW c \in jar[b], CookieExpires(b, c) PROVE H(b)'
  <2>1. /\ pc' = pc /\ job'[b].for = job[b].for /\ job'[b].app = job[b].app
        /\ job'[b].sent = job[b].sent /\ (job'[b].holds => job[b].holds)
    BY <1>0, <1>4 DEF CookieExpires, Types, Request
  <2>2. QED
    BY <1>0, <2>1 DEF Cookie
<1>5. ASSUME PackageGone(b) \/ GatePass(b) \/ GateAsk(b) \/ AuthCookie(b) \/ AuthLost(b)
             \/ \E n \in Names, pw \in Passwords \cup {Guess} :
                  AuthRead(b, n, pw) \/ AuthWrong(b, n, pw)
      PROVE pc'[b] # "gate"
  BY <1>0, <1>5 DEF PackageGone, GatePass, GateAsk, AuthCookie, AuthLost,
                    AuthRead, AuthWrong, Serve, Finish
<1>6. H(b)'
  <2> HIDE DEF H
  <2>1. QED
    BY <1>1, <1>2, <1>3, <1>4, <1>5 DEF Tester
<1>7. ASSUME NEW o \in Browsers, o # b PROVE H(o)'
  <2>1. H(o)
    BY DEF HeldIsSent
  <2>2. QED
    BY <1>0, <1>7, <2>1, OtherBrowsers DEF Cookie
<1>8. QED
  BY <1>6, <1>7 DEF HeldIsSent

(* A row that changes takes the hold of its requests with it.              *)
LEMMA AdminHolds ==
    ASSUME Types, HeldIsSent, Admin
    PROVE  HeldIsSent'
<1>1. pc' = pc
  BY DEF Admin, CreateApp, UpdateApp, SetAppPassword, ClearAppPassword, DeleteApp
<1>2. \/ job' = job /\ apps \subseteq apps'
      \/ \E x \in apps : Changed(x.id) /\ apps \ {x} \subseteq apps'
  BY DEF Admin, CreateApp, UpdateApp, SetAppPassword, ClearAppPassword, DeleteApp
<1>3. CASE job' = job /\ apps \subseteq apps'
  BY <1>1, <1>3 DEF HeldIsSent, Cookie
<1>4. ASSUME NEW x \in apps, Changed(x.id), apps \ {x} \subseteq apps'
      PROVE  HeldIsSent'
  <2>1. SUFFICES ASSUME NEW b \in Browsers, pc'[b] = "gate", job'[b].for = "page",
                        job'[b].holds
                 PROVE  /\ job'[b].app \in apps'
                        /\ Cookie(job'[b].app, job'[b].app.name) \in job'[b].sent
    BY DEF HeldIsSent, Cookie
  <2>2. job[b].app.id # x.id /\ job'[b] = job[b]
    BY <1>4, <2>1 DEF Changed, Types, Request
  <2>3. job[b].app \in apps /\ Cookie(job[b].app, job[b].app.name) \in job[b].sent
    BY <1>1, <2>1, <2>2 DEF HeldIsSent
  <2>4. QED
    BY <1>4, <2>2, <2>3
<1>5. QED
  BY <1>2, <1>3, <1>4

-----------------------------------------------------------------------------
(* The theorems *)

(* The invariant is inductive. *)
LEMMA NextIInv == IInv /\ [Next]_vars => IInv'
<1> SUFFICES ASSUME IInv, [Next]_vars PROVE IInv'
  OBVIOUS
<1>1. ASSUME NEW b \in Browsers, Tester(b) PROVE IInv'
  <2>1. OneAppPerName'
    BY <1>1, TesterTables DEF IInv, OneAppPerName, tables
  <2>2. QED
    BY <1>1, <2>1, TesterTypes, TesterCookies, TesterHolds DEF IInv
<1>2. CASE Admin
  BY <1>2, AdminTypes, AdminNames, AdminCookies, AdminHolds DEF IInv
<1>3. CASE UNCHANGED vars
  <2>1. Types'
    BY <1>3, SameTypes DEF vars, tables, IInv, Types
  <2>2. OneAppPerName' /\ CookiesEntered' /\ HeldIsSent'
    BY <1>3 DEF vars, tables, IInv, OneAppPerName, CookiesEntered, Entered, HeldIsSent, Cookie
  <2>3. QED
    BY <2>1, <2>2 DEF IInv
<1>4. QED
  BY <1>1, <1>2, <1>3 DEF Next

(* In every reachable state a short id names one app, no browser has a     *)
(* cookie it did not enter a password for, and who holds a cookie sent it. *)
THEOREM Invariance == Spec => []IInv
<1>1. QED
  BY InitIInv, NextIInv, PTL DEF Spec

(* The step that answers a gate is one of the two disjuncts of the gate.   *)
LEMMA GateAnswered ==
    ASSUME Types, Next, NEW b \in Browsers, NEW a, AnswersGate(b, a)
    PROVE  GatePass(b) \/ GateAsk(b)
<1>0. pc[b] = "gate" /\ pc'[b] # pc[b]
  BY DEF AnswersGate
<1>1. ~Admin
  BY <1>0 DEF Admin, CreateApp, UpdateApp, SetAppPassword, ClearAppPassword, DeleteApp
<1>2. Tester(b)
  BY <1>0, <1>1, OtherBrowsers DEF Next
<1>3. QED
  BY <1>0, <1>2 DEF Tester, PageBegin, PackageBegin, PackageGone, AuthRead, AuthWrong,
                    AuthCookie, AuthLost, CookieExpires

(* hasAppPasswordCookie lets nobody in who did not enter the password that *)
(* the app has at that moment, whatever was renamed, deleted or set anew.  *)
THEOREM GateOpensForPassword == Spec => OnlyPasswordInForceOpens
<1>1. ASSUME IInv, [Next]_vars, NEW b \in Browsers, AnswersGate(b, "served")
      PROVE  \E x \in apps : x.id = job[b].app.id /\ Entered(b, x.id, x.hash)
  <2>1. Next
    BY <1>1 DEF vars, AnswersGate
  <2>2. GatePass(b) \/ GateAsk(b)
    BY <1>1, <2>1, GateAnswered DEF IInv
  <2>3. GatePass(b)
    BY <1>1, <2>2 DEF GateAsk, Finish, AnswersGate, IInv, Types
  <2>4. QED
    BY <1>1, <2>3 DEF GatePass, CookieFits, IInv, CookiesEntered
<1>2. IInv /\ [Next]_vars =>
        [\A b \in Browsers : AnswersGate(b, "served") =>
           \E x \in apps : x.id = job[b].app.id /\ Entered(b, x.id, x.hash)]_vars
  BY <1>1
<1>3. QED
  BY <1>2, Invariance, PTL DEF Spec, OnlyPasswordInForceOpens

(* handleDownloadPage does not ask a browser again that held the cookie of *)
(* the app, under the app's short id, for as long as the request ran.      *)
THEOREM PageOpensForHolder == Spec => HolderSeesPage
<1>1. ASSUME IInv, [Next]_vars, NEW b \in Browsers, AnswersGate(b, "asked"),
             job[b].for = "page"
      PROVE  ~job[b].holds
  <2>1. Next
    BY <1>1 DEF vars, AnswersGate
  <2>2. GateAsk(b)
    BY <1>1, <2>1, GateAnswered DEF IInv, GatePass, Serve, Finish, AnswersGate, Types
  <2>3. SUFFICES ASSUME job[b].holds PROVE FALSE
    OBVIOUS
  <2>4. job[b].app \in apps /\ Cookie(job[b].app, job[b].app.name) \in job[b].sent
    BY <1>1, <2>3 DEF IInv, HeldIsSent, AnswersGate
  <2>5. CookieFits(job[b].app, job[b].sent)
    BY <2>4 DEF CookieFits, Cookie
  <2>6. QED
    BY <2>2, <2>4, <2>5 DEF GateAsk
<1>2. IInv /\ [Next]_vars =>
        [\A b \in Browsers :
           AnswersGate(b, "asked") /\ job[b].for = "page" => ~job[b].holds]_vars
  BY <1>1
<1>3. QED
  BY <1>2, Invariance, PTL DEF Spec, HolderSeesPage

=============================================================================
