---------------------------- MODULE DownloadGate ----------------------------
(***************************************************************************)
(* The download password of an app: the hash in its row, the cookie that a *)
(* browser gets for entering the password, and the two gates that ask for  *)
(* that cookie, on the download page and on the package.                   *)
(*                                                                         *)
(* A gate reads the app to see whether it has a password, and reads it     *)
(* again to check the cookie; administrators rename the app, change its    *)
(* password or delete it in between.  Hashes are salted, so every password *)
(* set is a new one.  An app stands for its current iOS build: the links   *)
(* of its page name a version, and a version belongs to one app for ever.  *)
(* Manifest and package have the same gate and are one request here.       *)
(***************************************************************************)
EXTENDS Naturals, Sequences

CONSTANTS
    Browsers,    \* browsers of testers, each with one request at a time
    Names,       \* short ids, the last part of a page's URL
    Passwords,   \* what administrators set
    Guess,       \* what is never the password
    MaxApps,     \* bound: apps ever created
    MaxHashes    \* bound: passwords ever set

ASSUME GateAssumption == Names # {} /\ MaxApps \in Nat /\ MaxHashes \in Nat

VARIABLES
    apps,      \* rows [id, name, hash], hash 0 for no password
    lastApp,   \* AUTOINCREMENT counter of apps
    secret,    \* the password each hash was made from, in order
    jar,       \* cookies of each browser: [app, name, hash]
    links,     \* apps whose page, with its links, each browser was given
    pc, job,   \* next step and locals of the request of each browser
    answer,    \* what each browser's last request was answered
    entered    \* history: [browser, app, hash], a password entered rightly

tables == <<apps, lastApp, secret>>
vars == <<tables, jar, links, pc, job, answer, entered>>

-----------------------------------------------------------------------------
(* Data *)

NoApp == [id |-> 0, name |-> CHOOSE n \in Names : TRUE, hash |-> 0]

(* A request: the page or the package it asks for, the app it read, the    *)
(* cookies it came with; and whether, so far, the browser has held the     *)
(* app's own cookie for as long as the request runs (history).             *)
Blank == [for |-> "none", app |-> NoApp, sent |-> {}, holds |-> FALSE]

Hashes == DOMAIN secret
VerifyPassword(h, pw) == h \in Hashes /\ secret[h] = pw

(* Value: a digest of the hash *)
Cookie(x, n) == [app |-> x.id, name |-> n, hash |-> x.hash]

(* Set-Cookie replaces the cookie of the same name and path. *)
Stored(b, c) == {d \in jar[b] : d.app # c.app \/ d.name # c.name} \cup {c}

(* A cookie whose path is that of the form, /d/<short id>/auth *)
SentWithNoPage(b, n) == {}

(* The cookie's path is /d/<short id>: browsers send it with the page and  *)
(* with nothing under /manifest or /file.                                  *)
SentWithPage(b, n) == {c \in jar[b] : c.name = n}
SentWithPackage(b) == {}

(* hasAppPasswordCookie that accepts the cookie of any hash of the app *)
CookieFitsAny(x, sent) == \E c \in sent : c.app = x.id

CookieFits(x, sent) == \E c \in sent : c.app = x.id /\ c.hash = x.hash

Holds(b, x) == Cookie(x, x.name) \in jar[b]

-----------------------------------------------------------------------------
Finish(b, a) ==
    /\ pc' = [pc EXCEPT ![b] = "idle"]
    /\ job' = [job EXCEPT ![b] = Blank]
    /\ answer' = [answer EXCEPT ![b] = a]

Serve(b, for, id) ==
    /\ Finish(b, "served")
    /\ links' = [links EXCEPT ![b] = IF for = "page" THEN @ \cup {id} ELSE @]

(* The first read of the app: without a password it is served at once. *)
Enter(b, for, x, sent) ==
    IF x.hash = 0 THEN Serve(b, for, x.id)
    ELSE /\ pc' = [pc EXCEPT ![b] = "gate"]
         /\ job' = [job EXCEPT ![b] = [for |-> for, app |-> x, sent |-> sent,
                                       holds |-> Holds(b, x)]]
         /\ UNCHANGED <<answer, links>>

PageBegin(b, n) ==
    /\ pc[b] = "idle"
    /\ \E x \in apps : x.name = n /\ Enter(b, "page", x, SentWithPage(b, n))
    /\ UNCHANGED <<tables, jar, entered>>

PackageBegin(b, id) ==
    /\ pc[b] = "idle"
    /\ \E x \in apps : x.id = id /\ Enter(b, "package", x, SentWithPackage(b))
    /\ UNCHANGED <<tables, jar, entered>>

(* The version that a link names, or its app, is gone: not found. *)
PackageGone(b) ==
    /\ pc[b] = "idle"
    /\ Finish(b, "gone")
    /\ UNCHANGED <<tables, jar, links, entered>>

(* The second read, and the comparison *)
GatePass(b) ==
    /\ pc[b] = "gate"
    /\ \E x \in apps : x.id = job[b].app.id /\ CookieFits(x, job[b].sent)
    /\ Serve(b, job[b].for, job[b].app.id)
    /\ UNCHANGED <<tables, jar, entered>>

GateAsk(b) ==
    /\ pc[b] = "gate"
    /\ \A x \in apps : x.id = job[b].app.id => ~CookieFits(x, job[b].sent)
    /\ Finish(b, "asked")
    /\ UNCHANGED <<tables, jar, links, entered>>

-----------------------------------------------------------------------------
(* Entering the password: the row is read and the password compared; the   *)
(* browser stores the cookie when the answer reaches it.                   *)

AuthRead(b, n, pw) ==
    /\ pc[b] = "idle"
    /\ \E x \in apps :
        /\ x.name = n
        /\ VerifyPassword(x.hash, pw)
        /\ entered' = entered \cup {[browser |-> b, app |-> x.id, hash |-> x.hash]}
        /\ job' = [job EXCEPT ![b] = [Blank EXCEPT !.for = "cookie", !.app = x]]
    /\ pc' = [pc EXCEPT ![b] = "cookie"]
    /\ UNCHANGED <<tables, jar, links, answer>>

(* No password is set, or the one entered is wrong *)
AuthWrong(b, n, pw) ==
    /\ pc[b] = "idle"
    /\ \E x \in apps :
        /\ x.name = n /\ ~VerifyPassword(x.hash, pw)
        /\ Finish(b, IF x.hash = 0 THEN "redirected" ELSE "asked")
    /\ UNCHANGED <<tables, jar, links, entered>>

AuthCookie(b) ==
    /\ pc[b] = "cookie"
    /\ jar' = [jar EXCEPT ![b] = Stored(b, Cookie(job[b].app, job[b].app.name))]
    /\ Finish(b, "redirected")
    /\ UNCHANGED <<tables, links, entered>>

(* The answer is lost. *)
AuthLost(b) ==
    /\ pc[b] = "cookie"
    /\ Finish(b, "none")
    /\ UNCHANGED <<tables, jar, links, entered>>

(* A day later, or the browser forgets. *)
CookieExpires(b, c) ==
    /\ jar' = [jar EXCEPT ![b] = @ \ {c}]
    /\ job' = [job EXCEPT ![b].holds = @ /\ c.app # job[b].app.id]
    /\ UNCHANGED <<tables, links, pc, answer, entered>>

-----------------------------------------------------------------------------
(* Administrators; each handler is one statement.  The rows that change    *)
(* end what requests held of them.                                         *)

Changed(a) ==
    job' = [b \in Browsers |-> IF job[b].app.id = a THEN [job[b] EXCEPT !.holds = FALSE]
                                                    ELSE job[b]]

CreateApp(n) ==
    /\ lastApp < MaxApps
    /\ \A x \in apps : x.name # n
    /\ lastApp' = lastApp + 1
    /\ apps' = apps \cup {[id |-> lastApp + 1, name |-> n, hash |-> 0]}
    /\ UNCHANGED <<secret, jar, links, pc, job, answer, entered>>

(* A schema without the UNIQUE constraint *)
UpdateAppTaken(x, n) ==
    /\ apps' = (apps \ {x}) \cup {[x EXCEPT !.name = n]}
    /\ Changed(x.id)
    /\ UNCHANGED <<lastApp, secret, jar, links, pc, answer, entered>>

(* The UNIQUE constraint refuses a name that another app has. *)
UpdateApp(x, n) ==
    /\ \A y \in apps : y.name # n
    /\ apps' = (apps \ {x}) \cup {[x EXCEPT !.name = n]}
    /\ Changed(x.id)
    /\ UNCHANGED <<lastApp, secret, jar, links, pc, answer, entered>>

SetAppPassword(x, pw) ==
    /\ Len(secret) < MaxHashes
    /\ secret' = Append(secret, pw)
    /\ apps' = (apps \ {x}) \cup {[x EXCEPT !.hash = Len(secret) + 1]}
    /\ Changed(x.id)
    /\ UNCHANGED <<lastApp, jar, links, pc, answer, entered>>

ClearAppPassword(x) ==
    /\ apps' = (apps \ {x}) \cup {[x EXCEPT !.hash = 0]}
    /\ Changed(x.id)
    /\ UNCHANGED <<lastApp, secret, jar, links, pc, answer, entered>>

DeleteApp(x) ==
    /\ apps' = apps \ {x}
    /\ Changed(x.id)
    /\ UNCHANGED <<lastApp, secret, jar, links, pc, answer, entered>>

-----------------------------------------------------------------------------
Init ==
    /\ apps = {} /\ lastApp = 0 /\ secret = <<>>
    /\ jar = [b \in Browsers |-> {}] /\ links = [b \in Browsers |-> {}]
    /\ pc = [b \in Browsers |-> "idle"]
    /\ job = [b \in Browsers |-> Blank]
    /\ answer = [b \in Browsers |-> "none"]
    /\ entered = {}

Tester(b) ==
    \/ \E n \in Names : PageBegin(b, n)
    \/ \E id \in links[b] : PackageBegin(b, id)
    \/ links[b] # {} /\ PackageGone(b)
    \/ GatePass(b) \/ GateAsk(b)
    \/ \E n \in Names, pw \in Passwords \cup {Guess} : AuthRead(b, n, pw) \/ AuthWrong(b, n, pw)
    \/ AuthCookie(b) \/ AuthLost(b)
    \/ \E c \in jar[b] : CookieExpires(b, c)

Admin ==
    \/ \E n \in Names : CreateApp(n)
    \/ \E x \in apps :
        \/ \E n \in Names : UpdateApp(x, n)
        \/ \E pw \in Passwords : SetAppPassword(x, pw)
        \/ ClearAppPassword(x) \/ DeleteApp(x)

Next == (\E b \in Browsers : Tester(b)) \/ Admin

Spec == Init /\ [][Next]_vars

-----------------------------------------------------------------------------
(* Properties *)

Row == [id : 1 .. lastApp, name : Names, hash : 0 .. Len(secret)]
CookieRow == [app : 1 .. lastApp, name : Names, hash : 1 .. Len(secret)]
Request == [for : {"none", "page", "package", "cookie"}, app : Row \cup {NoApp},
            sent : SUBSET CookieRow, holds : BOOLEAN]

(* Every variable has its type: apps, cookies and requests name ids and    *)
(* hashes that were given out.                                             *)
Types ==
    /\ lastApp \in Nat
    /\ apps \subseteq Row
    /\ secret \in Seq(Passwords)
    /\ jar \in [Browsers -> SUBSET CookieRow]
    /\ links \in [Browsers -> SUBSET (1 .. lastApp)]
    /\ pc \in [Browsers -> {"idle", "gate", "cookie"}]
    /\ job \in [Browsers -> Request]
    /\ answer \in [Browsers -> {"none", "served", "asked", "redirected", "gone"}]
    /\ entered \subseteq [browser : Browsers, app : 1 .. lastApp, hash : 1 .. Len(secret)]

(* Two apps never share an id or a short id, whatever renames and new apps *)
(* follow one another: a URL names one app.                                *)
OneAppPerName == \A x, y \in apps : x.id = y.id \/ x.name = y.name => x = y

(* Every cookie, in a jar, in a request or on its way to the browser, was  *)
(* made for a password that this browser entered.                          *)
Entered(b, a, h) == [browser |-> b, app |-> a, hash |-> h] \in entered

CookiesEntered ==
    \A b \in Browsers :
        /\ \A c \in jar[b] \cup job[b].sent : Entered(b, c.app, c.hash)
        /\ pc[b] = "cookie" => Entered(b, job[b].app.id, job[b].app.hash)

(* A page request whose browser still holds the cookie of the app it read  *)
(* brought that cookie, and the app is as it was read.                     *)
HeldIsSent ==
    \A b \in Browsers :
        pc[b] = "gate" /\ job[b].for = "page" /\ job[b].holds =>
            /\ job[b].app \in apps
            /\ Cookie(job[b].app, job[b].app.name) \in job[b].sent

(* The invariant is inductive, and the gates rest on it: one app per short *)
(* id, cookies only for what was entered, holders have what they need.     *)
IInv == Types /\ OneAppPerName /\ CookiesEntered /\ HeldIsSent

AnswersGate(b, a) == pc[b] = "gate" /\ pc'[b] = "idle" /\ answer'[b] = a

(* A gate opens only to a browser that has entered the password in force   *)
(* when it is checked: not an earlier one, even the same set anew, not     *)
(* that of another app, and not that of an app which had the short id      *)
(* before.                                                                 *)
OnlyPasswordInForceOpens ==
    [][\A b \in Browsers : AnswersGate(b, "served") =>
         \E x \in apps : x.id = job[b].app.id /\ Entered(b, x.id, x.hash)]_vars

(* A browser that holds the cookie of the app under its short id is not    *)
(* asked for the password of the page again while neither app nor cookie   *)
(* changes, whatever other apps and passwords it has seen.                 *)
HolderSeesPage ==
    [][\A b \in Browsers :
         AnswersGate(b, "asked") /\ job[b].for = "page" => ~job[b].holds]_vars

(* The page says that the app is protected and asks for the password:      *)
(* having entered it, the browser gets the package the page links to.      *)
HolderGetsPackage ==
    [][\A b \in Browsers :
         AnswersGate(b, "asked") /\ job[b].for = "package" => ~job[b].holds]_vars

=============================================================================
