------------------------------ MODULE Visitors ------------------------------
(***************************************************************************)
(* What visitors without an account write: the device identifiers (UDIDs)  *)
(* that come in a form or in a device's callback, which nobody             *)
(* authenticates, and the icons that the first request for one rewrites.   *)
(*                                                                         *)
(* Short ids name apps in the addresses visitors use, and administrators   *)
(* rename and delete apps meanwhile.  Versions are those of a database     *)
(* from before icons were converted: an upload stores a converted icon and *)
(* rewrites none, and its races with deletion are Catalog's.  The details  *)
(* a callback brings beside the UDID are left out.                         *)
(***************************************************************************)
EXTENDS Naturals, FiniteSets, Functions

CONSTANTS
    Procs,      \* goroutines that may serve a request at the same time
    Devices,    \* UDIDs as they are spelled
    ShortIDs,   \* short ids an app may have
    NoName,     \* no short id
    Icons,      \* ids of the versions whose icon was stored before
    MaxApps,    \* bound: apps ever created
    MaxMishaps  \* bound: kills, and errors the code ignores

ASSUME VisitorsAssumption ==
    /\ NoName \notin ShortIDs
    /\ ShortIDs # {}
    /\ IsFiniteSet(Icons) /\ Icons \subseteq Nat \ {0}
    /\ MaxApps \in Nat \ {0} /\ MaxMishaps \in Nat

VARIABLES
    apps,       \* table apps: [id, short]
    lastApp,    \* AUTOINCREMENT counter of apps
    vers,       \* table versions: [id, app]
    icons,      \* icon files: version id -> "apple", "odd", "png" or "empty"
    udids,      \* table udids: [app, dev]
    mode,       \* "down" or "serving"
    pc, job,    \* next step and locals of each request
    mishaps,    \* used up part of their bound
    shown,      \* history: [dev, app], the page said it is recorded
    cut,        \* history: icons whose rewriting was cut short
    ghosts      \* history: icon files a rewriting created anew, or an error
                \* that was ignored spared from removal

tables == <<apps, lastApp, vers, udids>>
harm == <<cut, ghosts>>
vars == <<tables, icons, mode, pc, job, mishaps, shown, harm>>

-----------------------------------------------------------------------------
(* Data *)

(* A request's locals: the short id in its address, the app it resolved    *)
(* to, the device, the version, what was read of its icon, the open icon   *)
(* file, and the icons a deletion has still to remove.  History: astray,   *)
(* the short id has changed hands since the request came, or the database  *)
(* refused the row.                                                        *)
Blank == [short |-> NoName, app |-> 0, dev |-> NoName, astray |-> FALSE,
          ver |-> 0, data |-> "none", fd |-> 0, todo |-> {}]

AppExists(a) == \E x \in apps : x.id = a
Taken(s) == \E x \in apps : x.short = s

Listed == {v.id : v \in vers}

Put(f, i, c) == [x \in DOMAIN f \cup {i} |-> IF x = i THEN c ELSE f[x]]

Content(i) == IF i \in DOMAIN icons THEN icons[i] ELSE "none"

(* NormalizeAppleCgBI; module CgBI says what becomes of the picture, and   *)
(* which Apple icons, here the odd ones, are given back as they are.       *)
IsCgBI(data) == data \in {"apple", "odd"}
Converted(data) == IF data = "apple" THEN "png" ELSE data

Start(p) == mode = "serving" /\ pc[p] = "idle"
Goto(p, l) == pc' = [pc EXCEPT ![p] = l]
Keep(p, j) == job' = [job EXCEPT ![p] = j]
Finish(p) == Goto(p, "idle") /\ Keep(p, Blank)

Mishap == mishaps < MaxMishaps /\ mishaps' = mishaps + 1

(* History: the short ids in S now name another app, or none *)
ChangeHands(S) ==
    job' = [p \in Procs |-> [job[p] EXCEPT !.astray = @ \/ job[p].short \in S]]

-----------------------------------------------------------------------------
(* Administrators.  Creating and renaming an app are single statements;    *)
(* the UNIQUE short id refuses one that is taken.                          *)

CreateApp(s) ==
    /\ mode = "serving"
    /\ lastApp < MaxApps
    /\ ~Taken(s)
    /\ lastApp' = lastApp + 1
    /\ apps' = apps \cup {[id |-> lastApp + 1, short |-> s]}
    /\ ChangeHands({s})
    /\ UNCHANGED <<vers, icons, udids, mode, pc, mishaps, shown, harm>>

UpdateApp(x, s) ==
    /\ mode = "serving"
    /\ ~Taken(s)
    /\ apps' = (apps \ {x}) \cup {[x EXCEPT !.short = s]}
    /\ ChangeHands({x.short, s})
    /\ UNCHANGED <<lastApp, vers, icons, udids, mode, pc, mishaps, shown, harm>>

(* The version and its app are read, or the versions of an app listed. *)
VersionDeleteBegin(p, v) ==
    /\ Start(p)
    /\ Keep(p, [Blank EXCEPT !.ver = v.id, !.todo = {v.id}])
    /\ Goto(p, "remove")
    /\ UNCHANGED <<tables, icons, mode, mishaps, shown, harm>>

(* The listing's error is ignored, and what it had read passes for all. *)
AppDeleteBegin(p, x) ==
    LET all == {v.id : v \in {w \in vers : w.app = x.id}}
    IN  /\ Start(p)
        /\ \E D \in SUBSET all :
            /\ Keep(p, [Blank EXCEPT !.app = x.id, !.todo = D])
            /\ ghosts' = ghosts \cup (all \ D)
            /\ \/ D = all /\ UNCHANGED mishaps
               \/ Mishap
        /\ Goto(p, "remove")
        /\ UNCHANGED <<tables, icons, mode, shown, cut>>

(* Deleting files that forgets the icon *)
RemoveIconNot(p) ==
    /\ pc[p] = "remove"
    /\ \E i \in job[p].todo : Keep(p, [job[p] EXCEPT !.todo = @ \ {i}])
    /\ UNCHANGED <<tables, icons, mode, pc, mishaps, shown, harm>>

(* DeleteVersionFiles: an open icon file is no longer the one of that      *)
(* name.  A file that cannot be removed stays, and nobody is told.         *)
RemoveIcon(p) ==
    /\ pc[p] = "remove"
    /\ \E i \in job[p].todo :
        \/ /\ icons' = Restrict(icons, DOMAIN icons \ {i})
           /\ job' = [q \in Procs |->
                        IF q = p THEN [job[p] EXCEPT !.todo = @ \ {i}]
                        ELSE IF job[q].fd = i THEN [job[q] EXCEPT !.fd = 0] ELSE job[q]]
           /\ cut' = cut \ {i}
           /\ ghosts' = ghosts \ {i}
           /\ UNCHANGED mishaps
        \/ /\ Keep(p, [job[p] EXCEPT !.todo = @ \ {i}])
           /\ ghosts' = ghosts \cup {i}
           /\ Mishap
           /\ UNCHANGED <<icons, cut>>
    /\ UNCHANGED <<tables, mode, pc, shown>>

DeleteVersionRow(p) ==
    /\ pc[p] = "remove" /\ job[p].todo = {} /\ job[p].ver # 0
    /\ \/ vers' = {v \in vers : v.id # job[p].ver} /\ UNCHANGED mishaps
       \/ UNCHANGED vers /\ Mishap
    /\ Finish(p)
    /\ UNCHANGED <<apps, lastApp, udids, icons, mode, shown, harm>>

(* Rows that refer to the app go with it, by ON DELETE CASCADE. *)
DeleteApp(p) ==
    /\ pc[p] = "remove" /\ job[p].todo = {} /\ job[p].ver = 0
    /\ LET a == job[p].app
           names == {x.short : x \in {y \in apps : y.id = a}}
       IN  /\ apps' = {x \in apps : x.id # a}
           /\ vers' = {v \in vers : v.app # a}
           /\ udids' = {u \in udids : u.app # a}
           /\ job' = [q \in Procs |->
                        IF q = p THEN Blank
                        ELSE [job[q] EXCEPT !.astray = @ \/ job[q].short \in names]]
           /\ shown' = {b \in shown : b.app # a}
    /\ Goto(p, "idle")
    /\ UNCHANGED <<lastApp, icons, mode, mishaps, harm>>

(* The database refuses the deletion, and the answer says so. *)
DeleteAppFails(p) ==
    /\ pc[p] = "remove" /\ job[p].todo = {} /\ job[p].ver = 0
    /\ Mishap
    /\ Finish(p)
    /\ UNCHANGED <<tables, icons, mode, shown, harm>>

-----------------------------------------------------------------------------
(* UDIDs.  The form and the callback resolve the short id and then write   *)
(* the row of the app they found; the answer sends the browser to the page *)
(* of the short id, which says "recorded" for any app it finds there.      *)

UDIDSubmit(p, d, x) ==
    /\ Start(p)
    /\ Keep(p, [Blank EXCEPT !.short = x.short, !.app = x.id, !.dev = d])
    /\ Goto(p, "upsert")
    /\ UNCHANGED <<tables, icons, mode, mishaps, shown, harm>>

(* Any UDID with any short id is taken, whether or not a profile with it   *)
(* was handed out.  Without the app nothing is written, and the answer is  *)
(* the same.                                                               *)
UDIDCallback(p, d, s) ==
    /\ Start(p)
    /\ LET j == [Blank EXCEPT !.short = s, !.dev = d]
       IN  IF Taken(s)
           THEN /\ \E x \in apps : x.short = s /\ Keep(p, [j EXCEPT !.app = x.id])
                /\ Goto(p, "upsert")
           ELSE Keep(p, j) /\ Goto(p, "page")
    /\ UNCHANGED <<tables, icons, mode, mishaps, shown, harm>>

Row(p) == [app |-> job[p].app, dev |-> job[p].dev]

(* ON CONFLICT over the UDID alone *)
UpsertOneRow(p) == {u \in udids : u.dev # job[p].dev} \cup {Row(p)}

(* ON CONFLICT(app_id, udid): one row for a device of an app *)
Upsert(p) == udids \cup {Row(p)}

(* The reference to apps refuses the row of an app deleted since; that or  *)
(* any other error is ignored.                                             *)
UpsertUDID(p) ==
    /\ pc[p] = "upsert"
    /\ \/ /\ udids' = IF AppExists(job[p].app) THEN Upsert(p) ELSE udids
          /\ UNCHANGED <<job, mishaps>>
       \/ UNCHANGED udids /\ Keep(p, [job[p] EXCEPT !.astray = TRUE]) /\ Mishap
    /\ Goto(p, "page")
    /\ UNCHANGED <<apps, lastApp, vers, icons, mode, shown, harm>>

(* The page, or 404.  What it says is held against the server if the short *)
(* id is the one the request came with, and names the same app.            *)
ShowRecorded(p) ==
    /\ pc[p] = "page"
    /\ shown' = shown \cup {[dev |-> job[p].dev, app |-> x.id] :
                              x \in {y \in apps : y.short = job[p].short /\ ~job[p].astray}}
    /\ Finish(p)
    /\ UNCHANGED <<tables, icons, mode, mishaps, harm>>

(* The answer is lost, or the visitor does not follow it. *)
NotFollowed(p) ==
    /\ pc[p] = "page"
    /\ Finish(p)
    /\ UNCHANGED <<tables, icons, mode, mishaps, shown, harm>>

-----------------------------------------------------------------------------
(* Icons: the row, the file, then os.WriteFile over it, which truncates    *)
(* before it writes, and the file again for the answer.                    *)

IconRow(p, v) ==
    /\ Start(p)
    /\ Keep(p, [Blank EXCEPT !.ver = v.id])
    /\ Goto(p, "iconRead")
    /\ UNCHANGED <<tables, icons, mode, mishaps, shown, harm>>

(* Rewriting whatever was read, without asking whether it is CgBI *)
IconReadAlways(p) ==
    /\ pc[p] = "iconRead"
    /\ Keep(p, [job[p] EXCEPT !.data = Content(job[p].ver)])
    /\ Goto(p, IF Content(job[p].ver) = "none" THEN "iconServe" ELSE "iconOpen")
    /\ UNCHANGED <<tables, icons, mode, mishaps, shown, harm>>

(* Serving the icon as it is *)
IconReadNever(p) ==
    /\ pc[p] = "iconRead"
    /\ Keep(p, [job[p] EXCEPT !.data = Content(job[p].ver)])
    /\ Goto(p, "iconServe")
    /\ UNCHANGED <<tables, icons, mode, mishaps, shown, harm>>

IconRead(p) ==
    /\ pc[p] = "iconRead"
    /\ Keep(p, [job[p] EXCEPT !.data = Content(job[p].ver)])
    /\ LET data == Content(job[p].ver)
       IN  Goto(p, IF IsCgBI(data) /\ Converted(data) # data
                   THEN "iconOpen" ELSE "iconServe")
    /\ UNCHANGED <<tables, icons, mode, mishaps, shown, harm>>

IconOpen(p) ==
    /\ pc[p] = "iconOpen"
    /\ icons' = Put(icons, job[p].ver, "empty")
    /\ Keep(p, [job[p] EXCEPT !.fd = job[p].ver])
    /\ ghosts' = IF job[p].ver \in DOMAIN icons THEN ghosts ELSE ghosts \cup {job[p].ver}
    /\ Goto(p, "iconWrite")
    /\ UNCHANGED <<tables, mode, mishaps, shown, cut>>

IconWrite(p) ==
    /\ pc[p] = "iconWrite"
    /\ icons' = IF job[p].fd = 0 THEN icons ELSE Put(icons, job[p].fd, Converted(job[p].data))
    /\ cut' = cut \ {job[p].fd}
    /\ Keep(p, [job[p] EXCEPT !.fd = 0])
    /\ Goto(p, "iconServe")
    /\ UNCHANGED <<tables, mode, mishaps, shown, ghosts>>

(* Opening or writing fails, and the error is ignored. *)
IconFails(p) ==
    /\ pc[p] \in {"iconOpen", "iconWrite"}
    /\ Mishap
    /\ cut' = cut \cup ({job[p].fd, job[p].ver} \cap DOMAIN icons)
    /\ Keep(p, [job[p] EXCEPT !.fd = 0])
    /\ Goto(p, "iconServe")
    /\ UNCHANGED <<tables, icons, mode, shown, ghosts>>

(* http.ServeFile: whatever is there is cached for a day, or 404 *)
IconServe(p) ==
    /\ pc[p] = "iconServe"
    /\ Finish(p)
    /\ UNCHANGED <<tables, icons, mode, mishaps, shown, harm>>

-----------------------------------------------------------------------------
(* A kill, and the next start, which removes the files no row names; an    *)
(* error, which it ignores, may spare some of them or take others too.     *)

Crash ==
    /\ Mishap
    /\ mode = "serving"
    /\ mode' = "down"
    /\ cut' = cut \cup ({job[p].fd : p \in Procs} \ {0})
    /\ pc' = [p \in Procs |-> "idle"]
    /\ job' = [p \in Procs |-> Blank]
    /\ UNCHANGED <<tables, icons, shown, ghosts>>

Boot ==
    /\ mode = "down"
    /\ mode' = "serving"
    /\ \/ icons' = Restrict(icons, DOMAIN icons \cap Listed) /\ UNCHANGED mishaps
       \/ Mishap /\ \E kept \in SUBSET DOMAIN icons : icons' = Restrict(icons, kept)
    /\ cut' = cut \cap DOMAIN icons'
    /\ ghosts' = ghosts \cap DOMAIN icons'
    /\ UNCHANGED <<tables, pc, job, shown>>

-----------------------------------------------------------------------------
(* An app of a database from before icons were converted *)
Init ==
    /\ \E s \in ShortIDs : apps = {[id |-> 1, short |-> s]}
    /\ lastApp = 1
    /\ vers = {[id |-> i, app |-> 1] : i \in Icons}
    /\ icons \in [Icons -> {"apple", "odd"}]
    /\ udids = {}
    /\ mode = "down"
    /\ pc = [p \in Procs |-> "idle"]
    /\ job = [p \in Procs |-> Blank]
    /\ mishaps = 0
    /\ shown = {} /\ cut = {} /\ ghosts = {}

Step(p) ==
    \/ RemoveIcon(p) \/ DeleteVersionRow(p) \/ DeleteApp(p) \/ DeleteAppFails(p)
    \/ UpsertUDID(p) \/ ShowRecorded(p) \/ NotFollowed(p)
    \/ IconRead(p) \/ IconOpen(p) \/ IconWrite(p) \/ IconFails(p) \/ IconServe(p)

Request(p) ==
    \/ \E d \in Devices : \/ \E x \in apps : UDIDSubmit(p, d, x)
                         \/ \E s \in ShortIDs : UDIDCallback(p, d, s)
    \/ \E v \in vers : IconRow(p, v) \/ VersionDeleteBegin(p, v)
    \/ \E x \in apps : AppDeleteBegin(p, x)

Environment ==
    \/ \E s \in ShortIDs : CreateApp(s) \/ \E x \in apps : UpdateApp(x, s)
    \/ Crash \/ Boot

Next == (\E p \in Procs : Step(p) \/ Request(p)) \/ Environment

Spec == Init /\ [][Next]_vars

-----------------------------------------------------------------------------
(* Properties *)

Labels == {"idle", "remove", "upsert", "page", "iconRead", "iconOpen", "iconWrite", "iconServe"}
Contents == {"apple", "odd", "png", "empty"}

Job == [short : ShortIDs \cup {NoName}, app : 0 .. lastApp, dev : Devices \cup {NoName},
        astray : BOOLEAN, ver : Icons \cup {0},
        data : Contents \cup {"none"}, fd : Icons \cup {0}, todo : SUBSET Icons]

(* Every variable has its type; apps keep ids and short ids of their own.  *)
TypeOK ==
    /\ lastApp \in Nat
    /\ apps \subseteq [id : 1 .. lastApp, short : ShortIDs]
    /\ \A x, y \in apps : x.id = y.id \/ x.short = y.short => x = y
    /\ vers \subseteq [id : Icons, app : 1 .. lastApp]
    /\ icons \in [DOMAIN icons -> Contents] /\ DOMAIN icons \subseteq Icons
    /\ udids \subseteq [app : 1 .. lastApp, dev : Devices]
    /\ mode \in {"down", "serving"}
    /\ pc \in [Procs -> Labels]
    /\ job \in [Procs -> Job]
    /\ mishaps \in Nat
    /\ shown \subseteq [dev : Devices, app : 1 .. lastApp]
    /\ cut \subseteq Icons /\ ghosts \subseteq Icons

Designates(s, a) == [id |-> a, short |-> s] \in apps

HasRow(a, d) == \E u \in udids : u.app = a /\ u.dev = d

(* Until the short id in its address changes hands, a request designates   *)
(* the app it resolved to, and once it has written the row is there.       *)
Addressed ==
    \A p \in Procs :
        /\ pc[p] \in {"upsert", "page"} => job[p].dev \in Devices
        /\ pc[p] = "upsert" => job[p].app # 0
        /\ pc[p] \in {"upsert", "page"} /\ ~job[p].astray =>
             IF job[p].app = 0 THEN ~Taken(job[p].short)
             ELSE /\ Designates(job[p].short, job[p].app)
                  /\ pc[p] = "page" => HasRow(job[p].app, job[p].dev)

(* Who was told that the device is recorded finds it in the list of that   *)
(* app as long as the app is there, unless the short id changed hands      *)
(* before the page was shown or the database refused the row.              *)
BannerTruthful == \A b \in shown : HasRow(b.app, b.dev)

Rewriting(i) == \E p \in Procs : pc[p] = "iconWrite" /\ job[p].fd = i

(* Requests that rewrite an icon over each other leave it whole: it is     *)
(* empty only while one writes, or if a kill or an error cut one short.    *)
IconsIntact ==
    \A i \in DOMAIN icons : icons[i] = "empty" => i \in cut \/ Rewriting(i)

(* What is served, and cached for a day, is neither a truncated file nor   *)
(* one that the conversion would change, unless another request is         *)
(* rewriting it or was cut short.                                          *)
ServedRepaired ==
    \A p \in Procs : pc[p] = "iconServe" /\ job[p].ver \in DOMAIN icons =>
        \/ icons[job[p].ver] \in {"png", "odd"}
        \/ job[p].ver \in cut \/ Rewriting(job[p].ver)

(* Deleting a version or an app leaves no icon behind, except one that a   *)
(* rewriting opened again after it had been removed, and one that an error *)
(* of the listing or of the removal spared.                                *)
NoOrphanIcons == DOMAIN icons \subseteq Listed \cup ghosts

(* A deletion removes rows whose icons it has removed before. *)
Removing ==
    \A p \in Procs : pc[p] = "remove" => \A v \in vers :
        (IF job[p].ver = 0 THEN v.app = job[p].app ELSE v.id = job[p].ver) =>
            v.id \in job[p].todo \cup ghosts \/ v.id \notin DOMAIN icons

(* An open icon file is the one of the version, which was read as CgBI and *)
(* is not now: what is written over it, or after its removal, is not.      *)
Rewriters ==
    \A p \in Procs :
        /\ pc[p] # "idle" => mode = "serving"
        /\ pc[p] \in {"iconOpen", "iconWrite"} => job[p].data = "apple"
        /\ pc[p] \in {"iconRead", "iconOpen", "iconWrite"} => job[p].ver # 0
        /\ pc[p] = "iconWrite" => Content(job[p].ver) # "apple"
        /\ job[p].fd # 0 => /\ pc[p] = "iconWrite" /\ job[p].fd = job[p].ver
                            /\ job[p].fd \in DOMAIN icons

(* Preserved by every step *)
IInv ==
    /\ TypeOK /\ Addressed /\ Removing /\ Rewriters
    /\ BannerTruthful /\ IconsIntact /\ ServedRepaired /\ NoOrphanIcons

=============================================================================
