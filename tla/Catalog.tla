------------------------------ MODULE Catalog ------------------------------
(***************************************************************************)
(* The build catalogue of distsrv: the apps and versions tables, the       *)
(* package files under uploads/, and the requests that change them.        *)
(*                                                                         *)
(* Every request runs in a goroutine of its own.  The database pool holds  *)
(* one connection, so each SQL statement is atomic, but no handler opens a *)
(* transaction: a request is a sequence of separate steps, one for each    *)
(* statement or file operation, and the steps of the requests interleave.  *)
(* pc[p] is the next step of the request served by p and job[p] holds the  *)
(* Go locals it carries across steps.  A crash drops both; the tables and  *)
(* the files survive, and the server scans for orphans before it serves.   *)
(*                                                                         *)
(* A package file stands for the upload; the icon stored beside it is not  *)
(* part of this module, nor are passwords, accounts or download counters.  *)
(***************************************************************************)
EXTENDS Integers, FiniteSets, Functions

CONSTANTS
    Procs,        \* goroutines that may serve a request at the same time
    Platforms,    \* "ios" and "android"
    Builds,       \* packages clients upload: [plat, name, bundle, sha]
    NoBundle,     \* the empty string a new app has for a bundle id
    KeepN,        \* storage.keep_versions_per_platform
    MaxApps,      \* bound: apps ever created
    MaxVersions,  \* bound: versions ever inserted
    MaxClock,     \* bound: seconds the wall clock advances
    MaxCrashes,   \* bound: process kills
    MaxFaults     \* bound: storage or database errors the code ignores

(* Each package carries a platform, a file-safe version name, a non-empty  *)
(* bundle id and its bytes (sha).                                          *)
ASSUME BuildsAssumption ==
    /\ Builds # {}
    /\ \A b \in Builds : /\ b.plat \in Platforms
                         /\ b.bundle # NoBundle

ASSUME ProcsAssumption == IsFiniteSet(Procs)

ASSUME BoundsAssumption ==
    /\ KeepN \in Nat \ {0}
    /\ MaxApps \in Nat /\ MaxVersions \in Nat /\ MaxClock \in Nat
    /\ MaxCrashes \in Nat /\ MaxFaults \in Nat

VARIABLES
    apps,      \* table apps: rows [id, cur, bundle]
    versions,  \* table versions: rows [id, app, build, ts, at]
    lastApp,   \* AUTOINCREMENT counter of apps
    lastVid,   \* AUTOINCREMENT counter of versions
    files,     \* uploads/: package path -> bytes
    tmp,       \* uploads/.tmp: how many of its files each goroutine created
    clock,     \* wall clock, in seconds
    mode,      \* "down", "scan" (OrphanScan at start) or "serving"
    pc,        \* next step of each request, "idle" when there is none
    job,       \* locals of each request
    crashes, faults,   \* used up parts of the two budgets
    minted, reused,    \* history: stamps used, stamps used more than once
    torn,              \* history: ids whose deletion stopped halfway, or that
                       \* a scan with half a list took for deleted
    published,         \* history: every version inserted, [id, app, plat]
    unclean            \* history: a crash or fault since the last full scan

durable == <<apps, versions, lastApp, lastVid, files>>
history == <<minted, reused, torn, published, unclean>>
budget  == <<crashes, faults>>
vars == <<durable, tmp, clock, mode, pc, job, budget, history>>

-----------------------------------------------------------------------------
(* Data *)

Nobody == [id |-> 0, app |-> 0, build |-> CHOOSE b \in Builds : TRUE,
           ts |-> 0, at |-> 0]

(* The locals of a request: the app id it works on, the version row it     *)
(* read or is building, the current-version id it read, whether its app    *)
(* snapshot had no bundle id, the rows still to delete, and the ids whose  *)
(* file it removed while the row is still there.                           *)
Blank == [app |-> 0, row |-> Nobody, cur |-> 0, fresh |-> FALSE,
          todo |-> {}, gone |-> {}]

(* uploads/<app>/<platform>/<name>-<ts>.<ext>; the platform fixes the      *)
(* extension.                                                              *)
Path(r) == <<r.app, r.build.plat, r.build.name, r.ts>>

(* History: the upload a path is meant to identify *)
Stamp(r) == [app |-> r.app, plat |-> r.build.plat, name |-> r.build.name, ts |-> r.ts]

AppExists(a) == \E x \in apps : x.id = a

IsCurrent(r) == \E x \in apps : x.id = r.app /\ x.cur[r.build.plat] = r.id

Put(f, q, c) == [x \in DOMAIN f \cup {q} |-> IF x = q THEN c ELSE f[x]]
Drop(f, q) == Restrict(f, DOMAIN f \ {q})

(* Suffixes of a list ordered by uploaded_at, newest first, that are left  *)
(* when the n newest rows are kept.  Rows of the same second come in any   *)
(* order.                                                                  *)
AfterNewest(S, n) ==
    {D \in SUBSET S :
        /\ Cardinality(D) = IF Cardinality(S) <= n THEN 0 ELSE Cardinality(S) - n
        /\ \A d \in D, k \in S \ D : k.at >= d.at}

(* ListVersionsToPrune that forgets to skip the current version *)
ListVersionsToPruneAll(a, plat, cur) ==
    AfterNewest({r \in versions : r.app = a /\ r.build.plat = plat}, KeepN)

(* ListVersionsToPrune that keeps one row too many *)
ListVersionsToPruneOneMore(a, plat, cur) ==
    AfterNewest({r \in versions : /\ r.app = a /\ r.build.plat = plat
                                  /\ r.id # cur}, KeepN + 1)

ListVersionsToPrune(a, plat, cur) ==
    AfterNewest({r \in versions : /\ r.app = a /\ r.build.plat = plat
                                  /\ r.id # cur}, KeepN)

(* One column for both platforms *)
SetAppCurrentVersionBoth(a, v, plat) ==
    apps' = {IF x.id = a THEN [x EXCEPT !.cur = [q \in Platforms |-> v]] ELSE x : x \in apps}

(* Statements on the tables.  An UPDATE or DELETE that matches no row      *)
(* succeeds and changes nothing.                                           *)
SetAppCurrentVersion(a, v, plat) ==
    apps' = {IF x.id = a THEN [x EXCEPT !.cur[plat] = v] ELSE x : x \in apps}

SetAppBundleID(a, plat, b) ==
    apps' = {IF x.id = a THEN [x EXCEPT !.bundle[plat] = b] ELSE x : x \in apps}

DeleteVersion(v) == versions' = {r \in versions : r.id # v}

(* The row goes and, by ON DELETE CASCADE, every version of the app. *)
DeleteApp(a) ==
    /\ apps' = {x \in apps : x.id # a}
    /\ versions' = {r \in versions : r.app # a}

(* last_insert_rowid read before the INSERT *)
NextVidStale == lastVid

NextVid == lastVid + 1

-----------------------------------------------------------------------------
(* Control *)

Goto(p, l) == pc' = [pc EXCEPT ![p] = l]
Keep(p, j) == job' = [job EXCEPT ![p] = j]
Finish(p) == Goto(p, "idle") /\ Keep(p, Blank)

(* A storage or database error: the code goes on without it *)
Fault ==
    /\ faults < MaxFaults
    /\ faults' = faults + 1
    /\ unclean' = TRUE
NoFault == UNCHANGED <<faults, unclean>>

(* Requests served while the scan still runs *)
StartDuringScan(p) == mode # "down" /\ pc[p] = "idle"

Start(p) == mode = "serving" /\ pc[p] = "idle"

-----------------------------------------------------------------------------
(* App creation, and the upload handlers: every file part of the request   *)
(* goes through SaveUpload.                                                *)

AppCreate(p) ==
    /\ Start(p)
    /\ lastApp < MaxApps
    /\ lastApp' = lastApp + 1
    /\ apps' = apps \cup {[id |-> lastApp + 1,
                           cur |-> [q \in Platforms |-> 0],
                           bundle |-> [q \in Platforms |-> NoBundle]]}
    /\ UNCHANGED <<versions, lastVid, files, tmp, clock, mode, pc, job, budget, history>>

UploadBegin(p, a) ==
    /\ Start(p)
    /\ AppExists(a)
    /\ Goto(p, "parts")
    /\ Keep(p, [Blank EXCEPT !.app = a])
    /\ UNCHANGED <<durable, tmp, clock, mode, budget, history>>

(* The body ends, or a part is refused before anything is stored: wrong    *)
(* extension, disk low, app gone, read error.                              *)
UploadEnd(p) ==
    /\ pc[p] = "parts"
    /\ Finish(p)
    /\ UNCHANGED <<durable, tmp, clock, mode, budget, history>>

(* SaveUpload reads the app again and opens a temporary file, whose name   *)
(* os.CreateTemp makes unique.                                             *)
UploadPart(p, b) ==
    /\ pc[p] = "parts"
    /\ \E x \in apps :
        /\ x.id = job[p].app
        /\ Keep(p, [job[p] EXCEPT
                      !.row = [Nobody EXCEPT !.app = job[p].app, !.build = b],
                      !.fresh = (x.bundle[b.plat] = NoBundle)])
    /\ tmp' = [tmp EXCEPT ![p] = @ + 1]
    /\ Goto(p, "stream")
    /\ UNCHANGED <<durable, clock, mode, budget, history>>

(* UploadReject without the deferred removal of the temporary file *)
UploadRejectLeaky(p) ==
    /\ pc[p] = "stream"
    /\ Finish(p)
    /\ UNCHANGED <<durable, tmp, clock, mode, budget, history>>

(* Copying, parsing or moving the upload fails; so may the removal of its  *)
(* temporary file, and nobody is told.                                     *)
UploadReject(p) ==
    /\ pc[p] = "stream"
    /\ \/ tmp' = [tmp EXCEPT ![p] = @ - 1] /\ NoFault
       \/ UNCHANGED tmp /\ Fault
    /\ Finish(p)
    /\ UNCHANGED <<durable, clock, mode, crashes, minted, reused, torn, published>>

(* The path is stamped with the current second and the rename replaces     *)
(* whatever has that path.                                                 *)
UploadMove(p) ==
    LET r == [job[p].row EXCEPT !.ts = clock]
    IN  /\ pc[p] = "stream"
        /\ files' = Put(files, Path(r), r.build.sha)
        /\ minted' = minted \cup {Stamp(r)}
        /\ reused' = reused \cup ({Stamp(r)} \cap minted)
        /\ tmp' = [tmp EXCEPT ![p] = @ - 1]
        /\ Keep(p, [job[p] EXCEPT !.row = r])
        /\ Goto(p, "insert")
        /\ UNCHANGED <<apps, versions, lastApp, lastVid, clock, mode, budget, torn, published, unclean>>

(* The foreign keys hold and the row gets the next id. *)
UploadInsert(p) ==
    LET r == [job[p].row EXCEPT !.id = NextVid, !.at = clock]
    IN  /\ pc[p] = "insert"
        /\ AppExists(job[p].app)
        /\ lastVid < MaxVersions
        /\ versions' = versions \cup {r}
        /\ lastVid' = lastVid + 1
        /\ Keep(p, [job[p] EXCEPT !.row = r])
        /\ published' = published \cup {[id |-> r.id, app |-> r.app, plat |-> r.build.plat]}
        /\ Goto(p, "promote")
        /\ UNCHANGED <<apps, lastApp, files, tmp, clock, mode, budget,
                       minted, reused, torn, unclean>>

(* The INSERT fails: the app is gone, the uploader is gone, or the         *)
(* database refuses the statement.                                         *)
UploadInsertFails(p) ==
    /\ pc[p] = "insert"
    /\ Goto(p, "undo")
    /\ UNCHANGED <<durable, tmp, clock, mode, job, budget, history>>

(* An error of the INSERT that ends neither the part nor the request *)
UploadUndoGoesOn(p) ==
    /\ pc[p] = "undo"
    /\ files' = Drop(files, Path(job[p].row))
    /\ Goto(p, "parts") /\ Keep(p, [Blank EXCEPT !.app = job[p].app])
    /\ UNCHANGED <<apps, versions, lastApp, lastVid, tmp, clock, mode, budget, history>>

(* An INSERT that is tried again after its package was removed *)
UploadUndoRetries(p) ==
    /\ pc[p] = "undo"
    /\ files' = Drop(files, Path(job[p].row))
    /\ Goto(p, "insert")
    /\ UNCHANGED <<apps, versions, lastApp, lastVid, tmp, clock, mode, job, budget, history>>

(* A refused INSERT that leaves the moved file where it is *)
UploadUndoNothing(p) ==
    /\ pc[p] = "undo"
    /\ Finish(p)
    /\ UNCHANGED <<durable, tmp, clock, mode, budget, history>>

UploadUndo(p) ==
    /\ pc[p] = "undo"
    /\ \/ files' = Drop(files, Path(job[p].row)) /\ NoFault
       \/ UNCHANGED files /\ Fault
    /\ Finish(p)
    /\ UNCHANGED <<apps, versions, lastApp, lastVid, tmp, clock, mode, crashes, minted, reused, torn, published>>

UploadPromote(p) ==
    /\ pc[p] = "promote"
    /\ \/ SetAppCurrentVersion(job[p].app, job[p].row.id, job[p].row.build.plat) /\ NoFault
       \/ UNCHANGED apps /\ Fault
    /\ Goto(p, IF job[p].fresh THEN "bundle" ELSE "pruneRead")
    /\ UNCHANGED <<versions, lastApp, lastVid, files, tmp, clock, mode, job, crashes, minted, reused, torn, published>>

UploadBundle(p) ==
    /\ pc[p] = "bundle"
    /\ \/ SetAppBundleID(job[p].app, job[p].row.build.plat, job[p].row.build.bundle) /\ NoFault
       \/ UNCHANGED apps /\ Fault
    /\ Goto(p, "pruneRead")
    /\ UNCHANGED <<versions, lastApp, lastVid, files, tmp, clock, mode, job, crashes, minted, reused, torn, published>>

-----------------------------------------------------------------------------
(* pruneOldVersions, the tail of SaveUpload; the upload handler then goes  *)
(* on with the next part.                                                  *)

NextPart(p) == Goto(p, "parts") /\ Keep(p, [Blank EXCEPT !.app = job[p].app])

PruneRead(p) ==
    /\ pc[p] = "pruneRead"
    /\ \E x \in apps :
        /\ x.id = job[p].app
        /\ Keep(p, [job[p] EXCEPT !.cur = x.cur[job[p].row.build.plat]])
    /\ Goto(p, "pruneList")
    /\ UNCHANGED <<durable, tmp, clock, mode, budget, history>>

(* pruneOldVersions whose error is the upload's *)
PruneSkipFails(p) ==
    /\ pc[p] = "pruneRead" /\ ~AppExists(job[p].app)
    /\ Finish(p)
    /\ UNCHANGED <<durable, tmp, clock, mode, budget, history>>

(* The app is gone, or a query fails: the upload is still a success. *)
PruneSkip(p) ==
    /\ pc[p] \in {"pruneRead", "pruneList"}
    /\ \/ pc[p] = "pruneRead" /\ ~AppExists(job[p].app) /\ NoFault
       \/ Fault
    /\ NextPart(p)
    /\ UNCHANGED <<durable, tmp, clock, mode, crashes, minted, reused, torn, published>>

PruneList(p) ==
    /\ pc[p] = "pruneList"
    /\ \E D \in ListVersionsToPrune(job[p].app, job[p].row.build.plat, job[p].cur) :
        IF D = {} THEN NextPart(p)
                  ELSE Goto(p, "prune") /\ Keep(p, [job[p] EXCEPT !.todo = D])
    /\ UNCHANGED <<durable, tmp, clock, mode, budget, history>>

(* DeleteVersionFiles on the next row of a list of rows, newest first.     *)
(* The version is then half gone until its row is deleted too.             *)
RemoveFileOf(p, r, rest) ==
    /\ \A x \in rest : r.at >= x.at
    /\ \/ files' = Drop(files, Path(r)) /\ NoFault
       \/ UNCHANGED files /\ Fault
    /\ Keep(p, [job[p] EXCEPT !.row = r, !.todo = rest,
                              !.gone = job[p].gone \cup {r.id}])

PruneFiles(p) ==
    /\ pc[p] = "prune"
    /\ \E r \in job[p].todo : RemoveFileOf(p, r, job[p].todo \ {r})
    /\ Goto(p, "pruneRow")
    /\ UNCHANGED <<apps, versions, lastApp, lastVid, tmp, clock, mode, crashes, minted, reused, torn, published>>

PruneRow(p) ==
    /\ pc[p] = "pruneRow"
    /\ \/ DeleteVersion(job[p].row.id) /\ NoFault /\ UNCHANGED torn
       \/ UNCHANGED versions /\ Fault /\ torn' = torn \cup job[p].gone
    /\ IF job[p].todo = {} THEN NextPart(p)
                           ELSE Goto(p, "prune") /\ Keep(p, [job[p] EXCEPT !.gone = {}])
    /\ UNCHANGED <<apps, lastApp, lastVid, files, tmp, clock, mode, crashes, minted, reused, published>>

-----------------------------------------------------------------------------
(* Deleting one version *)

DeleteBegin(p, r) ==
    /\ Start(p)
    /\ Keep(p, [Blank EXCEPT !.app = r.app, !.row = r])
    /\ Goto(p, "delApp")
    /\ UNCHANGED <<durable, tmp, clock, mode, budget, history>>

(* handleAdminVersionDelete that never looks at the pointer *)
DeleteReadAppNoClear(p) ==
    /\ pc[p] = "delApp"
    /\ IF AppExists(job[p].app) THEN Goto(p, "delFiles") /\ UNCHANGED job
                                ELSE Finish(p)
    /\ UNCHANGED <<durable, tmp, clock, mode, budget, history>>

DeleteReadApp(p) ==
    /\ pc[p] = "delApp"
    /\ \/ /\ \E x \in apps :
                /\ x.id = job[p].app
                /\ Goto(p, IF x.cur[job[p].row.build.plat] = job[p].row.id
                           THEN "clear" ELSE "delFiles")
          /\ UNCHANGED job
       \/ ~AppExists(job[p].app) /\ Finish(p)
    /\ UNCHANGED <<durable, tmp, clock, mode, budget, history>>

DeleteClear(p) ==
    /\ pc[p] = "clear"
    /\ \/ SetAppCurrentVersion(job[p].app, 0, job[p].row.build.plat) /\ NoFault
       \/ UNCHANGED apps /\ Fault
    /\ Goto(p, "delFiles")
    /\ UNCHANGED <<versions, lastApp, lastVid, files, tmp, clock, mode, job, crashes, minted, reused, torn, published>>

DeleteFiles(p) ==
    /\ pc[p] = "delFiles"
    /\ RemoveFileOf(p, job[p].row, {})
    /\ Goto(p, "delRow")
    /\ UNCHANGED <<apps, versions, lastApp, lastVid, tmp, clock, mode, crashes, minted, reused, torn, published>>

DeleteRow(p) ==
    /\ pc[p] = "delRow"
    /\ \/ DeleteVersion(job[p].row.id) /\ NoFault /\ UNCHANGED torn
       \/ UNCHANGED versions /\ Fault /\ torn' = torn \cup job[p].gone
    /\ Finish(p)
    /\ UNCHANGED <<apps, lastApp, lastVid, files, tmp, clock, mode, crashes, minted, reused, published>>

-----------------------------------------------------------------------------
(* Pinning a version, deleting an app, downloading a version *)

PinBegin(p, r) ==
    /\ Start(p)
    /\ Keep(p, [Blank EXCEPT !.app = r.app, !.row = r])
    /\ Goto(p, "pin")
    /\ UNCHANGED <<durable, tmp, clock, mode, budget, history>>

PinWrite(p) ==
    /\ pc[p] = "pin"
    /\ SetAppCurrentVersion(job[p].app, job[p].row.id, job[p].row.build.plat)
    /\ Finish(p)
    /\ UNCHANGED <<versions, lastApp, lastVid, files, tmp, clock, mode, budget, history>>

(* Deleting the app without listing its versions *)
AppDeleteListNothing(p, a) ==
    /\ Start(p)
    /\ AppExists(a)
    /\ Keep(p, [Blank EXCEPT !.app = a])
    /\ Goto(p, "appFiles")
    /\ UNCHANGED <<durable, tmp, clock, mode, budget, history>>

(* The rows are listed; the error of a query that fails on the way is      *)
(* ignored, and the rows read so far pass for the list.                    *)
AppDeleteList(p, a) ==
    /\ Start(p)
    /\ AppExists(a)
    /\ \E D \in SUBSET {r \in versions : r.app = a} :
        /\ Keep(p, [Blank EXCEPT !.app = a, !.todo = D])
        /\ \/ D = {r \in versions : r.app = a} /\ NoFault
           \/ Fault
    /\ Goto(p, "appFiles")
    /\ UNCHANGED <<durable, tmp, clock, mode, crashes, minted, reused, torn, published>>

(* A list of versions that does not advance *)
AppDeleteFilesStuck(p) ==
    /\ pc[p] = "appFiles"
    /\ \E r \in job[p].todo : RemoveFileOf(p, r, job[p].todo)
    /\ UNCHANGED <<apps, versions, lastApp, lastVid, tmp, clock, mode, pc, crashes, minted, reused, torn, published>>

AppDeleteFiles(p) ==
    /\ pc[p] = "appFiles"
    /\ \E r \in job[p].todo : RemoveFileOf(p, r, job[p].todo \ {r})
    /\ UNCHANGED <<apps, versions, lastApp, lastVid, tmp, clock, mode, pc, crashes, minted, reused, torn, published>>

AppDeleteRow(p) ==
    /\ pc[p] = "appFiles"
    /\ job[p].todo = {}
    /\ \/ DeleteApp(job[p].app) /\ NoFault /\ UNCHANGED torn
       \/ UNCHANGED <<apps, versions>> /\ Fault /\ torn' = torn \cup job[p].gone
    /\ Finish(p)
    /\ UNCHANGED <<lastApp, lastVid, files, tmp, clock, mode, crashes, minted, reused, published>>

DownloadRead(p, r) ==
    /\ Start(p)
    /\ AppExists(r.app)
    /\ Keep(p, [Blank EXCEPT !.app = r.app, !.row = r])
    /\ Goto(p, "open")
    /\ UNCHANGED <<durable, tmp, clock, mode, budget, history>>

(* The file is opened and served, or the answer is 410 Gone. *)
DownloadOpen(p) ==
    /\ pc[p] = "open"
    /\ Finish(p)
    /\ UNCHANGED <<durable, tmp, clock, mode, budget, history>>

-----------------------------------------------------------------------------
(* Time, process kills and the start of the server *)

Tick ==
    /\ clock < MaxClock
    /\ clock' = clock + 1
    /\ UNCHANGED <<durable, tmp, mode, pc, job, budget, history>>

(* A kill, or the end of the ten seconds a graceful shutdown waits *)
Crash ==
    /\ crashes < MaxCrashes
    /\ crashes' = crashes + 1
    /\ mode # "down"
    /\ mode' = "down"
    /\ pc' = [p \in Procs |-> "idle"]
    /\ job' = [p \in Procs |-> Blank]
    /\ torn' = torn \cup UNION {job[p].gone : p \in Procs}
    /\ unclean' = TRUE
    /\ UNCHANGED <<durable, tmp, clock, faults, minted, reused, published>>

Boot ==
    /\ mode = "down"
    /\ mode' = "scan"
    /\ UNCHANGED <<durable, tmp, clock, pc, job, budget, history>>

Known == {Path(r) : r \in versions}

(* OrphanScan removes a file no row refers to; .tmp is skipped. *)
OrphanRemove(q) ==
    /\ mode = "scan"
    /\ q \notin Known
    /\ files' = Drop(files, q)
    /\ UNCHANGED <<apps, versions, lastApp, lastVid, tmp, clock, mode, pc, job, budget, history>>

(* The query for the rows ends early and rows.Err is never asked: packages *)
(* of rows that were not read are taken for orphans too.                   *)
ScanCutShort(D) ==
    /\ mode = "scan"
    /\ D # {}
    /\ files' = Restrict(files, DOMAIN files \ D)
    /\ torn' = torn \cup {r.id : r \in {v \in versions : Path(v) \in D}}
    /\ Fault
    /\ UNCHANGED <<apps, versions, lastApp, lastVid, tmp, clock, mode, pc, job, crashes,
                   minted, reused, published>>

(* The walk is over: it has removed every orphan, or failed on some. *)
OrphanScanEnd ==
    /\ mode = "scan"
    /\ \/ DOMAIN files \subseteq Known /\ unclean' = FALSE /\ UNCHANGED faults
       \/ ~(DOMAIN files \subseteq Known) /\ Fault
    /\ mode' = "serving"
    /\ UNCHANGED <<durable, tmp, clock, pc, job, crashes, minted, reused, torn, published>>

-----------------------------------------------------------------------------
Init ==
    /\ apps = {} /\ versions = {} /\ lastApp = 0 /\ lastVid = 0
    /\ files = [q \in {} |-> 0]
    /\ tmp = [p \in Procs |-> 0] /\ clock = 0 /\ mode = "down"
    /\ pc = [p \in Procs |-> "idle"]
    /\ job = [p \in Procs |-> Blank]
    /\ crashes = 0 /\ faults = 0
    /\ minted = {} /\ reused = {} /\ torn = {} /\ published = {} /\ unclean = FALSE

(* The steps a request takes on its own once it has begun *)
Step(p) ==
    \/ UploadEnd(p) \/ (\E b \in Builds : UploadPart(p, b))
    \/ UploadReject(p) \/ UploadMove(p)
    \/ UploadInsert(p) \/ UploadInsertFails(p) \/ UploadUndo(p)
    \/ UploadPromote(p) \/ UploadBundle(p)
    \/ PruneRead(p) \/ PruneSkip(p) \/ PruneList(p) \/ PruneFiles(p) \/ PruneRow(p)
    \/ DeleteReadApp(p) \/ DeleteClear(p) \/ DeleteFiles(p) \/ DeleteRow(p)
    \/ PinWrite(p)
    \/ AppDeleteFiles(p) \/ AppDeleteRow(p)
    \/ DownloadOpen(p)

Request(p) ==
    \/ AppCreate(p)
    \/ \E x \in apps : UploadBegin(p, x.id) \/ AppDeleteList(p, x.id)
    \/ \E r \in versions : DeleteBegin(p, r) \/ PinBegin(p, r) \/ DownloadRead(p, r)

Environment ==
    \/ Tick \/ Crash \/ Boot \/ OrphanScanEnd
    \/ \E q \in DOMAIN files : OrphanRemove(q)
    \/ \E D \in SUBSET (Known \cap DOMAIN files) : ScanCutShort(D)

Next == (\E p \in Procs : Step(p) \/ Request(p)) \/ Environment

Spec == Init /\ [][Next]_vars

(* Goroutines are scheduled fairly, a client that stops sending is cut off *)
(* by ReadTimeout, and the service manager restarts the process.           *)
FairSpec ==
    /\ Spec
    /\ \A p \in Procs : WF_vars(Step(p))
    /\ WF_vars(Boot) /\ WF_vars(OrphanScanEnd \/ \E q \in DOMAIN files : OrphanRemove(q))

-----------------------------------------------------------------------------
(* Properties *)

(* Rows of the tables, rows as a request may hold them, and its locals *)
App == [id : 1 .. lastApp, cur : [Platforms -> 0 .. lastVid],
        bundle : [Platforms -> {b.bundle : b \in Builds} \cup {NoBundle}]]
Listable == [id : 1 .. lastVid, app : 1 .. lastApp, build : Builds, ts : Nat, at : Nat]
Row == [id : 0 .. lastVid, app : 0 .. lastApp, build : Builds, ts : Nat, at : Nat]
Job == [app : 0 .. lastApp, row : Row, cur : 0 .. lastVid, fresh : BOOLEAN,
        todo : SUBSET Listable, gone : SUBSET (1 .. lastVid)]

Labels == {"idle", "parts", "stream", "insert", "undo", "promote", "bundle",
           "pruneRead", "pruneList", "prune", "pruneRow",
           "delApp", "clear", "delFiles", "delRow", "pin", "appFiles", "open"}

(* Every variable has its type: ids that rows, pointers and requests hold  *)
(* were given out by the counters, and each request is at a step it has.   *)
TypeOK ==
    /\ lastApp \in Nat /\ lastVid \in Nat
    /\ apps \subseteq App
    /\ versions \subseteq Listable
    /\ \A q \in DOMAIN files : files[q] \in {b.sha : b \in Builds}
    /\ tmp \in [Procs -> Int] /\ clock \in Nat
    /\ mode \in {"down", "scan", "serving"}
    /\ pc \in [Procs -> Labels]
    /\ job \in [Procs -> Job]
    /\ crashes \in Nat /\ faults \in Nat
    /\ published \subseteq [id : 1 .. lastVid, app : 1 .. lastApp, plat : Platforms]
    /\ torn \subseteq 1 .. lastVid /\ unclean \in BOOLEAN

(* A current-version pointer that designates a listed version designates   *)
(* one of its own app and platform, although the column has no foreign key *)
(* and is written from ids read several statements earlier.                *)
CurrentNeverAliases ==
    \A x \in apps, q \in Platforms, r \in versions :
        x.cur[q] = r.id => r.app = x.id /\ r.build.plat = q

(* What makes the two above hold: a request that carries a row across      *)
(* statements carries one of the app it works on, and from the INSERT on   *)
(* one that was published under its id.                                    *)
Sent(r) == [id |-> r.id, app |-> r.app, plat |-> r.build.plat]

Receiving == {"stream", "insert", "undo"}
Handling == {"promote", "bundle", "pruneRead", "pruneList", "delApp", "clear",
             "delFiles", "delRow", "pin", "open"}

CarriesRow(p) ==
    /\ pc[p] \in Receiving \cup Handling => job[p].row.app = job[p].app
    /\ pc[p] \in Handling => Sent(job[p].row) \in published

Carried == \A p \in Procs : CarriesRow(p)

(* Ids are published once; rows and pointers designate what was published. *)
Anchored ==
    /\ \A v, w \in published : v.id = w.id => v = w
    /\ \A r \in versions : Sent(r) \in published
    /\ \A x \in apps, q \in Platforms :
         x.cur[q] # 0 => [id |-> x.cur[q], app |-> x.id, plat |-> q] \in published

(* Together with the types they are preserved by every step, which is how  *)
(* ids stay unique, pointers never alias and Shelf is implemented.         *)
IInv == TypeOK /\ Carried /\ Anchored

(* The catalogue implements Shelf: ids are published once and never come   *)
(* back, and a pointer, resolved or left behind, was only ever set to a    *)
(* version published for its own app and platform.                         *)
Pointers ==
    {[app |-> x.id, plat |-> q, id |-> x.cur[q]] : x \in apps, q \in Platforms}

Listed == {r.id : r \in versions}
Current == {c \in Pointers : c.id # 0}

S == INSTANCE Shelf WITH listed <- Listed, current <- Current

ImplementsShelf == S!Spec

(* Every listed version has its package on disk, with the bytes that were  *)
(* uploaded for it, unless its deletion is under way or was cut short, or  *)
(* two uploads of one version name were stamped in the same second.        *)
FilesBacked ==
    \A r \in versions :
        \/ Stamp(r) \in reused
        \/ r.id \in torn \cup UNION {job[p].gone : p \in Procs}
        \/ Path(r) \in DOMAIN files /\ files[Path(r)] = r.build.sha

(* A download that read its version before others deleted and replaced     *)
(* builds never serves the bytes of another build.                         *)
DownloadsServeOwnBytes ==
    \A p \in Procs :
        /\ pc[p] = "open"
        /\ Stamp(job[p].row) \notin reused
        /\ Path(job[p].row) \in DOMAIN files
        => files[Path(job[p].row)] = job[p].row.build.sha

(* While nothing has failed since the last complete scan, a file that no   *)
(* row refers to belongs to an upload in flight or to a deleted app: the   *)
(* undo of a refused INSERT, pruning and both deletions leave none behind. *)
NoOrphans ==
    unclean \/ \A q \in DOMAIN files :
        \/ q \in Known
        \/ \E p \in Procs : pc[p] \in {"insert", "undo"} /\ q = Path(job[p].row)
        \/ ~AppExists(q[1])

(* One request at a time, a file that no row refers to is one a request in *)
(* flight has yet to insert or remove: deleting an app leaves none either. *)
FilesAreListed ==
    unclean \/ \A q \in DOMAIN files :
        \/ q \in Known
        \/ \E p \in Procs : pc[p] \in {"insert", "undo"} /\ q = Path(job[p].row)

(* A goroutine has one temporary file for the upload it is receiving, and  *)
(* what is in uploads/.tmp beyond that was left by a kill or by a removal  *)
(* that failed, one file for each.                                         *)
Receives(p) == IF pc[p] = "stream" THEN 1 ELSE 0

TempFilesOwned ==
    \A p \in Procs : tmp[p] \in Receives(p) .. Receives(p) + crashes + faults

(* What the properties of files rest on.  Rows are those of the table and  *)
(* those a request still holds; a row that is held may be gone from the    *)
(* table, or its app with it.  Moved are the labels of an upload whose     *)
(* package is at its path and has no row yet.                              *)
Moved == {"insert", "undo"}
HeldBy(p) ==
    job[p].todo \cup {r \in {job[p].row} : pc[p] \in Handling \cup {"pruneRow"}}
Rows == versions \cup UNION {HeldBy(p) : p \in Procs}
Gone == UNION {job[p].gone : p \in Procs}
Has(r) == Path(r) \in DOMAIN files /\ files[Path(r)] = r.build.sha

(* A stamp used once is of one row, or of one upload that has no row yet.  *)
OneOwner ==
    /\ Rows \subseteq Listable
    /\ \A r, s \in Rows : r.id = s.id => r = s
    /\ \A r \in Rows : Stamp(r) \in minted
    /\ \A r, s \in Rows : Stamp(r) = Stamp(s) => r = s \/ Stamp(r) \in reused
    /\ \A p \in Procs : pc[p] \in Moved =>
        LET t == Stamp(job[p].row)
        IN  /\ t \in minted
            /\ \A r \in Rows : Stamp(r) = t => t \in reused
            /\ \A q \in Procs \ {p} :
                 pc[q] \in Moved /\ Stamp(job[q].row) = t => t \in reused

(* What is at the path of such a row is its own; an upload that is about   *)
(* to insert its row has its package there.                                *)
OwnBytes ==
    /\ \A r \in Rows : Stamp(r) \in reused \/ Path(r) \notin DOMAIN files \/ Has(r)
    /\ \A p \in Procs :
         pc[p] = "insert" => Stamp(job[p].row) \in reused \/ Has(job[p].row)

(* Between the removal of a file and that of its row, a request remembers  *)
(* the ids; they are those of the row or the app it is about to delete.    *)
Deleting == {"pruneRow", "delRow", "appFiles"}
GoneAtDeletion ==
    \A p \in Procs :
        /\ pc[p] \notin Deleting => job[p].gone = {}
        /\ pc[p] \in {"pruneRow", "delRow"} => job[p].gone = {job[p].row.id}
        /\ pc[p] = "appFiles" =>
             \A r \in Rows : r \in job[p].todo \/ r.id \in job[p].gone => r.app = job[p].app

(* NoOrphans, where a row whose file has been removed accounts for none    *)
Accounted ==
    /\ unclean \/ \A q \in DOMAIN files :
         \/ \E r \in versions : q = Path(r) /\ r.id \notin Gone
         \/ \E p \in Procs : pc[p] \in Moved /\ q = Path(job[p].row)
         \/ ~AppExists(q[1])
    /\ \A q \in DOMAIN files : q[1] \in 0 .. lastApp

(* Only a serving process has requests. *)
BusyServes == \A p \in Procs : pc[p] # "idle" => mode = "serving"

(* Every step keeps these together with IInv. *)
FilesIInv ==
    /\ IInv /\ OneOwner /\ OwnBytes /\ GoneAtDeletion /\ Accounted /\ BusyServes
    /\ FilesBacked /\ TempFilesOwned

(* The keys of the tables: app ids are unique, every version has its app.  *)
AppsOnce == \A x, y \in apps : x.id = y.id => x = y
ForeignKey == \A r \in versions : AppExists(r.app)

PruneLabels == {"prune", "pruneRow"}
Pruners == {p \in Procs : pc[p] \in PruneLabels}
(* The rows a request that prunes has still to delete *)
Left(p) == job[p].todo \cup {r \in {job[p].row} : pc[p] = "pruneRow"}

RowsOf(a, q) == {r \in versions : r.app = a /\ r.build.plat = q}
(* Those that no request of the set done has still to delete *)
Kept(a, q, done) == RowsOf(a, q) \ UNION {Left(p) : p \in done}
Unpruned(a, q) ==
    {p \in Procs : /\ pc[p] \in {"promote", "bundle", "pruneRead", "pruneList"}
                   /\ job[p].app = a /\ job[p].row.build.plat = q}

(* An app keeps at most KeepN builds of a platform and the current one,    *)
(* beyond those a running upload has still to prune and one for every      *)
(* upload that a kill or an ignored error kept from pruning.  That is one  *)
(* more than config.example.toml:47 says, and what the comment at          *)
(* storage.go:196 and the query of queries.go:366 mean.                    *)
RetentionBound ==
    \A x \in apps, q \in Platforms :
        Cardinality(Kept(x.id, q, Pruners))
            <= KeepN + 1 + Cardinality(Unpruned(x.id, q))
                 + crashes * Cardinality(Procs) + faults

(* README.md:18 and config.example.toml:47 say that the number of builds   *)
(* of a platform that is configured is kept, and the oldest beyond them    *)
(* deleted.  They are counted while no request runs and after nothing has  *)
(* failed.                                                                 *)
KeepsConfiguredNumber ==
    crashes = 0 /\ faults = 0 /\ (\A p \in Procs : pc[p] = "idle") =>
        \A x \in apps, q \in Platforms : Cardinality(RowsOf(x.id, q)) <= KeepN

(* What RetentionBound rests on: whichever of the pruning requests still   *)
(* deletes what it has left, every other upload that inserted its row and  *)
(* is not done accounts for one.                                           *)
Publishing(a, q) ==
    {p \in Procs : /\ pc[p] \in {"promote", "bundle", "pruneRead", "pruneList"} \cup PruneLabels
                   /\ job[p].app = a /\ job[p].row.build.plat = q}
Allowance == KeepN + 1 + crashes * Cardinality(Procs) + faults

Retained(a, q, done) ==
    Cardinality(Kept(a, q, done)) <= Allowance + Cardinality(Publishing(a, q) \ done)

PrunesOwn(p) ==
    pc[p] \in PruneLabels =>
        \A r \in job[p].todo : r.app = job[p].app /\ r.build.plat = job[p].row.build.plat

(* Preserved by every step, whatever overlaps *)
RetentionIInv ==
    /\ FilesIInv /\ ForeignKey
    /\ IsFiniteSet(versions)
    /\ \A p \in Procs : PrunesOwn(p)
    /\ \A a \in 1 .. lastApp, q \in Platforms : \A done \in SUBSET Pruners : Retained(a, q, done)

(* No pointer is left behind by a deletion: the current version, when set, *)
(* is a listed one (handleAdminVersionDelete clears it first), unless an   *)
(* error was ignored.                                                      *)
NoDanglingCurrent ==
    faults = 0 =>
        \A x \in apps, q \in Platforms :
            x.cur[q] # 0 => \E r \in versions : r.id = x.cur[q]

(* Pruning never deletes the version that is current when it is deleted.   *)
NeverPrunesCurrent ==
    [][\A p \in Procs :
         pc[p] = "pruneRow" /\ pc'[p] # "pruneRow" /\ versions' # versions
            => ~IsCurrent(job[p].row)]_vars

(* What FilesAreListed and the last two rest on while requests do not      *)
(* overlap: what a request read or checked in an earlier statement still   *)
(* holds when it acts on it.                                               *)
StillTrue(p) ==
    LET j == job[p]
        plat == j.row.build.plat
        app == {x \in apps : x.id = j.app}
    IN  /\ pc[p] = "stream" => app # {}
        /\ pc[p] \in {"promote", "pin"} => j.row \in versions
        /\ pc[p] \in {"pruneList", "prune", "pruneRow"} => \A x \in app : x.cur[plat] = j.cur
        /\ pc[p] \in {"prune", "pruneRow"} =>
             \A r \in j.todo : r.app = j.app /\ r.build.plat = plat /\ r.id # j.cur
        /\ pc[p] = "pruneRow" => j.row.app = j.app /\ j.row.id # j.cur
        /\ pc[p] = "clear" => IsCurrent(j.row)
        /\ pc[p] \in {"delFiles", "delRow"} => faults # 0 \/ ~IsCurrent(j.row)
        /\ pc[p] = "appFiles" =>
             \/ unclean
             \/ \A r \in versions : r.app = j.app => r \in j.todo \/ r.id \in j.gone

FilesHaveApps == unclean \/ \A q \in DOMAIN files : AppExists(q[1])

(* Preserved by every step when there is one request at a time *)
SerialIInv ==
    /\ FilesIInv /\ AppsOnce /\ ForeignKey
    /\ \A p \in Procs : StillTrue(p)
    /\ NoDanglingCurrent /\ FilesHaveApps

(* Every request ends, whatever the others do and however often the server *)
(* is killed: each goroutine is free again and again.                      *)
RequestsFinish == \A p \in Procs : []<>(pc[p] = "idle")

=============================================================================
