------------------------ MODULE CatalogPolicyProofs ------------------------
(* Theorems about what Catalog keeps and lets go, for every value of its   *)
(* constants: first what holds as long as requests do not overlap, then    *)
(* the bound on the versions an app keeps, whatever overlaps.              *)
EXTENDS CatalogProofs, FiniteSetTheorems

(* One request at a time *)
OneAtATime == \A p, q \in Procs : p = q

-----------------------------------------------------------------------------
(* The tables *)

(* What a request does to the apps *)
Writes(p) ==
    \/ UploadPromote(p) /\ SetAppCurrentVersion(job[p].app, job[p].row.id, job[p].row.build.plat)
    \/ DeleteClear(p) /\ SetAppCurrentVersion(job[p].app, 0, job[p].row.build.plat)
    \/ PinWrite(p) /\ SetAppCurrentVersion(job[p].app, job[p].row.id, job[p].row.build.plat)
    \/ UploadBundle(p) /\ SetAppBundleID(job[p].app, job[p].row.build.plat,
                                         job[p].row.build.bundle)
    \/ AppDeleteRow(p) /\ DeleteApp(job[p].app)
    \/ AppCreate(p)

(* Every other step leaves the table of apps as it is. *)
LEMMA StepApps ==
    ASSUME NEW p \in Procs, Step(p) \/ Request(p)
    PROVE  UNCHANGED apps \/ Writes(p)
<1> USE DEF durable
<1>1. CASE Step(p)
  <2>1. CASE UploadPromote(p) \/ DeleteClear(p) \/ PinWrite(p)
    BY <2>1 DEF Writes, UploadPromote, DeleteClear, PinWrite
  <2>2. CASE UploadBundle(p) \/ AppDeleteRow(p)
    BY <2>2 DEF Writes, UploadBundle, AppDeleteRow
  <2>3. ASSUME ~(\/ UploadPromote(p) \/ DeleteClear(p) \/ PinWrite(p) \/ UploadBundle(p)
                 \/ AppDeleteRow(p))
        PROVE  UNCHANGED apps
    BY <1>1, <2>3 DEF Step, UploadEnd, UploadPart, UploadReject, UploadMove, UploadInsert,
       UploadInsertFails, UploadUndo, PruneRead, PruneSkip, PruneList, PruneFiles, PruneRow,
       DeleteReadApp, DeleteFiles, DeleteRow, AppDeleteFiles, DownloadOpen
  <2>4. QED
    BY <2>1, <2>2, <2>3
<1>2. CASE Request(p)
  BY <1>2 DEF Writes, Request, AppCreate, UploadBegin, AppDeleteList, DeleteBegin, PinBegin,
     DownloadRead
<1>3. QED
  BY <1>1, <1>2

(* What UPDATE apps SET current_... does to an app *)
LEMMA SetCurrentIs ==
    ASSUME TypeOK, NEW a, NEW v, NEW plat, SetAppCurrentVersion(a, v, plat)
    PROVE  /\ \A y \in apps' : \E x \in apps :
                /\ y.id = x.id /\ y.bundle = x.bundle
                /\ x.id # a => y = x
                /\ \A q \in Platforms : y.cur[q] = IF x.id = a /\ q = plat THEN v ELSE x.cur[q]
           /\ \A x \in apps : \E y \in apps' : y.id = x.id
           /\ AppsOnce => AppsOnce'
<1> DEFINE f(x) == IF x.id = a THEN [x EXCEPT !.cur[plat] = v] ELSE x
<1>1. apps' = {f(x) : x \in apps}
  BY DEF SetAppCurrentVersion
<1>2. ASSUME NEW x \in apps
      PROVE  /\ f(x).id = x.id /\ f(x).bundle = x.bundle
             /\ x.id # a => f(x) = x
             /\ \A q \in Platforms : f(x).cur[q] = IF x.id = a /\ q = plat THEN v ELSE x.cur[q]
  <2>1. x \in App
    BY DEF TypeOK
  <2>2. QED
    BY <2>1 DEF App
<1> HIDE DEF f
<1>3. AppsOnce => AppsOnce'
  <2> SUFFICES ASSUME AppsOnce, NEW x \in apps, NEW y \in apps, f(x).id = f(y).id
               PROVE  f(x) = f(y)
    BY <1>1 DEF AppsOnce
  <2>1. x = y
    BY <1>2 DEF AppsOnce
  <2>2. QED
    BY <2>1
<1>4. QED
  BY <1>1, <1>2, <1>3

(* What UPDATE apps SET bundle_id... does *)
LEMMA SetBundleIs ==
    ASSUME TypeOK, NEW a, NEW plat, NEW b, SetAppBundleID(a, plat, b)
    PROVE  /\ \A y \in apps' : \E x \in apps :
                /\ y.id = x.id /\ y.cur = x.cur
                /\ \A q \in Platforms :
                     y.bundle[q] = IF x.id = a /\ q = plat THEN b ELSE x.bundle[q]
           /\ \A x \in apps : \E y \in apps' : y.id = x.id
           /\ AppsOnce => AppsOnce'
<1> DEFINE f(x) == IF x.id = a THEN [x EXCEPT !.bundle[plat] = b] ELSE x
<1>1. apps' = {f(x) : x \in apps}
  BY DEF SetAppBundleID
<1>2. ASSUME NEW x \in apps
      PROVE  /\ f(x).id = x.id /\ f(x).cur = x.cur
             /\ \A q \in Platforms :
                  f(x).bundle[q] = IF x.id = a /\ q = plat THEN b ELSE x.bundle[q]
  <2>1. x \in App
    BY DEF TypeOK
  <2>2. QED
    BY <2>1 DEF App
<1> HIDE DEF f
<1>3. AppsOnce => AppsOnce'
  <2> SUFFICES ASSUME AppsOnce, NEW x \in apps, NEW y \in apps, f(x).id = f(y).id
               PROVE  f(x) = f(y)
    BY <1>1 DEF AppsOnce
  <2>1. x = y
    BY <1>2 DEF AppsOnce
  <2>2. QED
    BY <2>1
<1>4. QED
  BY <1>1, <1>2, <1>3

(* A new app has an id of its own. *)
LEMMA CreateIs ==
    ASSUME TypeOK, NEW p \in Procs, AppCreate(p)
    PROVE  \E n : /\ apps' = apps \cup {n} /\ n.id = lastApp + 1
                  /\ \A q \in Platforms : n.cur[q] = 0
                  /\ \A x \in apps : x.id # n.id
<1> DEFINE n == [id |-> lastApp + 1, cur |-> [q \in Platforms |-> 0],
                 bundle |-> [q \in Platforms |-> NoBundle]]
<1>1. apps' = apps \cup {n}
  BY DEF AppCreate
<1>2. \A x \in apps : x.id # lastApp + 1
  BY DEF TypeOK, App
<1>3. n.id = lastApp + 1 /\ \A q \in Platforms : n.cur[q] = 0
  OBVIOUS
<1> HIDE DEF n
<1>4. QED
  BY <1>1, <1>2, <1>3

(* App ids stay unique, whatever overlaps. *)
LEMMA NextAppsOnce ==
    ASSUME TypeOK, AppsOnce, [Next]_vars
    PROVE  AppsOnce'
<1>1. ASSUME NEW p \in Procs, Writes(p)
      PROVE  AppsOnce'
  <2>1. CASE AppCreate(p)
    BY <2>1, CreateIs DEF AppsOnce
  <2>2. CASE DeleteApp(job[p].app)
    BY <2>2 DEF DeleteApp, AppsOnce
  <2>3. QED
    BY <1>1, <2>1, <2>2, SetCurrentIs, SetBundleIs DEF Writes
<1>2. CASE UNCHANGED apps
  BY <1>2 DEF AppsOnce
<1>3. CASE Environment \/ UNCHANGED vars
  <2>1. UNCHANGED apps
    BY <1>3 DEF Environment, Tick, Crash, Boot, OrphanScanEnd, OrphanRemove, ScanCutShort, vars, durable
  <2>2. QED
    BY <1>2, <2>1
<1>4. QED
  BY <1>1, <1>2, <1>3, StepApps DEF Next

(* An app that exists does so until it is deleted. *)
LEMMA AppsRemain ==
    ASSUME TypeOK, [Next]_vars, NEW a, AppExists(a)
    PROVE  AppExists(a)' \/ \E p \in Procs : AppDeleteRow(p) /\ DeleteApp(a) /\ job[p].app = a
<1>1. ASSUME NEW p \in Procs, Writes(p)
      PROVE  AppExists(a)' \/ (AppDeleteRow(p) /\ DeleteApp(a) /\ job[p].app = a)
  <2>1. CASE AppCreate(p)
    BY <2>1, CreateIs DEF AppExists
  <2>2. CASE AppDeleteRow(p) /\ DeleteApp(job[p].app)
    BY <2>2 DEF DeleteApp, AppExists
  <2>3. QED
    BY <1>1, <2>1, <2>2, SetCurrentIs, SetBundleIs DEF Writes, AppExists
<1>2. CASE UNCHANGED apps
  BY <1>2 DEF AppExists
<1>3. CASE Environment \/ UNCHANGED vars
  <2>1. UNCHANGED apps
    BY <1>3 DEF Environment, Tick, Crash, Boot, OrphanScanEnd, OrphanRemove, ScanCutShort, vars, durable
  <2>2. QED
    BY <1>2, <2>1
<1>4. QED
  BY <1>1, <1>2, <1>3, StepApps DEF Next

(* So does every version's app, which takes its versions with it. *)
LEMMA NextForeignKey ==
    ASSUME TypeOK, Carried, ForeignKey, [Next]_vars
    PROVE  ForeignKey'
<1>1. ASSUME NEW p \in Procs, UploadInsert(p)
      PROVE  ForeignKey'
  <2>1. UNCHANGED apps /\ AppExists(job[p].app) /\ job[p].row.app = job[p].app
    BY <1>1 DEF UploadInsert, Carried, CarriesRow, Receiving
  <2>2. \E r : versions' = versions \cup {r} /\ r.app = job[p].row.app
    <3>1. [job[p].row EXCEPT !.id = NextVid, !.at = clock].app = job[p].row.app
      BY JobFields DEF Row
    <3>2. QED
      BY <1>1, <3>1 DEF UploadInsert
  <2>3. QED
    BY <2>1, <2>2 DEF ForeignKey, AppExists
<1>2. ASSUME \A p \in Procs : ~UploadInsert(p)
      PROVE  ForeignKey'
  <2>1. versions' \subseteq versions
    <3>1. ASSUME NEW p \in Procs, Step(p) \/ Request(p)
          PROVE  versions' \subseteq versions
      BY <1>2, <3>1, StepRows, BeginRows
    <3>2. CASE Environment \/ UNCHANGED vars
      BY <3>2, EnvironmentRows DEF vars, durable
    <3>3. QED
      BY <3>1, <3>2 DEF Next
  <2> SUFFICES ASSUME NEW r \in versions'
               PROVE  AppExists(r.app)'
    BY DEF ForeignKey, AppExists
  <2>2. AppExists(r.app)
    BY <2>1 DEF ForeignKey
  <2>3. CASE AppExists(r.app)'
    BY <2>3
  <2>4. CASE DeleteApp(r.app)
    BY <2>4 DEF DeleteApp
  <2>5. QED
    BY <2>2, <2>3, <2>4, AppsRemain
<1>3. QED
  BY <1>1, <1>2

-----------------------------------------------------------------------------
(* What a request read or checked still holds when it acts on it. *)

(* Where the locals of a request go *)
LEMMA GoesTo ==
    ASSUME TypeOK, NEW p \in Procs, NEW l, NEW j
    PROVE  /\ Goto(p, l) => pc'[p] = l
           /\ Keep(p, j) => job'[p] = j
BY DEF Goto, Keep, TypeOK

(* Labels at which a request relies on nothing it read *)
Careless == {"idle", "parts", "insert", "undo", "bundle", "pruneRead", "delApp", "open"}

(* There is nothing to show of a request at one of them. *)
LEMMA RestIsTrue ==
    ASSUME NEW p \in Procs, pc'[p] \in Careless
    PROVE  StillTrue(p)'
BY DEF StillTrue, Careless

(* A request's step to another of them *)
LEMMA ToRest ==
    ASSUME TypeOK, NEW p \in Procs,
           \/ UploadEnd(p) \/ UploadReject(p) \/ UploadMove(p) \/ UploadInsertFails(p)
           \/ UploadUndo(p) \/ UploadPromote(p) \/ UploadBundle(p) \/ PruneSkip(p) \/ DeleteRow(p) \/ PinWrite(p)
           \/ AppDeleteRow(p) \/ DownloadOpen(p) \/ AppCreate(p)
           \/ \E a : UploadBegin(p, a)
           \/ \E r : DeleteBegin(p, r) \/ DownloadRead(p, r)
    PROVE  StillTrue(p)'
<1>1. pc'[p] \in Careless
  <2>1. CASE AppCreate(p)
    BY <2>1 DEF AppCreate, Start, Careless
  <2>2. CASE ~AppCreate(p)
    BY <2>2, GoesTo DEF UploadEnd, UploadReject, UploadMove, UploadInsertFails,
       UploadUndo, UploadPromote, UploadBundle, PruneSkip, DeleteRow, PinWrite, AppDeleteRow, DownloadOpen, UploadBegin, DeleteBegin,
       DownloadRead, Finish, NextPart, Careless
  <2>3. QED
    BY <2>1, <2>2
<1>2. QED
  BY <1>1, RestIsTrue

(* The platform of a request's row is one of the two. *)
LEMMA PlatIs ==
    ASSUME TypeOK, NEW p \in Procs
    PROVE  job[p].row.build.plat \in Platforms
BY JobFields, BuildsAssumption

(* The steps of an upload that rely on something it read or wrote *)
LEMMA UploadTrue ==
    ASSUME TypeOK, NEW p \in Procs, (\E b \in Builds : UploadPart(p, b)) \/ UploadInsert(p)
    PROVE  StillTrue(p)'
<1> USE DEF durable
<1>0. job[p] \in Job /\ job[p].row \in Row
  BY JobFields
<1>1. ASSUME NEW b \in Builds, UploadPart(p, b)
      PROVE  StillTrue(p)'
  <2> PICK x \in apps :
        /\ x.id = job[p].app
        /\ Keep(p, [job[p] EXCEPT
                      !.row = [Nobody EXCEPT !.app = job[p].app, !.build = b],
                      !.fresh = (x.bundle[b.plat] = NoBundle)])
    BY <1>1 DEF UploadPart
  <2> DEFINE r == [Nobody EXCEPT !.app = job[p].app, !.build = b]
             f == x.bundle[b.plat] = NoBundle
             j == [job[p] EXCEPT !.row = r, !.fresh = f]
  <2> HIDE DEF r, f
  <2>1. j.app = job[p].app
    BY <1>0 DEF Job
  <2>2. Keep(p, j)
    BY DEF r, f
  <2> HIDE DEF j
  <2>3. job'[p] = j /\ pc'[p] = "stream" /\ UNCHANGED apps
    BY <1>1, <2>2, GoesTo DEF UploadPart
  <2>4. QED
    BY <2>1, <2>3 DEF StillTrue
<1>2. CASE UploadInsert(p)
  <2> DEFINE r == [job[p].row EXCEPT !.id = NextVid, !.at = clock]
             j == [job[p] EXCEPT !.row = r]
  <2>1. versions' = versions \cup {r}
    BY <1>2 DEF UploadInsert
  <2> HIDE DEF r
  <2>2. j.row = r
    BY <1>0 DEF Job
  <2>3. Keep(p, j)
    BY <1>2 DEF UploadInsert, r
  <2> HIDE DEF j
  <2>4. job'[p] = j /\ pc'[p] = "promote"
    BY <1>2, <2>3, GoesTo DEF UploadInsert
  <2>5. QED
    BY <2>1, <2>2, <2>4 DEF StillTrue
<1>3. QED
  BY <1>1, <1>2

(* The steps of pruning *)
LEMMA PruneTrue ==
    ASSUME TypeOK, AppsOnce, NEW p \in Procs, StillTrue(p),
           PruneRead(p) \/ PruneList(p) \/ PruneFiles(p) \/ PruneRow(p)
    PROVE  StillTrue(p)'
<1> USE DEF durable
<1>0. job[p] \in Job /\ job[p].row \in Row
  BY JobFields
<1>1. ASSUME NextPart(p) PROVE StillTrue(p)'
  BY <1>1, GoesTo, RestIsTrue DEF NextPart, Careless
<1>2. CASE PruneRead(p)
  <2> PICK x \in apps : /\ x.id = job[p].app
                        /\ Keep(p, [job[p] EXCEPT !.cur = x.cur[job[p].row.build.plat]])
    BY <1>2 DEF PruneRead
  <2> DEFINE j == [job[p] EXCEPT !.cur = x.cur[job[p].row.build.plat]]
  <2>1. j.app = job[p].app /\ j.row = job[p].row /\ j.cur = x.cur[job[p].row.build.plat]
    BY <1>0 DEF Job
  <2>2. Keep(p, j)
    OBVIOUS
  <2> HIDE DEF j
  <2>3. job'[p] = j /\ pc'[p] = "pruneList" /\ UNCHANGED apps
    BY <1>2, <2>2, GoesTo DEF PruneRead
  <2>4. \A y \in apps : y.id = job[p].app => y = x
    BY DEF AppsOnce
  <2>5. QED
    BY <2>1, <2>3, <2>4 DEF StillTrue
<1>3. CASE PruneList(p)
  <2> PICK D \in ListVersionsToPrune(job[p].app, job[p].row.build.plat, job[p].cur) :
        IF D = {} THEN NextPart(p)
                  ELSE Goto(p, "prune") /\ Keep(p, [job[p] EXCEPT !.todo = D])
    BY <1>3 DEF PruneList
  <2>1. CASE D = {}
    BY <1>1, <2>1
  <2>2. CASE D # {}
    <3> DEFINE j == [job[p] EXCEPT !.todo = D]
    <3>1. /\ j.app = job[p].app /\ j.row = job[p].row /\ j.cur = job[p].cur /\ j.todo = D
      BY <1>0 DEF Job
    <3>2. Keep(p, j) /\ Goto(p, "prune")
      BY <2>2
    <3> HIDE DEF j
    <3>3. job'[p] = j /\ pc'[p] = "prune" /\ pc[p] = "pruneList" /\ UNCHANGED apps
      BY <1>3, <3>2, GoesTo DEF PruneList
    <3>4. \A r \in D : /\ r.app = job[p].app /\ r.build.plat = job[p].row.build.plat
                       /\ r.id # job[p].cur
      BY DEF ListVersionsToPrune, AfterNewest
    <3>5. QED
      BY <3>1, <3>3, <3>4 DEF StillTrue
  <2>3. QED
    BY <2>1, <2>2
<1>4. CASE PruneFiles(p)
  <2> PICK r \in job[p].todo : RemoveFileOf(p, r, job[p].todo \ {r})
    BY <1>4 DEF PruneFiles
  <2> DEFINE rest == job[p].todo \ {r}
             g == job[p].gone \cup {r.id}
             j == [job[p] EXCEPT !.row = r, !.todo = rest, !.gone = g]
  <2>1. j.app = job[p].app /\ j.row = r /\ j.cur = job[p].cur /\ j.todo = rest
    BY <1>0 DEF Job
  <2>2. Keep(p, j)
    BY DEF RemoveFileOf
  <2> HIDE DEF j
  <2>3. job'[p] = j /\ pc'[p] = "pruneRow" /\ pc[p] = "prune" /\ UNCHANGED apps
    BY <1>4, <2>2, GoesTo DEF PruneFiles
  <2>4. QED
    BY <2>1, <2>3 DEF StillTrue
<1>5. CASE PruneRow(p)
  <2>1. CASE NextPart(p)
    BY <1>1, <2>1
  <2>2. CASE Goto(p, "prune") /\ Keep(p, [job[p] EXCEPT !.gone = {}])
    <3> DEFINE j == [job[p] EXCEPT !.gone = {}]
    <3>1. /\ j.app = job[p].app /\ j.row = job[p].row /\ j.cur = job[p].cur
          /\ j.todo = job[p].todo
      BY <1>0 DEF Job
    <3>2. Keep(p, j) /\ Goto(p, "prune")
      BY <2>2
    <3> HIDE DEF j
    <3>3. job'[p] = j /\ pc'[p] = "prune" /\ pc[p] = "pruneRow" /\ UNCHANGED apps
      BY <1>5, <3>2, GoesTo DEF PruneRow
    <3>4. QED
      BY <3>1, <3>3 DEF StillTrue
  <2>3. QED
    BY <1>5, <2>1, <2>2 DEF PruneRow
<1>6. QED
  BY <1>2, <1>3, <1>4, <1>5

(* The steps of deleting a version *)
LEMMA DeleteTrue ==
    ASSUME TypeOK, Carried, Anchored, AppsOnce, NEW p \in Procs, StillTrue(p),
           DeleteReadApp(p) \/ DeleteClear(p) \/ DeleteFiles(p)
    PROVE  StillTrue(p)'
<1> USE DEF durable
<1>0. job[p] \in Job /\ job[p].row \in Row /\ faults \in Nat
  BY JobFields DEF TypeOK
<1>1. /\ job[p].row.app = job[p].app /\ job[p].row.id # 0
      /\ job[p].row.build.plat \in Platforms
  <2>1. pc[p] \in Handling
    BY DEF DeleteReadApp, DeleteClear, DeleteFiles, Handling
  <2>2. Sent(job[p].row) \in published /\ job[p].row.app = job[p].app
    BY <2>1 DEF Carried, CarriesRow
  <2>3. job[p].row.id \in 1 .. lastVid
    BY <2>2 DEF TypeOK, Sent
  <2>4. QED
    BY <2>2, <2>3, PlatIs
<1>2. CASE DeleteReadApp(p)
  <2>1. CASE Finish(p)
    BY <2>1, GoesTo, RestIsTrue DEF Finish, Careless
  <2>2. ASSUME NEW x \in apps, x.id = job[p].app, UNCHANGED job,
               Goto(p, IF x.cur[job[p].row.build.plat] = job[p].row.id
                       THEN "clear" ELSE "delFiles")
        PROVE  StillTrue(p)'
    <3>1. /\ job'[p] = job[p] /\ UNCHANGED apps
          /\ pc'[p] = IF x.cur[job[p].row.build.plat] = job[p].row.id THEN "clear" ELSE "delFiles"
      BY <1>2, <2>2, GoesTo DEF DeleteReadApp
    <3>2. IsCurrent(job[p].row) <=> x.cur[job[p].row.build.plat] = job[p].row.id
      BY <1>1, <2>2 DEF IsCurrent, AppsOnce
    <3>3. IsCurrent(job[p].row)' <=> IsCurrent(job[p].row)
      BY <3>1 DEF IsCurrent
    <3>4. QED
      BY <3>1, <3>2, <3>3 DEF StillTrue
  <2>3. QED
    BY <1>2, <2>1, <2>2 DEF DeleteReadApp
<1>3. CASE DeleteClear(p)
  <2>1. job'[p] = job[p] /\ pc'[p] = "delFiles"
    BY <1>3, GoesTo DEF DeleteClear
  <2>2. CASE Fault
    <3>1. faults' # 0
      BY <1>0, <2>2 DEF Fault
    <3>2. QED
      BY <2>1, <3>1 DEF StillTrue
  <2>3. CASE SetAppCurrentVersion(job[p].app, 0, job[p].row.build.plat)
    <3>1. \A y \in apps' : y.id = job[p].row.app => y.cur[job[p].row.build.plat] # job[p].row.id
      BY <1>1, <2>3, SetCurrentIs
    <3>2. ~IsCurrent(job[p].row)'
      BY <2>1, <3>1 DEF IsCurrent
    <3>3. QED
      BY <2>1, <3>2 DEF StillTrue
  <2>4. QED
    BY <1>3, <2>2, <2>3 DEF DeleteClear
<1>4. CASE DeleteFiles(p)
  <2> DEFINE g == job[p].gone \cup {job[p].row.id}
             j == [job[p] EXCEPT !.row = job[p].row, !.todo = {}, !.gone = g]
  <2>1. j.row = job[p].row
    BY <1>0 DEF Job
  <2>2. Keep(p, j)
    BY <1>4 DEF DeleteFiles, RemoveFileOf
  <2> HIDE DEF j
  <2>3. job'[p] = j /\ pc'[p] = "delRow" /\ pc[p] = "delFiles" /\ UNCHANGED apps
    BY <1>4, <2>2, GoesTo DEF DeleteFiles
  <2>4. faults # 0 => faults' # 0
    BY <1>0, <1>4 DEF DeleteFiles, RemoveFileOf, Fault, NoFault
  <2>5. IsCurrent(job[p].row)' <=> IsCurrent(job[p].row)
    BY <2>1, <2>3 DEF IsCurrent
  <2>6. QED
    BY <2>3, <2>4, <2>5 DEF StillTrue
<1>5. QED
  BY <1>2, <1>3, <1>4

(* Pinning a version and deleting an app *)
LEMMA OtherTrue ==
    ASSUME TypeOK, NEW p \in Procs, StillTrue(p),
           \/ \E r \in versions : PinBegin(p, r)
           \/ \E a : AppDeleteList(p, a)
           \/ AppDeleteFiles(p)
    PROVE  StillTrue(p)'
<1> USE DEF durable
<1>0. job[p] \in Job /\ unclean \in BOOLEAN
  BY JobFields DEF TypeOK
<1>1. ASSUME NEW r \in versions, PinBegin(p, r)
      PROVE  StillTrue(p)'
  <2> DEFINE j == [Blank EXCEPT !.app = r.app, !.row = r]
  <2>1. j.row = r
    BY DEF Blank
  <2>2. Keep(p, j)
    BY <1>1 DEF PinBegin
  <2> HIDE DEF j
  <2>3. job'[p] = j /\ pc'[p] = "pin" /\ UNCHANGED versions
    BY <1>1, <2>2, GoesTo DEF PinBegin
  <2>4. QED
    BY <2>1, <2>3 DEF StillTrue
<1>2. ASSUME NEW a, AppDeleteList(p, a)
      PROVE  StillTrue(p)'
  <2>1. pc'[p] = "appFiles" /\ UNCHANGED versions
    BY <1>2, GoesTo DEF AppDeleteList
  <2> PICK D \in SUBSET {r \in versions : r.app = a} :
        /\ Keep(p, [Blank EXCEPT !.app = a, !.todo = D])
        /\ D = {r \in versions : r.app = a} \/ Fault
    BY <1>2 DEF AppDeleteList
  <2>2. CASE Fault
    <3>1. unclean' = TRUE
      BY <2>2, FaultIsUnclean
    <3>2. QED
      BY <2>1, <3>1 DEF StillTrue
  <2>3. CASE D = {r \in versions : r.app = a}
    <3> DEFINE j == [Blank EXCEPT !.app = a, !.todo = D]
    <3>1. j.app = a /\ j.todo = D
      BY DEF Blank
    <3>2. Keep(p, j)
      OBVIOUS
    <3> HIDE DEF j
    <3>3. job'[p] = j
      BY <3>2, GoesTo
    <3>4. QED
      BY <2>1, <2>3, <3>1, <3>3 DEF StillTrue
  <2>4. QED
    BY <2>2, <2>3
<1>3. CASE AppDeleteFiles(p)
  <2> PICK r \in job[p].todo : RemoveFileOf(p, r, job[p].todo \ {r})
    BY <1>3 DEF AppDeleteFiles
  <2> DEFINE rest == job[p].todo \ {r}
             g == job[p].gone \cup {r.id}
             j == [job[p] EXCEPT !.row = r, !.todo = rest, !.gone = g]
  <2>1. j.app = job[p].app /\ j.todo = rest /\ j.gone = g
    BY <1>0 DEF Job
  <2>2. Keep(p, j)
    BY DEF RemoveFileOf
  <2> HIDE DEF j
  <2>3. job'[p] = j /\ pc[p] = "appFiles" /\ pc'[p] = "appFiles" /\ UNCHANGED versions
    BY <1>3, <2>2, GoesTo DEF AppDeleteFiles
  <2>4. unclean' = unclean \/ unclean' = TRUE
    BY DEF RemoveFileOf, Fault, NoFault
  <2>5. CASE unclean' = TRUE
    BY <2>3, <2>5 DEF StillTrue
  <2>6. CASE unclean' = unclean
    <3>1. unclean \/ \A v \in versions : v.app = job[p].app => v \in job[p].todo \/ v.id \in job[p].gone
      BY <2>3 DEF StillTrue
    <3>2. unclean' \/ \A v \in versions' :
             v.app = job'[p].app => v \in job'[p].todo \/ v.id \in job'[p].gone
      <4>1. CASE unclean
        BY <2>6, <4>1
      <4>2. CASE \A v \in versions : v.app = job[p].app => v \in job[p].todo \/ v.id \in job[p].gone
        BY <2>1, <2>3, <4>2
      <4>3. QED
        BY <3>1, <4>1, <4>2
    <3>3. QED
      BY <2>3, <3>2 DEF StillTrue
  <2>7. QED
    BY <2>4, <2>5, <2>6
<1>4. QED
  BY <1>1, <1>2, <1>3

(* Time and the environment take nothing away from a request. *)
LEMMA EnvironmentTrue ==
    ASSUME TypeOK, BusyServes, Environment \/ UNCHANGED vars, NEW p \in Procs, StillTrue(p)
    PROVE  StillTrue(p)'
<1> USE DEF durable, budget, history
<1>1. CASE Crash
  BY <1>1, RestIsTrue DEF Crash, Careless
<1>2. CASE OrphanScanEnd \/ \E D : ScanCutShort(D)
  <2>1. pc'[p] = "idle"
    BY <1>2 DEF OrphanScanEnd, ScanCutShort, BusyServes
  <2>2. QED
    BY <2>1, RestIsTrue DEF Careless
<1>3. CASE Tick \/ Boot \/ (\E q \in DOMAIN files : OrphanRemove(q)) \/ UNCHANGED vars
  <2>1. UNCHANGED <<pc, job, apps, versions, faults, unclean>>
    <3>1. CASE UNCHANGED vars
      BY <3>1 DEF vars
    <3>2. CASE ~UNCHANGED vars
      BY <1>3, <3>2 DEF Tick, Boot, OrphanRemove
    <3>3. QED
      BY <3>1, <3>2
  <2>2. QED
    BY <2>1 DEF StillTrue, IsCurrent
<1>4. QED
  BY <1>1, <1>2, <1>3 DEF Environment

(* One request at a time, what it read and checked stays true. *)
LEMMA NextTrue ==
    ASSUME OneAtATime, IInv, BusyServes, AppsOnce, [Next]_vars,
           \A p \in Procs : StillTrue(p)
    PROVE  \A p \in Procs : StillTrue(p)'
<1> TypeOK /\ Carried /\ Anchored
  BY DEF IInv
<1>1. ASSUME NEW p \in Procs, Step(p)
      PROVE  StillTrue(p)'
  BY <1>1, ToRest, UploadTrue, PruneTrue, DeleteTrue, OtherTrue DEF Step
<1>2. ASSUME NEW p \in Procs, Request(p)
      PROVE  StillTrue(p)'
  BY <1>2, ToRest, OtherTrue DEF Request
<1>3. ASSUME NEW p \in Procs, Step(p) \/ Request(p)
      PROVE  \A q \in Procs : StillTrue(q)'
  <2> SUFFICES ASSUME NEW q \in Procs PROVE StillTrue(q)'
    OBVIOUS
  <2>1. q = p
    BY DEF OneAtATime
  <2>2. QED
    BY <1>1, <1>2, <1>3, <2>1
<1>4. CASE Environment \/ UNCHANGED vars
  BY <1>4, EnvironmentTrue
<1>5. QED
  BY <1>3, <1>4 DEF Next

-----------------------------------------------------------------------------
(* Pointers and files *)

(* A row that is about to be deleted is not the current version. *)
LEMMA NotCurrent ==
    ASSUME TypeOK, NEW p \in Procs, StillTrue(p),
           pc[p] = "pruneRow" \/ (pc[p] = "delRow" /\ faults = 0)
    PROVE  ~IsCurrent(job[p].row)
BY DEF StillTrue, IsCurrent

(* Errors are not forgotten. *)
LEMMA FaultsGrow ==
    ASSUME TypeOK, [Next]_vars, faults' = 0
    PROVE  faults = 0
<1> USE DEF budget, Fault, NoFault
<1>0. faults \in Nat
  BY DEF TypeOK
<1>1. ASSUME NEW p \in Procs, Step(p)
      PROVE  faults' = faults \/ faults' = faults + 1
  BY <1>1 DEF Step, UploadEnd, UploadPart, UploadReject, UploadMove, UploadInsert,
     UploadInsertFails, UploadUndo, UploadPromote, UploadBundle, PruneRead, PruneSkip,
     PruneList, PruneFiles, PruneRow, DeleteReadApp, DeleteClear, DeleteFiles, DeleteRow,
     PinWrite, AppDeleteFiles, AppDeleteRow, DownloadOpen, RemoveFileOf
<1>2. ASSUME NEW p \in Procs, Request(p)
      PROVE  faults' = faults \/ faults' = faults + 1
  BY <1>2 DEF Request, AppCreate, UploadBegin, AppDeleteList, DeleteBegin, PinBegin,
     DownloadRead
<1>3. ASSUME Environment \/ UNCHANGED vars
      PROVE  faults' = faults \/ faults' = faults + 1
  <2>1. CASE UNCHANGED vars
    BY <2>1 DEF vars
  <2>2. CASE Environment
    BY <2>2 DEF Environment, Tick, Crash, Boot, OrphanScanEnd, OrphanRemove, ScanCutShort
  <2>3. QED
    BY <1>3, <2>1, <2>2
<1>4. faults' = faults \/ faults' = faults + 1
  BY <1>1, <1>2, <1>3 DEF Next
<1>5. QED
  BY <1>0, <1>4

(* NoDanglingCurrent, where an update of apps leaves the listed versions   *)
LEMMA DanglingBy ==
    ASSUME NoDanglingCurrent, faults = 0, versions \subseteq versions',
           \A y \in apps', q \in Platforms :
             \/ y.cur[q] = 0
             \/ \E r \in versions' : r.id = y.cur[q]
             \/ \E x \in apps : y.cur[q] = x.cur[q]
    PROVE  NoDanglingCurrent'
<1> SUFFICES ASSUME NEW y \in apps', NEW q \in Platforms, y.cur[q] # 0
             PROVE  \E r \in versions' : r.id = y.cur[q]
  BY DEF NoDanglingCurrent
<1>1. CASE \E r \in versions' : r.id = y.cur[q]
  BY <1>1
<1>2. ASSUME NEW x \in apps, y.cur[q] = x.cur[q]
      PROVE  \E r \in versions' : r.id = y.cur[q]
  BY <1>2 DEF NoDanglingCurrent
<1>3. QED
  BY <1>1, <1>2

(* No pointer is left behind. *)
LEMMA NextDangling ==
    ASSUME OneAtATime, FilesIInv, AppsOnce, \A p \in Procs : StillTrue(p), NoDanglingCurrent,
           [Next]_vars
    PROVE  NoDanglingCurrent'
<1> USE DEF durable
<1>0. /\ TypeOK /\ IInv /\ OneOwner /\ CurrentNeverAliases
  BY PointersAnchored DEF FilesIInv, IInv
<1> SUFFICES ASSUME faults' = 0 PROVE NoDanglingCurrent'
  BY DEF NoDanglingCurrent
<1>1. faults = 0
  BY <1>0, FaultsGrow
<1>2. ASSUME NEW p \in Procs, UploadPromote(p) \/ PinWrite(p),
             SetAppCurrentVersion(job[p].app, job[p].row.id, job[p].row.build.plat)
      PROVE  NoDanglingCurrent'
  <2>1. job[p].row \in versions
    BY <1>2 DEF UploadPromote, PinWrite, StillTrue
  <2>2. versions' = versions
    BY <1>2 DEF UploadPromote, PinWrite
  <2>3. \A y \in apps', q \in Platforms :
          y.cur[q] = job[p].row.id \/ \E x \in apps : y.cur[q] = x.cur[q]
    BY <1>0, <1>2, SetCurrentIs
  <2>4. QED
    BY <1>1, <2>1, <2>2, <2>3, DanglingBy
<1>3. ASSUME NEW p \in Procs, DeleteClear(p),
             SetAppCurrentVersion(job[p].app, 0, job[p].row.build.plat)
      PROVE  NoDanglingCurrent'
  <2>1. versions' = versions
    BY <1>3 DEF DeleteClear
  <2>2. \A y \in apps', q \in Platforms : y.cur[q] = 0 \/ \E x \in apps : y.cur[q] = x.cur[q]
    BY <1>0, <1>3, SetCurrentIs
  <2>3. QED
    BY <1>1, <2>1, <2>2, DanglingBy
<1>4. ASSUME NEW p \in Procs, UploadBundle(p),
             SetAppBundleID(job[p].app, job[p].row.build.plat, job[p].row.build.bundle)
      PROVE  NoDanglingCurrent'
  <2>1. versions' = versions
    BY <1>4 DEF UploadBundle
  <2>2. \A y \in apps', q \in Platforms : \E x \in apps : y.cur[q] = x.cur[q]
    BY <1>0, <1>4, SetBundleIs
  <2>3. QED
    BY <1>1, <2>1, <2>2, DanglingBy
<1>5. ASSUME NEW p \in Procs, AppCreate(p)
      PROVE  NoDanglingCurrent'
  <2>1. versions' = versions
    BY <1>5 DEF AppCreate
  <2>2. \A y \in apps', q \in Platforms : y.cur[q] = 0 \/ \E x \in apps : y.cur[q] = x.cur[q]
    BY <1>0, <1>5, CreateIs
  <2>3. QED
    BY <1>1, <2>1, <2>2, DanglingBy
<1>6. ASSUME NEW p \in Procs, DeleteApp(job[p].app)
      PROVE  NoDanglingCurrent'
  <2> SUFFICES ASSUME NEW y \in apps', NEW q \in Platforms, y.cur[q] # 0
               PROVE  \E r \in versions' : r.id = y.cur[q]
    BY DEF NoDanglingCurrent
  <2>1. y \in apps /\ y.id # job[p].app
    BY <1>6 DEF DeleteApp
  <2>2. PICK r \in versions : r.id = y.cur[q]
    BY <1>1, <2>1 DEF NoDanglingCurrent
  <2>3. r.app = y.id
    BY <1>0, <2>1, <2>2 DEF CurrentNeverAliases
  <2>4. QED
    BY <1>6, <2>1, <2>2, <2>3 DEF DeleteApp
<1>7. ASSUME NEW p \in Procs, PruneRow(p) \/ DeleteRow(p), DeleteVersion(job[p].row.id)
      PROVE  NoDanglingCurrent'
  <2>1. apps' = apps /\ (pc[p] = "pruneRow" \/ pc[p] = "delRow")
    BY <1>7 DEF PruneRow, DeleteRow
  <2>2. ~IsCurrent(job[p].row)
    BY <1>0, <1>1, <2>1, NotCurrent
  <2>3. job[p].row \in Rows
    BY <2>1, HeldByIs DEF Rows, Handling
  <2> SUFFICES ASSUME NEW y \in apps, NEW q \in Platforms, y.cur[q] # 0
               PROVE  \E r \in versions' : r.id = y.cur[q]
    BY <2>1 DEF NoDanglingCurrent
  <2>4. PICK r \in versions : r.id = y.cur[q]
    BY <1>1 DEF NoDanglingCurrent
  <2>5. r.app = y.id /\ r.build.plat = q
    BY <1>0, <2>4 DEF CurrentNeverAliases
  <2>6. r # job[p].row
    BY <2>2, <2>4, <2>5 DEF IsCurrent
  <2>7. r.id # job[p].row.id
    BY <1>0, <2>3, <2>6 DEF OneOwner, Rows
  <2>8. QED
    BY <1>7, <2>4, <2>7 DEF DeleteVersion
<1>8. ASSUME UNCHANGED apps, versions \subseteq versions'
      PROVE  NoDanglingCurrent'
  BY <1>1, <1>8, DanglingBy
<1>9. ASSUME NEW p \in Procs, Step(p) \/ Request(p)
      PROVE  NoDanglingCurrent'
  <2>1. CASE Writes(p)
    BY <1>2, <1>3, <1>4, <1>5, <1>6, <2>1 DEF Writes
  <2>2. CASE UNCHANGED apps /\ (PruneRow(p) \/ DeleteRow(p))
    <3>1. CASE DeleteVersion(job[p].row.id)
      BY <1>7, <2>2, <3>1
    <3>2. CASE versions' = versions
      BY <1>8, <2>2, <3>2
    <3>3. QED
      BY <2>2, <3>1, <3>2 DEF PruneRow, DeleteRow
  <2>3. CASE UNCHANGED apps /\ AppDeleteRow(p)
    <3>1. CASE versions' = versions
      BY <1>8, <2>3, <3>1
    <3>2. QED
      BY <1>6, <2>3, <3>1 DEF AppDeleteRow
  <2>4. CASE UNCHANGED apps /\ ~(PruneRow(p) \/ DeleteRow(p) \/ AppDeleteRow(p))
    BY <1>8, <1>9, <2>4, OnlyDeletionsDelete
  <2>5. QED
    BY <1>9, <2>1, <2>2, <2>3, <2>4, StepApps
<1>10. CASE Environment \/ UNCHANGED vars
  <2>1. UNCHANGED <<apps, versions>>
    BY <1>10 DEF Environment, Tick, Crash, Boot, OrphanScanEnd, OrphanRemove, ScanCutShort, vars
  <2>2. QED
    BY <1>8, <2>1
<1>11. QED
  BY <1>9, <1>10 DEF Next

(* Every file is one of an existing app. *)
LEMMA NextFilesHaveApps ==
    ASSUME OneAtATime, FilesIInv, ForeignKey, FilesHaveApps, \A p \in Procs : StillTrue(p),
           [Next]_vars
    PROVE  FilesHaveApps'
<1> USE DEF durable
<1>0. TypeOK /\ Carried /\ Accounted /\ unclean \in BOOLEAN
  BY DEF FilesIInv, IInv, TypeOK
<1>1. ASSUME NEW p \in Procs, UploadMove(p)
      PROVE  FilesHaveApps'
  <2>1. /\ files' = Put(files, Path([job[p].row EXCEPT !.ts = clock]), job[p].row.build.sha)
        /\ UNCHANGED <<apps, unclean>> /\ pc[p] = "stream"
    <3>1. [job[p].row EXCEPT !.ts = clock].build = job[p].row.build
      BY <1>0, JobFields DEF Row
    <3>2. QED
      BY <1>1, <3>1 DEF UploadMove
  <2>2. [job[p].row EXCEPT !.ts = clock].app = job[p].row.app
    BY <1>0, JobFields DEF Row
  <2>3. job[p].row.app = job[p].app
    BY <1>0, <2>1 DEF Carried, CarriesRow, Receiving
  <2>4. AppExists(job[p].app)
    BY <2>1 DEF StillTrue, AppExists
  <2> DEFINE path == Path([job[p].row EXCEPT !.ts = clock])
  <2>5. path[1] = job[p].app
    BY <2>2, <2>3 DEF Path
  <2> HIDE DEF path
  <2>6. DOMAIN files' = DOMAIN files \cup {path}
    BY <2>1 DEF Put, path
  <2>7. QED
    BY <2>1, <2>4, <2>5, <2>6 DEF FilesHaveApps, AppExists
<1>2. ASSUME \A p \in Procs : ~UploadMove(p), ~OrphanScanEnd
      PROVE  FilesHaveApps'
  <2> SUFFICES ASSUME ~unclean', NEW q \in DOMAIN files' PROVE AppExists(q[1])'
    BY DEF FilesHaveApps, AppExists
  <2>1. q \in DOMAIN files /\ ~unclean
    BY <1>0, <1>2, FilesShrink, CleanSince
  <2>2. AppExists(q[1])
    BY <2>1 DEF FilesHaveApps
  <2>3. ASSUME NEW p \in Procs, AppDeleteRow(p), job[p].app = q[1]
        PROVE  FALSE
    <3>1. pc[p] = "appFiles" /\ job[p].todo = {}
      BY <2>3 DEF AppDeleteRow
    <3>2. \A r \in versions : r.app = q[1] => r.id \in job[p].gone
      BY <2>1, <2>3, <3>1 DEF StillTrue
    <3>3. \A o \in Procs : pc[o] \notin Moved
      BY <3>1 DEF OneAtATime, Moved
    <3>4. PICK r \in versions : q = Path(r) /\ r.id \notin Gone
      BY <1>0, <2>1, <2>2, <3>3 DEF Accounted
    <3>5. r.app = q[1]
      BY <3>4 DEF Path
    <3>6. QED
      BY <3>2, <3>4, <3>5 DEF Gone
  <2>4. QED
    BY <1>0, <2>2, <2>3, AppsRemain
<1>3. CASE OrphanScanEnd
  <2>1. UNCHANGED <<apps, versions, files>> /\ (unclean' = TRUE \/ DOMAIN files \subseteq Known)
    BY <1>3, FaultIsUnclean DEF OrphanScanEnd
  <2>2. ASSUME NEW q \in Known
        PROVE  AppExists(q[1])
    BY DEF Known, ForeignKey, Path
  <2>3. QED
    BY <2>1, <2>2 DEF FilesHaveApps, AppExists
<1>4. QED
  BY <1>1, <1>2, <1>3

-----------------------------------------------------------------------------
(* One request at a time *)

(* It holds initially, *)
LEMMA InitSerial == Init => SerialIInv
<1> SUFFICES ASSUME Init PROVE SerialIInv
  OBVIOUS
<1>1. \A p \in Procs : StillTrue(p)
  BY DEF Init, StillTrue
<1>2. AppsOnce /\ ForeignKey /\ NoDanglingCurrent /\ FilesHaveApps
  BY DEF Init, AppsOnce, ForeignKey, NoDanglingCurrent, FilesHaveApps
<1>3. QED
  BY <1>1, <1>2, InitFiles DEF SerialIInv

(* and every step keeps it as long as requests do not overlap. *)
LEMMA NextSerial ==
    ASSUME OneAtATime
    PROVE  SerialIInv /\ [Next]_vars => SerialIInv'
<1> SUFFICES ASSUME SerialIInv, [Next]_vars PROVE SerialIInv'
  OBVIOUS
<1>1. /\ FilesIInv /\ IInv /\ TypeOK /\ Carried /\ BusyServes /\ AppsOnce /\ ForeignKey
      /\ NoDanglingCurrent /\ FilesHaveApps /\ \A p \in Procs : StillTrue(p)
  BY DEF SerialIInv, FilesIInv, IInv
<1>2. FilesIInv' /\ AppsOnce' /\ ForeignKey'
  BY <1>1, NextFiles, NextAppsOnce, NextForeignKey
<1>3. (\A p \in Procs : StillTrue(p)')
  BY <1>1, NextTrue
<1>4. NoDanglingCurrent' /\ FilesHaveApps'
  BY <1>1, NextDangling, NextFilesHaveApps
<1>5. QED
  BY <1>2, <1>3, <1>4 DEF SerialIInv

(* What a request read and checked holds when it acts on it, every version *)
(* has its app and every file too, as long as requests do not overlap.     *)
THEOREM SerialInvariance ==
    ASSUME OneAtATime
    PROVE  Spec => []SerialIInv
BY InitSerial, NextSerial, PTL DEF Spec

(* Then no deletion leaves a pointer behind, *)
THEOREM NothingDangles ==
    ASSUME OneAtATime
    PROVE  Spec => []NoDanglingCurrent
<1>1. SerialIInv => NoDanglingCurrent
  BY DEF SerialIInv
<1>2. QED
  BY <1>1, SerialInvariance, PTL

(* every file is listed or about to be, the deletion of an app included,   *)
THEOREM EveryFileListed ==
    ASSUME OneAtATime
    PROVE  Spec => []FilesAreListed
<1>1. ASSUME SerialIInv PROVE FilesAreListed
  <2>1. Accounted /\ FilesHaveApps
    BY <1>1 DEF SerialIInv, FilesIInv
  <2>2. QED
    BY <2>1 DEF Accounted, FilesHaveApps, FilesAreListed, Known, Moved
<1>2. QED
  BY <1>1, SerialInvariance, PTL

(* and pruning spares the current version. *)
THEOREM PruningSparesCurrent ==
    ASSUME OneAtATime
    PROVE  Spec => NeverPrunesCurrent
<1>1. ASSUME SerialIInv
      PROVE  \A p \in Procs : pc[p] = "pruneRow" => ~IsCurrent(job[p].row)
  BY <1>1, NotCurrent DEF SerialIInv, FilesIInv, IInv
<1>2. SerialIInv => [\A p \in Procs :
         pc[p] = "pruneRow" /\ pc'[p] # "pruneRow" /\ versions' # versions
            => ~IsCurrent(job[p].row)]_vars
  BY <1>1
<1>3. QED
  BY <1>2, SerialInvariance, PTL DEF NeverPrunesCurrent

-----------------------------------------------------------------------------
(* Retention, whatever overlaps *)

(* How a bound on one set by another carries over when each gains or loses *)
(* an element                                                              *)
LEMMA Fits ==
    ASSUME NEW R, IsFiniteSet(R), NEW R2, NEW e, R2 \subseteq R \cup {e},
           NEW B, NEW B2, IsFiniteSet(B2), NEW p, B \subseteq B2 \cup {p},
           NEW k \in Nat, NEW m \in Nat, k <= m,
           Cardinality(R) <= k + Cardinality(B),
           \/ R2 \subseteq R /\ B \subseteq B2
           \/ k + 1 <= m /\ (R2 \subseteq R \/ B \subseteq B2)
           \/ p \in B2 /\ B \subseteq B2 \ {p}
    PROVE  Cardinality(R2) <= m + Cardinality(B2)
<1>1. /\ IsFiniteSet(R \cup {e}) /\ IsFiniteSet(B2 \cup {p}) /\ IsFiniteSet(B2 \ {p})
      /\ Cardinality(R \cup {e}) <= Cardinality(R) + 1
      /\ Cardinality(B2 \cup {p}) <= Cardinality(B2) + 1
      /\ Cardinality(R \cup {e}) \in Nat /\ Cardinality(B2 \cup {p}) \in Nat
  <2>1. ASSUME NEW T, IsFiniteSet(T), NEW x
        PROVE  IsFiniteSet(T \cup {x}) /\ Cardinality(T \cup {x}) <= Cardinality(T) + 1
               /\ Cardinality(T \cup {x}) \in Nat
    <3>1. IsFiniteSet(T \cup {x})
          /\ Cardinality(T \cup {x}) = IF x \in T THEN Cardinality(T) ELSE Cardinality(T) + 1
      BY <2>1, FS_AddElement
    <3>2. Cardinality(T) \in Nat /\ Cardinality(T \cup {x}) \in Nat
      BY <2>1, <3>1, FS_CardinalityType
    <3>3. QED
      BY <3>1, <3>2
  <2>2. IsFiniteSet(B2 \ {p})
    BY FS_RemoveElement
  <2>3. QED
    BY <2>1, <2>2
<1>2. Cardinality(B2 \ {p}) = IF p \in B2 THEN Cardinality(B2) - 1 ELSE Cardinality(B2)
  BY FS_RemoveElement
<1>3. /\ IsFiniteSet(R2) /\ IsFiniteSet(B)
      /\ Cardinality(R2) <= Cardinality(R \cup {e})
      /\ Cardinality(B) <= Cardinality(B2 \cup {p})
      /\ R2 \subseteq R => Cardinality(R2) <= Cardinality(R)
      /\ B \subseteq B2 => Cardinality(B) <= Cardinality(B2)
      /\ B \subseteq B2 \ {p} => Cardinality(B) <= Cardinality(B2 \ {p})
  <2>1. ASSUME NEW U, IsFiniteSet(U), NEW V, V \subseteq U
        PROVE  IsFiniteSet(V) /\ Cardinality(V) <= Cardinality(U)
    BY <2>1, FS_Subset
  <2>2. QED
    BY <1>1, <2>1
<1>4. /\ Cardinality(R) \in Nat /\ Cardinality(R2) \in Nat /\ Cardinality(B) \in Nat
      /\ Cardinality(B2) \in Nat /\ Cardinality(B2 \ {p}) \in Nat
  BY <1>1, <1>3, FS_CardinalityType
<1>5. CASE R2 \subseteq R /\ B \subseteq B2
  BY <1>3, <1>4, <1>5
<1>6. CASE k + 1 <= m /\ (R2 \subseteq R \/ B \subseteq B2)
  BY <1>1, <1>3, <1>4, <1>6
<1>7. CASE p \in B2 /\ B \subseteq B2 \ {p}
  BY <1>1, <1>2, <1>3, <1>4, <1>7
<1>8. QED
  BY <1>5, <1>6, <1>7

(* The number of requests that may be lost at once is finite. *)
LEMMA AllowanceIs ==
    /\ Cardinality(Procs) \in Nat /\ KeepN \in Nat
    /\ TypeOK => Allowance \in Nat /\ KeepN + 1 <= Allowance
    /\ TypeOK' => Allowance' \in Nat /\ KeepN + 1 <= Allowance'
<1>1. Cardinality(Procs) \in Nat /\ KeepN \in Nat
  BY ProcsAssumption, BoundsAssumption, FS_CardinalityType
<1>2. ASSUME NEW c \in Nat, NEW f \in Nat
      PROVE  /\ KeepN + 1 + c * Cardinality(Procs) + f \in Nat
             /\ KeepN + 1 <= KeepN + 1 + c * Cardinality(Procs) + f
  <2>1. c * Cardinality(Procs) \in Nat
    BY <1>1
  <2>2. QED
    BY <1>1, <2>1
<1>3. QED
  BY <1>1, <1>2 DEF Allowance, TypeOK

(* The sets counted are finite. *)
LEMMA CountedIs ==
    ASSUME IsFiniteSet(versions), NEW a, NEW q, NEW done
    PROVE  IsFiniteSet(Kept(a, q, done)) /\ IsFiniteSet(Publishing(a, q) \ done)
<1>1. Kept(a, q, done) \subseteq versions
  BY DEF Kept, RowsOf
<1>2. Publishing(a, q) \ done \subseteq Procs
  BY DEF Publishing
<1>3. QED
  BY <1>1, <1>2, FS_Subset, ProcsAssumption

(* Each of them allows for more versions. *)
LEMMA AllowanceGrows ==
    ASSUME TypeOK
    PROVE  /\ crashes' = crashes /\ faults' = faults => Allowance' = Allowance
           /\ crashes' = crashes /\ faults' = faults + 1 => Allowance' = Allowance + 1
           /\ crashes' = crashes + 1 /\ faults' = faults =>
                Allowance' = Allowance + Cardinality(Procs)
<1>1. Cardinality(Procs) \in Nat /\ KeepN \in Nat
  BY AllowanceIs
<1>2. crashes \in Nat /\ faults \in Nat
  BY DEF TypeOK
<1>3. (crashes + 1) * Cardinality(Procs) = crashes * Cardinality(Procs) + Cardinality(Procs)
  BY <1>1, <1>2
<1> DEFINE c == crashes * Cardinality(Procs)
<1>4. c \in Nat
  BY <1>1, <1>2
<1>5. Allowance = KeepN + 1 + c + faults
  BY DEF Allowance
<1>6. crashes' = crashes => Allowance' = KeepN + 1 + c + faults'
  BY DEF Allowance
<1>7. crashes' = crashes + 1 => Allowance' = KeepN + 1 + (c + Cardinality(Procs)) + faults'
  BY <1>3 DEF Allowance
<1> HIDE DEF c
<1>8. QED
  BY <1>1, <1>2, <1>4, <1>5, <1>6, <1>7

(* Retained, from the bound for another set of requests a step earlier *)
LEMMA RetainedBy ==
    ASSUME TypeOK, TypeOK', IsFiniteSet(versions), Allowance <= Allowance',
           NEW a, NEW q, NEW done, NEW next, Retained(a, q, done),
           NEW e, Kept(a, q, next)' \subseteq Kept(a, q, done) \cup {e},
           NEW p, Publishing(a, q) \ done \subseteq (Publishing(a, q)' \ next) \cup {p},
           \/ /\ Kept(a, q, next)' \subseteq Kept(a, q, done)
              /\ Publishing(a, q) \ done \subseteq Publishing(a, q)' \ next
           \/ /\ Allowance + 1 <= Allowance'
              /\ \/ Kept(a, q, next)' \subseteq Kept(a, q, done)
                 \/ Publishing(a, q) \ done \subseteq Publishing(a, q)' \ next
           \/ /\ p \in Publishing(a, q)' \ next
              /\ Publishing(a, q) \ done \subseteq (Publishing(a, q)' \ next) \ {p}
    PROVE  Retained(a, q, next)'
<1> DEFINE R == Kept(a, q, done)
           T == Kept(a, q, next)'
           B == Publishing(a, q) \ done
           C == Publishing(a, q)' \ next
<1>1. Allowance \in Nat /\ Allowance' \in Nat
  BY AllowanceIs
<1>2. IsFiniteSet(R) /\ IsFiniteSet(C)
  <2>1. C \subseteq Procs
    BY DEF Publishing
  <2>2. QED
    BY <2>1, CountedIs, FS_Subset, ProcsAssumption
<1>3. Cardinality(R) <= Allowance + Cardinality(B)
  BY DEF Retained
<1>4. (Retained(a, q, next))' <=> Cardinality(T) <= Allowance' + Cardinality(C)
  BY DEF Retained
<1> HIDE DEF R, T, B, C
<1>5. Cardinality(T) <= Allowance' + Cardinality(C)
  BY <1>1, <1>2, <1>3, Fits DEF R, T, B, C
<1>6. QED
  BY <1>4, <1>5

(* where no version and no request is added, *)
LEMMA RetainedStill ==
    ASSUME TypeOK, TypeOK', IsFiniteSet(versions), Allowance <= Allowance',
           NEW a, NEW q, NEW done, NEW next, Retained(a, q, done),
           Kept(a, q, next)' \subseteq Kept(a, q, done),
           Publishing(a, q) \ done \subseteq Publishing(a, q)' \ next
    PROVE  Retained(a, q, next)'
<1>1. /\ Kept(a, q, next)' \subseteq Kept(a, q, done) \cup {0}
      /\ Publishing(a, q) \ done \subseteq (Publishing(a, q)' \ next) \cup {0}
  OBVIOUS
<1>2. QED
  BY <1>1, RetainedBy

(* where an error leaves one that should be gone, *)
LEMMA RetainedOneMore ==
    ASSUME TypeOK, TypeOK', IsFiniteSet(versions), Allowance + 1 <= Allowance',
           NEW a, NEW q, NEW done, NEW next, Retained(a, q, done),
           NEW e, Kept(a, q, next)' \subseteq Kept(a, q, done) \cup {e},
           Publishing(a, q) \ done \subseteq Publishing(a, q)' \ next
    PROVE  Retained(a, q, next)'
<1>1. Publishing(a, q) \ done \subseteq (Publishing(a, q)' \ next) \cup {0}
  OBVIOUS
<1>2. Allowance <= Allowance'
  BY AllowanceIs
<1>3. QED
  BY <1>1, <1>2, RetainedBy

(* and where few enough rows are left *)
LEMMA FewEnough ==
    ASSUME TypeOK', NEW a, NEW q, NEW done, NEW R, IsFiniteSet(R),
           Cardinality(R) <= KeepN + 1, Kept(a, q, done)' \subseteq R
    PROVE  Retained(a, q, done)'
<1> DEFINE T == Kept(a, q, done)'
           C == Publishing(a, q)' \ done
<1>1. IsFiniteSet(C)
  <2>1. C \subseteq Procs
    BY DEF Publishing
  <2>2. QED
    BY <2>1, FS_Subset, ProcsAssumption
<1>2. IsFiniteSet(T) /\ Cardinality(T) <= Cardinality(R)
  <2>1. T \in SUBSET R
    OBVIOUS
  <2> HIDE DEF T
  <2>2. QED
    BY <2>1, FS_Subset
<1>3. Cardinality(T) \in Nat /\ Cardinality(R) \in Nat /\ Cardinality(C) \in Nat
  BY <1>1, <1>2, FS_CardinalityType
<1>4. Allowance' \in Nat /\ KeepN + 1 <= Allowance' /\ KeepN \in Nat
  BY AllowanceIs
<1>5. (Retained(a, q, done))' <=> Cardinality(T) <= Allowance' + Cardinality(C)
  BY DEF Retained
<1> HIDE DEF T, C
<1>6. QED
  BY <1>2, <1>3, <1>4, <1>5

(* Which requests publish and prune, where others take the step *)
LEMMA OthersPublish ==
    ASSUME TypeOK, NEW p \in Procs, Step(p) \/ Request(p)
    PROVE  /\ \A z \in Procs \ {p} :
                /\ Left(z)' = Left(z) /\ (z \in Pruners' <=> z \in Pruners)
                /\ \A a, q : z \in Publishing(a, q)' <=> z \in Publishing(a, q)
           /\ Pruners \subseteq Procs /\ Pruners' \subseteq Procs
           /\ \A a, q : Publishing(a, q) \subseteq Procs
<1>1. \A z \in Procs \ {p} : pc'[z] = pc[z] /\ job'[z] = job[z]
  BY OthersStand
<1>2. QED
  BY <1>1 DEF Left, Pruners, Publishing

(* The steps between the INSERT and the end of pruning *)
Pruning(p) ==
    \/ UploadPromote(p) \/ UploadBundle(p) \/ PruneRead(p) \/ PruneSkip(p)
    \/ PruneList(p) \/ PruneFiles(p) \/ PruneRow(p)

(* Every other step is of a request that neither publishes nor prunes. *)
LEMMA RestOf ==
    ASSUME TypeOK, NEW p \in Procs, Step(p) \/ Request(p), ~Pruning(p)
    PROVE  /\ \A a, q : p \notin Publishing(a, q)
           /\ pc'[p] \notin PruneLabels
<1> USE DEF Pruning, Finish
<1>1. pc[p] \notin {"promote", "bundle", "pruneRead", "pruneList", "prune", "pruneRow"}
  <2>1. CASE Step(p)
    BY <2>1 DEF Step, UploadEnd, UploadPart, UploadReject, UploadMove, UploadInsert,
       UploadInsertFails, UploadUndo, DeleteReadApp, DeleteClear, DeleteFiles, DeleteRow,
       PinWrite, AppDeleteFiles, AppDeleteRow, DownloadOpen
  <2>2. CASE Request(p)
    BY <2>2 DEF Request, AppCreate, UploadBegin, AppDeleteList, DeleteBegin, PinBegin,
       DownloadRead, Start
  <2>3. QED
    BY <2>1, <2>2
<1> DEFINE Elsewhere == {"idle", "parts", "stream", "insert", "undo", "promote", "delApp",
                         "clear", "delFiles", "delRow", "pin", "appFiles", "open"}
<1>2. pc'[p] = pc[p] \/ pc'[p] \in Elsewhere
  <2>1. CASE Step(p)
    <3>1. ASSUME NEW b \in Builds, UploadPart(p, b)
          PROVE  Goto(p, "stream")
      BY <3>1 DEF UploadPart
    <3>2. CASE DeleteReadApp(p)
      BY <3>2, GoesTo DEF DeleteReadApp
    <3>3. CASE AppDeleteFiles(p)
      BY <3>3 DEF AppDeleteFiles
    <3>4. CASE \/ UploadMove(p) \/ UploadInsert(p) \/ UploadInsertFails(p)
               \/ DeleteClear(p) \/ DeleteFiles(p)
      <4>1. \/ Goto(p, "insert") \/ Goto(p, "promote") \/ Goto(p, "undo")
            \/ Goto(p, "delFiles") \/ Goto(p, "delRow")
        BY <3>4 DEF UploadMove, UploadInsert, UploadInsertFails, DeleteClear, DeleteFiles
      <4>2. QED
        BY <4>1, GoesTo
    <3>5. CASE \/ UploadEnd(p) \/ UploadReject(p) \/ UploadUndo(p) \/ DeleteRow(p)
               \/ PinWrite(p) \/ AppDeleteRow(p) \/ DownloadOpen(p)
      BY <3>5, GoesTo DEF UploadEnd, UploadReject, UploadUndo, DeleteRow, PinWrite,
         AppDeleteRow, DownloadOpen
    <3>6. QED
      BY <2>1, <3>1, <3>2, <3>3, <3>4, <3>5, GoesTo DEF Step
  <2>2. CASE Request(p)
    <3>1. \/ UNCHANGED pc \/ Goto(p, "parts") \/ Goto(p, "appFiles")
          \/ Goto(p, "delApp") \/ Goto(p, "pin") \/ Goto(p, "open")
      BY <2>2 DEF Request, AppCreate, UploadBegin, AppDeleteList, DeleteBegin, PinBegin,
           DownloadRead
    <3>2. QED
      BY <3>1, GoesTo
  <2>3. QED
    BY <2>1, <2>2
<1>3. QED
  BY <1>1, <1>2 DEF Publishing, PruneLabels

(* A step that adds no version, and after which its request counts as it   *)
(* did                                                                     *)
LEMMA QuietKeeps ==
    ASSUME TypeOK, TypeOK', IsFiniteSet(versions), NEW p \in Procs, Step(p) \/ Request(p),
           NEW a, NEW q, \A done \in SUBSET Pruners : Retained(a, q, done),
           NEW next \in SUBSET Pruners', RowsOf(a, q)' \subseteq RowsOf(a, q),
           p \in Publishing(a, q) => p \in Publishing(a, q)',
           p \in next => p \in Pruners /\ Left(p) \cap versions' \subseteq Left(p)'
    PROVE  Retained(a, q, next)'
<1>1. next \subseteq Pruners
  BY OthersPublish
<1>2. Kept(a, q, next)' \subseteq Kept(a, q, next)
  BY OthersPublish DEF Kept, RowsOf
<1>3. Publishing(a, q) \ next \subseteq Publishing(a, q)' \ next
  BY OthersPublish
<1>4. Allowance <= Allowance'
  BY BudgetGrows, AllowanceGrows, AllowanceIs
<1>5. QED
  BY <1>1, <1>2, <1>3, <1>4, RetainedStill

(* An INSERT adds one version, and one request that has still to prune. *)
LEMMA InsertKeeps ==
    ASSUME TypeOK, TypeOK', Carried, IsFiniteSet(versions), NEW p \in Procs, UploadInsert(p),
           NEW a, NEW q, \A done \in SUBSET Pruners : Retained(a, q, done),
           NEW next \in SUBSET Pruners'
    PROVE  Retained(a, q, next)'
<1> DEFINE r == [job[p].row EXCEPT !.id = NextVid, !.at = clock]
           j == [job[p] EXCEPT !.row = r]
<1>0. Step(p)
  BY DEF Step
<1>1. r.app = job[p].row.app /\ r.build = job[p].row.build
  BY JobFields DEF Row
<1>2. versions' = versions \cup {r} /\ Keep(p, j) /\ Goto(p, "promote") /\ pc[p] = "insert"
  BY DEF UploadInsert
<1> HIDE DEF r
<1>3. j.app = job[p].app /\ j.row = r
  BY JobFields DEF Job
<1> HIDE DEF j
<1>4. /\ pc'[p] = "promote" /\ job'[p].app = job[p].row.app /\ job'[p].row = r
      /\ p \notin Publishing(a, q) /\ p \notin Pruners'
  <2>1. job[p].row.app = job[p].app
    BY <1>2 DEF Carried, CarriesRow, Receiving
  <2>2. QED
    BY <1>2, <1>3, <2>1, GoesTo DEF Publishing, Pruners, PruneLabels
<1>5. CASE r.app = a /\ r.build.plat = q
  <2>1. next \in SUBSET Pruners
    BY <1>0, <1>4, OthersPublish
  <2>2. Kept(a, q, next)' \subseteq Kept(a, q, next) \cup {r}
    BY <1>0, <1>2, <1>4, OthersPublish DEF Kept, RowsOf
  <2>3. p \in Publishing(a, q)' \ next
    BY <1>1, <1>4, <1>5 DEF Publishing
  <2>4. Publishing(a, q) \ next \subseteq (Publishing(a, q)' \ next) \ {p}
    BY <1>0, <1>4, OthersPublish
  <2>5. Allowance <= Allowance'
    BY <1>0, BudgetGrows, AllowanceGrows, AllowanceIs
  <2>6. QED
    BY <2>1, <2>2, <2>3, <2>4, <2>5, RetainedBy
<1>6. CASE ~(r.app = a /\ r.build.plat = q)
  <2>1. RowsOf(a, q)' \subseteq RowsOf(a, q)
    BY <1>2, <1>6 DEF RowsOf
  <2>2. QED
    BY <1>0, <1>4, <2>1, QuietKeeps
<1>7. QED
  BY <1>5, <1>6

(* What a request holds once it has removed a file *)
LEMMA RemoveLocals ==
    ASSUME TypeOK, NEW p \in Procs, NEW r, NEW rest, RemoveFileOf(p, r, rest)
    PROVE  job'[p].app = job[p].app /\ job'[p].row = r /\ job'[p].todo = rest
<1>1. \E g : Keep(p, [job[p] EXCEPT !.row = r, !.todo = rest, !.gone = g])
  BY DEF RemoveFileOf
<1>2. QED
  BY <1>1, JobFields DEF Keep, Job, TypeOK

(* A request prunes builds of its own app and platform. *)
LEMMA OwnStays ==
    ASSUME TypeOK, NEW p \in Procs, PrunesOwn(p), Pruning(p)
    PROVE  PrunesOwn(p)'
<1>1. CASE UploadPromote(p) \/ UploadBundle(p) \/ PruneRead(p) \/ PruneSkip(p)
  <2>1. pc'[p] \in {"bundle", "pruneRead", "pruneList", "parts"}
    BY <1>1, GoesTo DEF UploadPromote, UploadBundle, PruneRead, PruneSkip, NextPart
  <2>2. QED
    BY <2>1 DEF PrunesOwn, PruneLabels
<1>2. CASE PruneList(p)
  <2>1. PICK D \in ListVersionsToPrune(job[p].app, job[p].row.build.plat, job[p].cur) :
          IF D = {} THEN NextPart(p)
                    ELSE Goto(p, "prune") /\ Keep(p, [job[p] EXCEPT !.todo = D])
    BY <1>2 DEF PruneList
  <2>2. \A r \in D : r.app = job[p].app /\ r.build.plat = job[p].row.build.plat
    BY DEF ListVersionsToPrune, AfterNewest
  <2>3. \/ pc'[p] = "parts"
        \/ /\ job'[p].todo = D
           /\ job'[p].app = job[p].app /\ job'[p].row = job[p].row
    BY <2>1, GoesTo, JobFields DEF NextPart, Keep, Job, TypeOK
  <2>4. QED
    BY <2>2, <2>3 DEF PrunesOwn, PruneLabels
<1>3. CASE PruneFiles(p)
  <2>1. PICK r \in job[p].todo : RemoveFileOf(p, r, job[p].todo \ {r})
    BY <1>3 DEF PruneFiles
  <2>2. \A x \in job[p].todo : x.app = job[p].app /\ x.build.plat = job[p].row.build.plat
    BY <1>3 DEF PruneFiles, PrunesOwn, PruneLabels
  <2>3. QED
    BY <2>1, <2>2, RemoveLocals DEF PrunesOwn
<1>4. CASE PruneRow(p)
  <2>1. \/ pc'[p] = "parts"
        \/ /\ job'[p].todo = job[p].todo
           /\ job'[p].app = job[p].app /\ job'[p].row = job[p].row
    BY <1>4, GoesTo, JobFields DEF PruneRow, NextPart, Keep, Job, TypeOK
  <2>2. pc[p] \in PruneLabels
    BY <1>4 DEF PruneRow, PruneLabels
  <2>3. QED
    BY <2>1, <2>2 DEF PrunesOwn, PruneLabels
<1>5. QED
  BY <1>1, <1>2, <1>3, <1>4 DEF Pruning

(* Until pruning has listed what to delete, an upload counts as before;    *)
(* removing a file changes nothing either.                                 *)
LEMMA OnItsWay ==
    ASSUME TypeOK, TypeOK', IsFiniteSet(versions), NEW p \in Procs, PrunesOwn(p),
           UploadPromote(p) \/ UploadBundle(p) \/ PruneRead(p) \/ PruneFiles(p),
           NEW a, NEW q, \A done \in SUBSET Pruners : Retained(a, q, done),
           NEW next \in SUBSET Pruners'
    PROVE  Retained(a, q, next)'
<1> USE DEF durable
<1>0. Step(p) /\ versions' = versions
  BY DEF Step, UploadPromote, UploadBundle, PruneRead, PruneFiles
<1>1. RowsOf(a, q)' = RowsOf(a, q)
  BY <1>0 DEF RowsOf
<1>2. CASE UploadPromote(p) \/ UploadBundle(p) \/ PruneRead(p)
  <2>1. /\ pc[p] \in {"promote", "bundle", "pruneRead"}
        /\ pc'[p] \in {"bundle", "pruneRead", "pruneList"}
    BY <1>2, GoesTo DEF UploadPromote, UploadBundle, PruneRead
  <2>2. job'[p].app = job[p].app /\ job'[p].row = job[p].row
    <3>1. CASE UploadPromote(p) \/ UploadBundle(p)
      BY <3>1 DEF UploadPromote, UploadBundle
    <3>2. ASSUME NEW v, Keep(p, [job[p] EXCEPT !.cur = v])
          PROVE  job'[p].app = job[p].app /\ job'[p].row = job[p].row
      BY <3>2, JobFields DEF Keep, Job, TypeOK
    <3>3. QED
      BY <1>2, <3>1, <3>2 DEF PruneRead
  <2>3. p \notin Pruners'
    BY <2>1 DEF Pruners, PruneLabels
  <2>4. p \in Publishing(a, q) => p \in Publishing(a, q)'
    BY <2>1, <2>2 DEF Publishing
  <2>5. QED
    BY <1>0, <1>1, <2>3, <2>4, QuietKeeps
<1>3. CASE PruneFiles(p)
  <2>1. pc[p] = "prune" /\ pc'[p] = "pruneRow"
    BY <1>3, GoesTo DEF PruneFiles
  <2>2. PICK r \in job[p].todo : RemoveFileOf(p, r, job[p].todo \ {r})
    BY <1>3 DEF PruneFiles
  <2>3. job'[p].app = job[p].app /\ job'[p].row = r /\ job'[p].todo = job[p].todo \ {r}
    BY <2>2, RemoveLocals
  <2>4. \A x \in job[p].todo : x.build.plat = job[p].row.build.plat
    BY <2>1 DEF PrunesOwn, PruneLabels
  <2>5. p \in Pruners /\ Left(p) = job[p].todo /\ Left(p)' = job[p].todo
    BY <2>1, <2>3 DEF Pruners, PruneLabels, Left
  <2>6. p \in Publishing(a, q) => p \in Publishing(a, q)'
    BY <2>1, <2>3, <2>4 DEF Publishing, PruneLabels
  <2>7. QED
    BY <1>0, <1>1, <2>5, <2>6, QuietKeeps
<1>4. QED
  BY <1>2, <1>3

(* An upload that skips pruning lost its app, and the versions with it, or *)
(* ignores an error.                                                       *)
LEMMA SkipKeeps ==
    ASSUME TypeOK, TypeOK', ForeignKey, IsFiniteSet(versions), NEW p \in Procs, PruneSkip(p),
           NEW a, NEW q, \A done \in SUBSET Pruners : Retained(a, q, done),
           NEW next \in SUBSET Pruners'
    PROVE  Retained(a, q, next)'
<1> USE DEF durable
<1>0. Step(p) /\ versions' = versions /\ crashes' = crashes
  BY DEF Step, PruneSkip
<1>1. pc'[p] = "parts"
  BY GoesTo DEF PruneSkip, NextPart
<1>2. p \notin Pruners'
  BY <1>1 DEF Pruners, PruneLabels
<1>3. CASE p \notin Publishing(a, q)
  <2>1. RowsOf(a, q)' \subseteq RowsOf(a, q)
    BY <1>0 DEF RowsOf
  <2>2. QED
    BY <1>0, <1>2, <1>3, <2>1, QuietKeeps
<1>4. CASE p \in Publishing(a, q) /\ ~AppExists(job[p].app)
  <2>1. job[p].app = a
    BY <1>4 DEF Publishing
  <2>2. RowsOf(a, q)' = {}
    BY <1>0, <1>4, <2>1 DEF RowsOf, ForeignKey
  <2>3. Kept(a, q, next)' \subseteq {}
    BY <2>2 DEF Kept
  <2>4. IsFiniteSet({}) /\ Cardinality({}) <= KeepN + 1
    BY FS_EmptySet, AllowanceIs
  <2>5. QED
    BY <2>3, <2>4, FewEnough
<1>5. CASE p \in Publishing(a, q) /\ AppExists(job[p].app)
  <2>1. Fault
    BY <1>5 DEF PruneSkip
  <2>2. Allowance + 1 <= Allowance' /\ Allowance <= Allowance'
    BY <1>0, <2>1, AllowanceGrows, AllowanceIs DEF Fault
  <2>3. next \in SUBSET Pruners
    BY <1>0, <1>2, OthersPublish
  <2>4. Kept(a, q, next)' \subseteq Kept(a, q, next)
    BY <1>0, <1>2, OthersPublish DEF Kept, RowsOf
  <2>5. Publishing(a, q) \ next \subseteq (Publishing(a, q)' \ next) \cup {p}
    BY <1>0, OthersPublish
  <2>6. QED
    BY <2>2, <2>3, <2>4, <2>5, RetainedBy
<1>6. QED
  BY <1>3, <1>4, <1>5

(* What ListVersionsToPrune leaves: KeepN versions and the current one *)
LEMMA ListLeaves ==
    ASSUME IsFiniteSet(versions), OneOwner, NEW a, NEW q, NEW cur,
           NEW D \in ListVersionsToPrune(a, q, cur)
    PROVE  /\ D \subseteq RowsOf(a, q)
           /\ IsFiniteSet(RowsOf(a, q) \ D) /\ Cardinality(RowsOf(a, q) \ D) <= KeepN + 1
<1> DEFINE T == {r \in versions : r.app = a /\ r.build.plat = q /\ r.id # cur}
           C == {r \in RowsOf(a, q) : r.id = cur}
<1>1. T \subseteq versions /\ T \subseteq RowsOf(a, q) /\ RowsOf(a, q) = T \cup C
  BY DEF RowsOf
<1>2. /\ D \subseteq T
      /\ Cardinality(D) = IF Cardinality(T) <= KeepN THEN 0 ELSE Cardinality(T) - KeepN
  BY DEF ListVersionsToPrune, AfterNewest
<1>3. \A r, s \in C : r = s
  <2> SUFFICES ASSUME NEW r \in C, NEW s \in C PROVE r = s
    OBVIOUS
  <2>1. r \in Rows /\ s \in Rows /\ r.id = s.id
    BY DEF RowsOf, Rows
  <2>2. QED
    BY <2>1 DEF OneOwner
<1> HIDE DEF T, C
<1>4. /\ IsFiniteSet(T) /\ IsFiniteSet(T \ D) /\ IsFiniteSet(RowsOf(a, q) \ D)
      /\ Cardinality(T \ D) = Cardinality(T) - Cardinality(T \cap D)
      /\ Cardinality(T \ D) <= Cardinality(T)
  <2>1. IsFiniteSet(T) /\ IsFiniteSet(RowsOf(a, q))
    BY <1>1, FS_Subset DEF RowsOf
  <2>2. IsFiniteSet(T \ D) /\ Cardinality(T \ D) = Cardinality(T) - Cardinality(T \cap D)
    BY <2>1, FS_Difference
  <2>3. Cardinality(T \ D) <= Cardinality(T) /\ IsFiniteSet(RowsOf(a, q) \ D)
    BY <2>1, FS_Subset
  <2>4. QED
    BY <2>1, <2>2, <2>3
<1>5. Cardinality(T \ D) \in Nat /\ Cardinality(T) \in Nat /\ Cardinality(T \ D) <= KeepN
  <2>1. Cardinality(T \ D) \in Nat /\ Cardinality(T) \in Nat
    BY <1>4, FS_CardinalityType
  <2>2. Cardinality(T \cap D) = Cardinality(D)
    <3>1. T \cap D = D
      BY <1>2
    <3>2. QED
      BY <3>1
  <2>3. KeepN \in Nat /\ Cardinality(T \ D) = Cardinality(T) - Cardinality(D)
    BY <1>4, <2>2, AllowanceIs
  <2>4. QED
    BY <1>2, <1>4, <2>1, <2>3
<1>6. Cardinality(RowsOf(a, q) \ D) <= Cardinality(T \ D) + 1
  <2>1. PICK c : RowsOf(a, q) \ D \subseteq (T \ D) \cup {c}
    BY <1>1, <1>3
  <2>2. IsFiniteSet((T \ D) \cup {c})
        /\ Cardinality((T \ D) \cup {c})
             = IF c \in T \ D THEN Cardinality(T \ D) ELSE Cardinality(T \ D) + 1
    BY <1>4, FS_AddElement
  <2>3. Cardinality(RowsOf(a, q) \ D) <= Cardinality((T \ D) \cup {c})
    BY <2>1, <2>2, FS_Subset
  <2>4. Cardinality(RowsOf(a, q) \ D) \in Nat
    BY <1>4, FS_CardinalityType
  <2>5. QED
    BY <1>5, <2>2, <2>3, <2>4
<1>7. QED
  <2>1. Cardinality(RowsOf(a, q) \ D) \in Nat
    BY <1>4, FS_CardinalityType
  <2>2. QED
    BY <1>1, <1>2, <1>4, <1>5, <1>6, <2>1, AllowanceIs

(* Once it has listed what to delete, an upload accounts for it.           *)
LEMMA ListKeeps ==
    ASSUME TypeOK, TypeOK', OneOwner, IsFiniteSet(versions), NEW p \in Procs, PruneList(p),
           NEW a, NEW q, \A done \in SUBSET Pruners : Retained(a, q, done),
           NEW next \in SUBSET Pruners'
    PROVE  Retained(a, q, next)'
<1> USE DEF durable, budget
<1>0. Step(p) /\ versions' = versions /\ UNCHANGED <<crashes, faults>>
  BY DEF Step, PruneList
<1>1. PICK D \in ListVersionsToPrune(job[p].app, job[p].row.build.plat, job[p].cur) :
        IF D = {} THEN NextPart(p)
                  ELSE Goto(p, "prune") /\ Keep(p, [job[p] EXCEPT !.todo = D])
  BY DEF PruneList
<1> DEFINE own == job[p].app = a /\ job[p].row.build.plat = q
<1>2. /\ pc[p] = "pruneList" /\ p \notin Pruners
      /\ p \in Publishing(a, q) <=> own
  BY DEF PruneList, Pruners, PruneLabels, Publishing
<1>3. /\ D = {} => pc'[p] = "parts"
      /\ D # {} => /\ pc'[p] = "prune" /\ job'[p].todo = D
                   /\ job'[p].app = job[p].app /\ job'[p].row = job[p].row
  BY <1>1, GoesTo, JobFields DEF NextPart, Keep, Job, TypeOK
<1>4. /\ p \in Pruners' <=> D # {}
      /\ p \in Publishing(a, q)' <=> own /\ D # {}
      /\ D # {} => D \subseteq Left(p)'
  BY <1>3 DEF Pruners, PruneLabels, Publishing, Left
<1>5. D \subseteq RowsOf(job[p].app, job[p].row.build.plat)
      /\ IsFiniteSet(RowsOf(job[p].app, job[p].row.build.plat) \ D)
      /\ Cardinality(RowsOf(job[p].app, job[p].row.build.plat) \ D) <= KeepN + 1
  BY ListLeaves
<1>6. CASE own /\ (D = {} \/ p \in next)
  <2>1. RowsOf(a, q)' = RowsOf(a, q)
    BY <1>0 DEF RowsOf
  <2>2. Kept(a, q, next)' \subseteq RowsOf(a, q) \ D
    BY <1>4, <1>6, <2>1 DEF Kept
  <2>3. QED
    BY <1>5, <1>6, <2>2, FewEnough
<1>7. CASE p \notin next /\ (own => D # {})
  <2>1. RowsOf(a, q)' \subseteq RowsOf(a, q)
    BY <1>0 DEF RowsOf
  <2>2. QED
    BY <1>0, <1>2, <1>4, <1>7, <2>1, QuietKeeps
<1>8. CASE p \in next /\ ~own
  <2>1. next \ {p} \in SUBSET Pruners
    BY <1>0, OthersPublish
  <2>2. Kept(a, q, next)' \subseteq Kept(a, q, next \ {p})
    BY <1>0, OthersPublish DEF Kept, RowsOf
  <2>3. Publishing(a, q) \ (next \ {p}) \subseteq Publishing(a, q)' \ next
    BY <1>0, <1>2, <1>8, OthersPublish
  <2>4. Allowance <= Allowance'
    BY <1>0, AllowanceGrows, AllowanceIs
  <2>5. QED
    BY <2>1, <2>2, <2>3, <2>4, RetainedStill
<1>9. QED
  BY <1>6, <1>7, <1>8

(* A pruned version is gone, or an error is ignored; the upload ends with  *)
(* the last one.                                                           *)
LEMMA RowKeeps ==
    ASSUME TypeOK, TypeOK', IsFiniteSet(versions), NEW p \in Procs, PruneRow(p),
           NEW a, NEW q, \A done \in SUBSET Pruners : Retained(a, q, done),
           NEW next \in SUBSET Pruners'
    PROVE  Retained(a, q, next)'
<1>0. Step(p) /\ pc[p] = "pruneRow" /\ crashes' = crashes
  BY DEF Step, PruneRow
<1>1. p \in Pruners /\ Left(p) = job[p].todo \cup {job[p].row}
  BY <1>0 DEF Pruners, PruneLabels, Left
<1>2. /\ versions' \subseteq versions /\ Allowance <= Allowance'
      /\ job[p].row \notin versions' \/ Allowance + 1 <= Allowance'
  <2>1. CASE DeleteVersion(job[p].row.id) /\ NoFault
    BY <1>0, <2>1, AllowanceGrows, AllowanceIs DEF DeleteVersion, NoFault
  <2>2. CASE UNCHANGED versions /\ Fault
    BY <1>0, <2>2, AllowanceGrows, AllowanceIs DEF Fault
  <2>3. QED
    BY <2>1, <2>2 DEF PruneRow
<1>3. CASE job[p].todo = {}
  <2>1. pc'[p] = "parts"
    BY <1>3, GoesTo DEF PruneRow, NextPart
  <2>2. p \notin Pruners'
    BY <2>1 DEF Pruners, PruneLabels
  <2>3. PICK old \in SUBSET Pruners : old = next \cup {p}
    <3>1. next \cup {p} \in SUBSET Pruners
      BY <1>0, <1>1, <2>2, OthersPublish
    <3>2. QED
      BY <3>1
  <2>4. /\ Kept(a, q, next)' \subseteq Kept(a, q, old) \cup {job[p].row}
        /\ job[p].row \notin versions' => Kept(a, q, next)' \subseteq Kept(a, q, old)
    <3>1. Left(p) \subseteq {job[p].row}
      BY <1>1, <1>3
    <3>2. \A z \in next : z \in Procs \ {p}
      BY <1>0, <2>2, OthersPublish
    <3>3. \A z \in next : Left(z)' = Left(z)
      BY <1>0, <3>2, OthersPublish
    <3> SUFFICES ASSUME NEW r \in Kept(a, q, next)', r # job[p].row
                 PROVE  r \in Kept(a, q, old)
      BY DEF Kept, RowsOf
    <3>4. r \in RowsOf(a, q) /\ \A z \in next : r \notin Left(z)
      BY <1>2, <3>3 DEF Kept, RowsOf
    <3>5. QED
      BY <2>3, <3>1, <3>4 DEF Kept
  <2>5. Publishing(a, q) \ old \subseteq Publishing(a, q)' \ next
    BY <1>0, <2>3, OthersPublish
  <2>6. Retained(a, q, old)
    BY <2>3
  <2>7. CASE job[p].row \notin versions'
    BY <1>2, <2>4, <2>5, <2>6, <2>7, RetainedStill
  <2>8. CASE Allowance + 1 <= Allowance'
    BY <2>4, <2>5, <2>6, <2>8, RetainedOneMore
  <2>9. QED
    BY <1>2, <2>7, <2>8
<1>4. CASE job[p].todo # {}
  <2>1. /\ pc'[p] = "prune" /\ job'[p].todo = job[p].todo
        /\ job'[p].app = job[p].app /\ job'[p].row = job[p].row
    <3>1. Goto(p, "prune") /\ Keep(p, [job[p] EXCEPT !.gone = {}])
      BY <1>4 DEF PruneRow
    <3>2. QED
      BY <3>1, GoesTo, JobFields DEF Keep, Job, TypeOK
  <2>2. /\ Left(p)' = job[p].todo
        /\ p \in Publishing(a, q) => p \in Publishing(a, q)'
    BY <1>0, <2>1 DEF Left, Publishing, PruneLabels
  <2>3. next \in SUBSET Pruners
    BY <1>0, <1>1, OthersPublish
  <2>4. /\ Kept(a, q, next)' \subseteq Kept(a, q, next) \cup {job[p].row}
        /\ job[p].row \notin versions' => Kept(a, q, next)' \subseteq Kept(a, q, next)
    <3>1. \A z \in next : Left(z) \subseteq Left(z)' \cup {job[p].row}
      BY <1>0, <1>1, <2>2, <2>3, OthersPublish
    <3>2. QED
      BY <1>2, <3>1 DEF Kept, RowsOf
  <2>5. Publishing(a, q) \ next \subseteq Publishing(a, q)' \ next
    BY <1>0, <2>2, OthersPublish
  <2>6. CASE job[p].row \notin versions'
    BY <1>2, <2>3, <2>4, <2>5, <2>6, RetainedStill
  <2>7. CASE Allowance + 1 <= Allowance'
    BY <2>3, <2>4, <2>5, <2>7, RetainedOneMore
  <2>8. QED
    BY <1>2, <2>6, <2>7
<1>5. QED
  BY <1>3, <1>4

(* A kill loses every request that has still to prune, and no more.        *)
LEMMA CrashKeeps ==
    ASSUME TypeOK, IsFiniteSet(versions), Crash,
           NEW a, NEW q, \A done \in SUBSET Pruners : Retained(a, q, done),
           NEW next \in SUBSET Pruners'
    PROVE  Retained(a, q, next)'
<1> USE DEF durable
<1>1. versions' = versions /\ crashes' = crashes + 1 /\ faults' = faults
  BY DEF Crash
<1>2. \A p \in Procs : pc'[p] = "idle"
  BY DEF Crash
<1>3. next = {} /\ Publishing(a, q)' = {}
  BY <1>2 DEF Pruners, PruneLabels, Publishing
<1>4. Kept(a, q, next)' = Kept(a, q, {})
  BY <1>1, <1>3 DEF Kept, RowsOf
<1>5. /\ IsFiniteSet(Publishing(a, q)) /\ IsFiniteSet(Publishing(a, q) \ {})
      /\ Cardinality(Publishing(a, q)) <= Cardinality(Procs)
      /\ Publishing(a, q) \ {} = Publishing(a, q)
  <2>1. Publishing(a, q) \subseteq Procs /\ Publishing(a, q) \ {} = Publishing(a, q)
    BY DEF Publishing
  <2>2. QED
    BY <2>1, FS_Subset, ProcsAssumption
<1>6. Retained(a, q, {})
  OBVIOUS
<1>7. Cardinality(Kept(a, q, {})) <= Allowance + Cardinality(Publishing(a, q))
  BY <1>5, <1>6 DEF Retained
<1>8. /\ Cardinality(Kept(a, q, {})) \in Nat /\ Cardinality(Publishing(a, q)) \in Nat
      /\ Cardinality(Procs) \in Nat /\ Allowance \in Nat
      /\ Allowance' = Allowance + Cardinality(Procs)
  BY <1>1, <1>5, CountedIs, FS_CardinalityType, AllowanceIs, AllowanceGrows
<1>9. Cardinality(Kept(a, q, {})) <= Allowance' + 0
  BY <1>5, <1>7, <1>8
<1>10. (Publishing(a, q) \ next)' = {} /\ Cardinality({}) = 0
  BY <1>3, FS_EmptySet
<1>11. QED
  BY <1>4, <1>9, <1>10 DEF Retained

(* The rest of the environment deletes and publishes nothing. *)
LEMMA EnvironmentKeeps ==
    ASSUME TypeOK, TypeOK', IsFiniteSet(versions), Environment \/ UNCHANGED vars,
           NEW a, NEW q, \A done \in SUBSET Pruners : Retained(a, q, done),
           NEW next \in SUBSET Pruners'
    PROVE  Retained(a, q, next)'
<1> USE DEF durable, budget
<1>1. CASE ~Crash
  <2>1. /\ UNCHANGED <<pc, job, versions, crashes>>
        /\ faults' = faults \/ faults' = faults + 1
    BY <1>1 DEF Environment, Tick, Boot, OrphanScanEnd, OrphanRemove, ScanCutShort, Fault, vars
  <2>2. /\ Pruners' = Pruners /\ Publishing(a, q)' = Publishing(a, q)
        /\ Kept(a, q, next)' = Kept(a, q, next)
    BY <2>1 DEF Pruners, Publishing, Kept, RowsOf, Left
  <2>3. Allowance <= Allowance'
    BY <2>1, AllowanceGrows, AllowanceIs
  <2>4. Publishing(a, q) \ next \subseteq Publishing(a, q)' \ next
    BY <2>2
  <2>5. QED
    BY <2>2, <2>3, <2>4, RetainedStill
<1>2. QED
  BY <1>1, CrashKeeps

(* Every step keeps the bound of an app that exists.                       *)
LEMMA NextKeeps ==
    ASSUME RetentionIInv, TypeOK', [Next]_vars, NEW a, NEW q,
           \A done \in SUBSET Pruners : Retained(a, q, done), NEW next \in SUBSET Pruners'
    PROVE  Retained(a, q, next)'
<1>1. /\ TypeOK /\ Carried /\ OneOwner /\ ForeignKey /\ IsFiniteSet(versions)
      /\ \A p \in Procs : PrunesOwn(p)
  BY DEF RetentionIInv, FilesIInv, IInv
<1>2. ASSUME NEW p \in Procs, Step(p) \/ Request(p), ~Pruning(p), ~UploadInsert(p)
      PROVE  Retained(a, q, next)'
  <2>1. RowsOf(a, q)' \subseteq RowsOf(a, q)
    BY <1>1, <1>2, StepRows, BeginRows DEF RowsOf
  <2>2. p \notin Publishing(a, q) /\ p \notin Pruners'
    BY <1>1, <1>2, RestOf DEF Pruners
  <2>3. QED
    BY <1>1, <1>2, <2>1, <2>2, QuietKeeps
<1>3. ASSUME NEW p \in Procs, Pruning(p) \/ UploadInsert(p)
      PROVE  Retained(a, q, next)'
  BY <1>1, <1>3, OnItsWay, SkipKeeps, ListKeeps, RowKeeps, InsertKeeps DEF Pruning
<1>4. CASE Environment \/ UNCHANGED vars
  BY <1>1, <1>4, EnvironmentKeeps
<1>5. QED
  BY <1>2, <1>3, <1>4 DEF Next

(* A request prunes builds of its own app and platform. *)
LEMMA NextPrunesOwn ==
    ASSUME RetentionIInv, TypeOK', [Next]_vars, NEW p \in Procs
    PROVE  PrunesOwn(p)'
<1>1. /\ TypeOK /\ Carried /\ OneOwner /\ ForeignKey /\ IsFiniteSet(versions)
      /\ PrunesOwn(p)
  BY DEF RetentionIInv, FilesIInv, IInv
<1>2. ASSUME Step(p) \/ Request(p), ~Pruning(p)
      PROVE  PrunesOwn(p)'
  BY <1>1, <1>2, RestOf DEF PrunesOwn
<1>3. ASSUME Pruning(p)
      PROVE  PrunesOwn(p)'
  BY <1>1, <1>3, OwnStays
<1>4. ASSUME NEW z \in Procs \ {p}, Step(z) \/ Request(z)
      PROVE  PrunesOwn(p)'
  <2>1. pc'[p] = pc[p] /\ job'[p] = job[p]
    BY <1>1, <1>4, OthersStand
  <2>2. QED
    BY <1>1, <2>1 DEF PrunesOwn
<1>5. CASE Environment
  <2>1. pc'[p] = "idle" \/ (pc'[p] = pc[p] /\ job'[p] = job[p])
    BY <1>1, <1>5, EnvironmentRows
  <2>2. QED
    BY <1>1, <2>1 DEF PrunesOwn, PruneLabels
<1>6. CASE UNCHANGED vars
  BY <1>1, <1>6 DEF PrunesOwn, vars
<1>7. QED
  BY <1>2, <1>3, <1>4, <1>5, <1>6 DEF Next

(* There are finitely many versions. *)
LEMMA NextFinite ==
    ASSUME TypeOK, IsFiniteSet(versions), [Next]_vars
    PROVE  IsFiniteSet(versions')
<1>1. \E r : versions' \subseteq versions \cup {r}
  <2>1. ASSUME NEW p \in Procs, UploadInsert(p)
        PROVE  \E r : versions' \subseteq versions \cup {r}
    BY <2>1 DEF UploadInsert
  <2>2. ASSUME NEW p \in Procs, Step(p) \/ Request(p), ~UploadInsert(p)
        PROVE  versions' \subseteq versions
    BY <2>2, StepRows, BeginRows
  <2>3. CASE Environment \/ UNCHANGED vars
    BY <2>3, EnvironmentRows DEF vars, durable
  <2>4. QED
    BY <2>1, <2>2, <2>3 DEF Next
<1>2. PICK r : versions' \subseteq versions \cup {r}
  BY <1>1
<1>3. IsFiniteSet(versions \cup {r})
  BY FS_AddElement
<1>4. QED
  BY <1>2, <1>3, FS_Subset

(* The bound holds initially, *)
LEMMA InitRetention == Init => RetentionIInv
<1> SUFFICES ASSUME Init PROVE RetentionIInv
  OBVIOUS
<1>1. /\ ForeignKey /\ IsFiniteSet(versions)
      /\ \A p \in Procs : PrunesOwn(p)
      /\ \A a \in 1 .. lastApp : FALSE
  BY FS_EmptySet DEF Init, ForeignKey, PrunesOwn, PruneLabels
<1>2. QED
  BY <1>1, InitFiles DEF RetentionIInv

(* and every step keeps it; an app just created has no version. *)
LEMMA NextRetention == RetentionIInv /\ [Next]_vars => RetentionIInv'
<1> SUFFICES ASSUME RetentionIInv, [Next]_vars PROVE RetentionIInv'
  OBVIOUS
<1>1. /\ FilesIInv /\ TypeOK /\ Carried /\ ForeignKey /\ IsFiniteSet(versions)
      /\ \A a \in 1 .. lastApp, q \in Platforms : \A done \in SUBSET Pruners : Retained(a, q, done)
  BY DEF RetentionIInv, FilesIInv, IInv
<1>2. FilesIInv' /\ TypeOK' /\ ForeignKey' /\ IsFiniteSet(versions')
  BY <1>1, NextFiles, NextForeignKey, NextFinite DEF FilesIInv, IInv
<1>3. \A p \in Procs : PrunesOwn(p)'
  BY <1>2, NextPrunesOwn
<1>4. ASSUME NEW a \in 1 .. lastApp', NEW q \in Platforms, NEW next \in SUBSET Pruners'
      PROVE  Retained(a, q, next)'
  <2>1. CASE a \in 1 .. lastApp
    BY <1>1, <1>2, <2>1, NextKeeps
  <2>2. CASE a \notin 1 .. lastApp
    <3>1. RowsOf(a, q) = {}
      BY <1>1, <2>2 DEF RowsOf, TypeOK, Listable
    <3>2. \A done \in SUBSET Pruners : Retained(a, q, done)
      <4> SUFFICES ASSUME NEW done \in SUBSET Pruners PROVE Retained(a, q, done)
        OBVIOUS
      <4>1. Kept(a, q, done) = {} /\ Cardinality({}) = 0
        BY <3>1, FS_EmptySet DEF Kept
      <4>2. Allowance \in Nat /\ Cardinality(Publishing(a, q) \ done) \in Nat
        BY <1>1, AllowanceIs, CountedIs, FS_CardinalityType
      <4>3. QED
        BY <4>1, <4>2 DEF Retained
    <3>3. QED
      BY <1>2, <3>2, NextKeeps
  <2>3. QED
    BY <2>1, <2>2
<1>5. QED
  BY <1>2, <1>3, <1>4 DEF RetentionIInv

(* Whatever overlaps, is killed or fails, every upload that has not pruned *)
(* yet accounts for one version beyond the bound at most.                  *)
THEOREM RetentionInvariance == Spec => []RetentionIInv
BY InitRetention, NextRetention, PTL DEF Spec

(* So an app keeps KeepN versions of a platform and the current one, those *)
(* that uploads are about to prune and those that kills and ignored errors *)
(* kept them from pruning.                                                 *)
THEOREM KeepsFew == Spec => []RetentionBound
<1>1. ASSUME RetentionIInv PROVE RetentionBound
  <2> SUFFICES ASSUME NEW x \in apps, NEW q \in Platforms
               PROVE  Cardinality(Kept(x.id, q, Pruners))
                        <= KeepN + 1 + Cardinality(Unpruned(x.id, q))
                             + crashes * Cardinality(Procs) + faults
    BY DEF RetentionBound
  <2>1. TypeOK /\ IsFiniteSet(versions) /\ x.id \in 1 .. lastApp
    BY <1>1 DEF RetentionIInv, FilesIInv, IInv, TypeOK, App
  <2>2. Retained(x.id, q, Pruners)
    BY <1>1, <2>1 DEF RetentionIInv
  <2>3. Publishing(x.id, q) \ Pruners = Unpruned(x.id, q)
    BY DEF Publishing, Unpruned, Pruners, PruneLabels
  <2>4. IsFiniteSet(Unpruned(x.id, q)) /\ Cardinality(Unpruned(x.id, q)) \in Nat
    <3>1. Unpruned(x.id, q) \subseteq Procs
      BY DEF Unpruned
    <3>2. QED
      BY <3>1, ProcsAssumption, FS_Subset, FS_CardinalityType
  <2>5. KeepN \in Nat /\ faults \in Nat /\ crashes * Cardinality(Procs) \in Nat
    BY <2>1, AllowanceIs DEF TypeOK
  <2>6. Cardinality(Kept(x.id, q, Pruners)) <= Allowance + Cardinality(Unpruned(x.id, q))
    BY <2>2, <2>3 DEF Retained
  <2> DEFINE c == crashes * Cardinality(Procs)
  <2>7. Allowance = KeepN + 1 + c + faults
    BY DEF Allowance
  <2>8. Cardinality(Kept(x.id, q, Pruners)) \in Nat
    BY <2>1, CountedIs, FS_CardinalityType
  <2> HIDE DEF c
  <2>9. c \in Nat
    BY <2>5 DEF c
  <2>10. Cardinality(Kept(x.id, q, Pruners)) <= KeepN + 1 + Cardinality(Unpruned(x.id, q)) + c + faults
    BY <2>4, <2>5, <2>6, <2>7, <2>8, <2>9
  <2>11. QED
    BY <2>4, <2>5, <2>8, <2>9, <2>10 DEF c
<1>2. QED
  BY <1>1, RetentionInvariance, PTL

=============================================================================
