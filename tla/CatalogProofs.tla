--------------------------- MODULE CatalogProofs ---------------------------
(* Theorems about Catalog, for every value of its constants: its types,    *)
(* the lock, what is listed and downloaded, the refinement of Shelf, and   *)
(* the packages on disk, for which FilesIInv is inductive.                 *)
EXTENDS Catalog, TLAPS

-----------------------------------------------------------------------------
(* Type correctness *)

(* The locals of a request that has just begun have their type. *)
LEMMA BlankType ==
    ASSUME lastApp \in Nat, lastVid \in Nat
    PROVE  Blank \in Job /\ Nobody \in Row
<1>1. (CHOOSE b \in Builds : TRUE) \in Builds
  BY BuildsAssumption
<1>2. QED
  BY <1>1 DEF Blank, Nobody, Row, Job

(* The initial state is well typed. *)
LEMMA InitType == Init => TypeOK
<1> SUFFICES ASSUME Init PROVE TypeOK
  OBVIOUS
<1>1. job \in [Procs -> Job] /\ pc \in [Procs -> Labels]
  BY BlankType DEF Init, Labels
<1>2. tmp \in [Procs -> Int]
  BY DEF Init
<1>3. QED
  BY <1>1, <1>2 DEF Init, TypeOK

(* The types do not move while the counters stand still. *)
LEMMA SameTypes ==
    ASSUME UNCHANGED <<lastApp, lastVid>>
    PROVE  App' = App /\ Row' = Row /\ Listable' = Listable /\ Job' = Job
BY DEF App, Row, Listable, Job

(* A step of p that moves it to a label and keeps well-typed locals *)
LEMMA RequestType ==
    ASSUME TypeOK, NEW p \in Procs, UNCHANGED <<lastApp, lastVid>>,
           NEW l \in Labels, NEW j \in Job,
           Goto(p, l) \/ UNCHANGED pc,
           Keep(p, j) \/ UNCHANGED job
    PROVE  pc' \in [Procs -> Labels] /\ job' \in [Procs -> Job']
<1>1. pc \in [Procs -> Labels] /\ job \in [Procs -> Job]
  BY DEF TypeOK
<1>2. Job' = Job
  BY SameTypes
<1>3. QED
  BY <1>1, <1>2 DEF Goto, Keep

(* What the locals of a request are *)
LEMMA JobFields ==
    ASSUME TypeOK, NEW p \in Procs
    PROVE  /\ job[p] \in Job /\ job[p].row \in Row /\ job[p].todo \subseteq Listable
           /\ job[p].app \in 0 .. lastApp /\ job[p].row.build \in Builds
           /\ job[p].row.id \in 0 .. lastVid /\ job[p].gone \subseteq 1 .. lastVid
BY DEF TypeOK, Job, Row

(* The end of a part of an upload *)
LEMMA NextPartType ==
    ASSUME TypeOK, NEW p \in Procs, UNCHANGED <<lastApp, lastVid>>, NextPart(p)
    PROVE  pc' \in [Procs -> Labels] /\ job' \in [Procs -> Job']
<1> DEFINE j == [Blank EXCEPT !.app = job[p].app]
<1>1. j \in Job
  BY BlankType, JobFields DEF Job, TypeOK
<1>2. Goto(p, "parts") /\ Keep(p, j)
  BY DEF NextPart
<1> HIDE DEF j
<1>3. QED
  BY <1>1, <1>2, RequestType DEF Labels

(* UPDATE apps SET current_... keeps the type of the table. *)
LEMMA SetCurrentType ==
    ASSUME TypeOK, NEW a, NEW v \in 0 .. lastVid, NEW plat,
           SetAppCurrentVersion(a, v, plat)
    PROVE  apps' \subseteq App
<1> SUFFICES ASSUME NEW x \in apps
             PROVE  (IF x.id = a THEN [x EXCEPT !.cur[plat] = v] ELSE x) \in App
  BY DEF SetAppCurrentVersion
<1>1. x \in App
  BY DEF TypeOK
<1>2. [x.cur EXCEPT ![plat] = v] \in [Platforms -> 0 .. lastVid]
  BY <1>1 DEF App
<1>3. QED
  BY <1>1, <1>2 DEF App

(* So does setting the bundle id or package name. *)
LEMMA SetBundleType ==
    ASSUME TypeOK, NEW a, NEW plat, NEW b \in Builds,
           SetAppBundleID(a, plat, b.bundle)
    PROVE  apps' \subseteq App
<1> SUFFICES ASSUME NEW x \in apps
             PROVE  (IF x.id = a THEN [x EXCEPT !.bundle[plat] = b.bundle] ELSE x) \in App
  BY DEF SetAppBundleID
<1>1. x \in App
  BY DEF TypeOK
<1>2. [x.bundle EXCEPT ![plat] = b.bundle]
        \in [Platforms -> {c.bundle : c \in Builds} \cup {NoBundle}]
  BY <1>1 DEF App
<1>3. QED
  BY <1>1, <1>2 DEF App

(* A database error, or none, keeps the types of what it touches. *)
LEMMA FaultType ==
    ASSUME TypeOK, Fault \/ NoFault
    PROVE  faults' \in Nat /\ unclean' \in BOOLEAN
<1>1. faults \in Nat /\ unclean \in BOOLEAN
  BY DEF TypeOK
<1>2. faults' = faults + 1 \/ faults' = faults
  BY DEF Fault, NoFault
<1>3. unclean' = TRUE \/ unclean' = unclean
  BY DEF Fault, NoFault
<1>4. unclean' \in BOOLEAN
  BY <1>1, <1>3, Zenon
<1>5. QED
  BY <1>1, <1>2, <1>4

(* Removing a package, or failing to *)
LEMMA RemoveFileType ==
    ASSUME TypeOK, NEW p \in Procs, UNCHANGED <<lastApp, lastVid, torn>>,
           NEW r \in Listable, NEW rest, rest \subseteq Listable,
           NEW l \in Labels, Goto(p, l) \/ UNCHANGED pc,
           RemoveFileOf(p, r, rest)
    PROVE  /\ pc' \in [Procs -> Labels] /\ job' \in [Procs -> Job']
           /\ \A q \in DOMAIN files' : files'[q] \in {b.sha : b \in Builds}
           /\ faults' \in Nat /\ unclean' \in BOOLEAN
<1> DEFINE g == job[p].gone \cup {r.id}
           j == [job[p] EXCEPT !.row = r, !.todo = rest, !.gone = g]
<1>1. j \in Job
  <2>1. r \in Row
    BY DEF Row, Listable, TypeOK
  <2>2. g \in SUBSET (1 .. lastVid) /\ rest \in SUBSET Listable
    BY JobFields DEF Listable
  <2> HIDE DEF g
  <2>3. QED
    BY <2>1, <2>2, JobFields DEF Job
<1>2. Keep(p, j)
  BY DEF RemoveFileOf
<1>3. pc' \in [Procs -> Labels] /\ job' \in [Procs -> Job']
  <2> HIDE DEF j
  <2> QED BY <1>1, <1>2, RequestType
<1>4. \A q \in DOMAIN files' : files'[q] \in {b.sha : b \in Builds}
  BY DEF RemoveFileOf, TypeOK, Drop, Restrict
<1>5. QED
  BY <1>3, <1>4, FaultType DEF RemoveFileOf

(* Every step of a request keeps the types. *)
LEMMA StepType ==
    ASSUME TypeOK, Carried, NEW p \in Procs, Step(p)
    PROVE  TypeOK'
<1> USE DEF durable, history, budget
<1>1. CASE UploadEnd(p)
  <2>1. pc' \in [Procs -> Labels] /\ job' \in [Procs -> Job']
    BY <1>1, RequestType, BlankType DEF UploadEnd, Finish, Labels, TypeOK
  <2>2. QED
    BY <1>1, <2>1, SameTypes DEF UploadEnd, TypeOK
<1>2. CASE \E b \in Builds : UploadPart(p, b)
  <2> PICK b \in Builds : UploadPart(p, b)
    BY <1>2
  <2> PICK x \in apps :
        Keep(p, [job[p] EXCEPT
                   !.row = [Nobody EXCEPT !.app = job[p].app, !.build = b],
                   !.fresh = (x.bundle[b.plat] = NoBundle)])
    BY DEF UploadPart
  <2> DEFINE r == [Nobody EXCEPT !.app = job[p].app, !.build = b]
             j == [job[p] EXCEPT !.row = r, !.fresh = (x.bundle[b.plat] = NoBundle)]
  <2>1. r \in Row
    BY BlankType, JobFields DEF Row, TypeOK
  <2>2. j \in Job
    <3> HIDE DEF r
    <3> QED BY <2>1, JobFields DEF Job
  <2>3. pc' \in [Procs -> Labels] /\ job' \in [Procs -> Job']
    <3> Keep(p, j)
      OBVIOUS
    <3> HIDE DEF j
    <3> QED BY <2>2, RequestType DEF UploadPart, Labels
  <2>4. tmp' \in [Procs -> Int]
    BY DEF UploadPart, TypeOK
  <2>5. QED
    BY <2>3, <2>4, SameTypes DEF UploadPart, TypeOK
<1>3. CASE UploadReject(p)
  <2>1. pc' \in [Procs -> Labels] /\ job' \in [Procs -> Job']
    BY <1>3, RequestType, BlankType DEF UploadReject, Finish, Labels, TypeOK
  <2>2. tmp' \in [Procs -> Int]
    BY <1>3 DEF UploadReject, TypeOK
  <2>3. Fault \/ NoFault
    BY <1>3 DEF UploadReject
  <2>4. QED
    BY <1>3, <2>1, <2>2, <2>3, SameTypes, FaultType DEF UploadReject, TypeOK
<1>4. CASE UploadMove(p)
  <2> DEFINE r == [job[p].row EXCEPT !.ts = clock]
             j == [job[p] EXCEPT !.row = r]
  <2>1. r \in Row /\ r.build \in Builds
    BY JobFields DEF Row, TypeOK
  <2>2. j \in Job
    <3> HIDE DEF r
    <3> QED BY <2>1, JobFields DEF Job
  <2>3. pc' \in [Procs -> Labels] /\ job' \in [Procs -> Job']
    <3> Keep(p, j)
      BY <1>4 DEF UploadMove
    <3> HIDE DEF j
    <3> QED BY <1>4, <2>2, RequestType DEF UploadMove, Labels
  <2>4. \A q \in DOMAIN files' : files'[q] \in {b.sha : b \in Builds}
    <3> files' = Put(files, Path(r), r.build.sha)
      BY <1>4 DEF UploadMove
    <3> HIDE DEF r
    <3> QED BY <2>1 DEF Put, TypeOK
  <2>5. tmp' \in [Procs -> Int]
    BY <1>4 DEF UploadMove, TypeOK
  <2>6. QED
    BY <1>4, <2>3, <2>4, <2>5, SameTypes DEF UploadMove, TypeOK
<1>6. CASE UploadInsertFails(p)
  <2>1. pc' \in [Procs -> Labels] /\ job' \in [Procs -> Job']
    BY <1>6, RequestType, JobFields DEF UploadInsertFails, Labels
  <2>2. QED
    BY <1>6, <2>1, SameTypes DEF UploadInsertFails, TypeOK
<1>7. CASE UploadUndo(p)
  <2>1. pc' \in [Procs -> Labels] /\ job' \in [Procs -> Job']
    BY <1>7, RequestType, BlankType DEF UploadUndo, Finish, Labels, TypeOK
  <2>2. \A q \in DOMAIN files' : files'[q] \in {b.sha : b \in Builds}
    BY <1>7 DEF UploadUndo, Drop, Restrict, TypeOK
  <2>3. QED
    BY <1>7, <2>1, <2>2, SameTypes, FaultType DEF UploadUndo, TypeOK
<1>8. CASE UploadPromote(p)
  <2>1. pc' \in [Procs -> Labels] /\ job' \in [Procs -> Job']
    BY <1>8, RequestType, JobFields DEF UploadPromote, Labels
  <2>2. apps' \subseteq App
    BY <1>8, SetCurrentType, JobFields DEF UploadPromote, TypeOK
  <2>3. QED
    BY <1>8, <2>1, <2>2, SameTypes, FaultType DEF UploadPromote, TypeOK
<1>9. CASE UploadBundle(p)
  <2>1. pc' \in [Procs -> Labels] /\ job' \in [Procs -> Job']
    BY <1>9, RequestType, JobFields DEF UploadBundle, Labels
  <2>2. apps' \subseteq App
    BY <1>9, SetBundleType, JobFields DEF UploadBundle, TypeOK
  <2>3. QED
    BY <1>9, <2>1, <2>2, SameTypes, FaultType DEF UploadBundle, TypeOK
<1>5. CASE UploadInsert(p)
  <2> DEFINE r == [job[p].row EXCEPT !.id = lastVid + 1, !.at = clock]
             j == [job[p] EXCEPT !.row = r]
  <2>1. lastVid \in Nat /\ lastApp \in Nat /\ lastVid' = lastVid + 1 /\ lastApp' = lastApp
    BY <1>5 DEF UploadInsert, TypeOK
  <2>2. job[p].row.app \in 1 .. lastApp /\ job[p].row.build.plat \in Platforms
    <3>1. job[p].app \in 1 .. lastApp
      BY <1>5 DEF UploadInsert, AppExists, TypeOK, App
    <3>2. QED
      BY <1>5, <3>1, JobFields, BuildsAssumption DEF UploadInsert, Carried, CarriesRow, Receiving
  <2>3. App \subseteq App' /\ Listable \subseteq Listable' /\ Row \subseteq Row'
    BY <2>1 DEF App, Listable, Row
  <2>4. Job \subseteq Job'
    BY <2>1, <2>3 DEF Job
  <2>5. r \in Listable' /\ r \in Row'
    <3>1. lastVid + 1 \in 0 .. lastVid' /\ lastVid + 1 \in 1 .. lastVid' /\ clock \in Nat
      BY <2>1 DEF TypeOK
    <3>2. job[p].row \in Row
      BY JobFields
    <3>3. QED
      BY <2>1, <2>2, <3>1, <3>2 DEF Listable, Row
  <2>6. j \in Job'
    <3> HIDE DEF r
    <3> QED BY <2>4, <2>5, JobFields DEF Job
  <2>7. pc' \in [Procs -> Labels] /\ job' \in [Procs -> Job']
    <3>1. Keep(p, j) /\ Goto(p, "promote")
      BY <1>5 DEF UploadInsert, NextVid
    <3>2. job \in [Procs -> Job'] /\ pc \in [Procs -> Labels]
      BY <2>4 DEF TypeOK
    <3> HIDE DEF j
    <3>3. QED
      BY <2>6, <3>1, <3>2 DEF Keep, Goto, Labels
  <2>8. versions' \subseteq Listable' /\ apps' \subseteq App'
    <3>1. versions' = versions \cup {r} /\ apps' = apps
      BY <1>5 DEF UploadInsert, NextVid
    <3> HIDE DEF r
    <3>2. QED
      BY <2>3, <2>5, <3>1 DEF TypeOK
  <2>9. published' \subseteq [id : 1 .. lastVid', app : 1 .. lastApp', plat : Platforms]
    <3>1. published' = published \cup
            {[id |-> lastVid + 1, app |-> job[p].row.app, plat |-> job[p].row.build.plat]}
      BY <1>5, JobFields DEF UploadInsert, NextVid, Row
    <3>2. QED
      BY <2>1, <2>2, <3>1 DEF TypeOK
  <2>10. torn' \subseteq 1 .. lastVid'
    BY <1>5, <2>1 DEF UploadInsert, TypeOK
  <2>11. QED
    BY <1>5, <2>1, <2>7, <2>8, <2>9, <2>10 DEF UploadInsert, TypeOK
<1>10. CASE PruneRead(p)
  <2> PICK x \in apps : Keep(p, [job[p] EXCEPT !.cur = x.cur[job[p].row.build.plat]])
    BY <1>10 DEF PruneRead
  <2> DEFINE j == [job[p] EXCEPT !.cur = x.cur[job[p].row.build.plat]]
  <2>1. j \in Job
    BY JobFields, BuildsAssumption DEF Job, TypeOK, App
  <2>2. pc' \in [Procs -> Labels] /\ job' \in [Procs -> Job']
    <3> Keep(p, j)
      OBVIOUS
    <3> HIDE DEF j
    <3> QED BY <1>10, <2>1, RequestType DEF PruneRead, Labels
  <2>3. QED
    BY <1>10, <2>2, SameTypes DEF PruneRead, TypeOK
<1>11. CASE PruneSkip(p)
  <2>1. pc' \in [Procs -> Labels] /\ job' \in [Procs -> Job']
    BY <1>11, NextPartType DEF PruneSkip
  <2>2. QED
    BY <1>11, <2>1, SameTypes, FaultType DEF PruneSkip, TypeOK
<1>12. CASE PruneList(p)
  <2> PICK D \in ListVersionsToPrune(job[p].app, job[p].row.build.plat, job[p].cur) :
        IF D = {} THEN NextPart(p)
                  ELSE Goto(p, "prune") /\ Keep(p, [job[p] EXCEPT !.todo = D])
    BY <1>12 DEF PruneList
  <2> DEFINE j == [job[p] EXCEPT !.todo = D]
  <2>1. j \in Job
    <3> D \subseteq Listable
      BY DEF ListVersionsToPrune, AfterNewest, TypeOK
    <3> QED
      BY JobFields DEF Job
  <2>2. pc' \in [Procs -> Labels] /\ job' \in [Procs -> Job']
    <3>1. CASE D = {}
      BY <1>12, <3>1, NextPartType DEF PruneList
    <3>2. CASE D # {}
      <4> Goto(p, "prune") /\ Keep(p, j)
        BY <3>2
      <4> HIDE DEF j
      <4> QED BY <1>12, <2>1, RequestType DEF PruneList, Labels
    <3> QED BY <3>1, <3>2
  <2>3. QED
    BY <1>12, <2>2, SameTypes DEF PruneList, TypeOK
<1>13. CASE PruneFiles(p)
  <2> PICK r \in job[p].todo : RemoveFileOf(p, r, job[p].todo \ {r})
    BY <1>13 DEF PruneFiles
  <2>1. r \in Listable /\ job[p].todo \ {r} \subseteq Listable
    BY JobFields
  <2>2. QED
    BY <1>13, <2>1, RemoveFileType, SameTypes DEF PruneFiles, Labels, TypeOK
<1>14. CASE PruneRow(p)
  <2>1. pc' \in [Procs -> Labels] /\ job' \in [Procs -> Job']
    <3> DEFINE j == [job[p] EXCEPT !.gone = {}]
    <3>1. j \in Job
      BY JobFields DEF Job
    <3>2. CASE NextPart(p)
      BY <1>14, <3>2, NextPartType DEF PruneRow
    <3>3. CASE Goto(p, "prune") /\ Keep(p, j)
      <4> HIDE DEF j
      <4> QED BY <1>14, <3>1, <3>3, RequestType DEF PruneRow, Labels
    <3> QED BY <1>14, <3>2, <3>3 DEF PruneRow
  <2>2. versions' \subseteq Listable /\ torn' \subseteq 1 .. lastVid
    BY <1>14, JobFields DEF PruneRow, DeleteVersion, TypeOK
  <2>3. QED
    BY <1>14, <2>1, <2>2, SameTypes, FaultType DEF PruneRow, TypeOK
<1>15. CASE DeleteReadApp(p)
  <2>1. pc' \in [Procs -> Labels] /\ job' \in [Procs -> Job']
    BY <1>15, RequestType, JobFields, BlankType
    DEF DeleteReadApp, Finish, Labels, TypeOK
  <2>2. QED
    BY <1>15, <2>1, SameTypes DEF DeleteReadApp, TypeOK
<1>16. CASE DeleteClear(p)
  <2>1. pc' \in [Procs -> Labels] /\ job' \in [Procs -> Job']
    BY <1>16, RequestType, JobFields DEF DeleteClear, Labels
  <2>2. apps' \subseteq App
    BY <1>16, SetCurrentType DEF DeleteClear, TypeOK
  <2>3. QED
    BY <1>16, <2>1, <2>2, SameTypes, FaultType DEF DeleteClear, TypeOK
<1>17. CASE DeleteFiles(p)
  <2>1. job[p].row \in Listable
    BY <1>17, JobFields DEF DeleteFiles, Carried, CarriesRow, Handling, Sent, TypeOK, Row, Listable
  <2>2. QED
    BY <1>17, <2>1, RemoveFileType, SameTypes DEF DeleteFiles, Labels, TypeOK
<1>18. CASE DeleteRow(p)
  <2>1. pc' \in [Procs -> Labels] /\ job' \in [Procs -> Job']
    BY <1>18, RequestType, BlankType DEF DeleteRow, Finish, Labels, TypeOK
  <2>2. versions' \subseteq Listable /\ torn' \subseteq 1 .. lastVid
    BY <1>18, JobFields DEF DeleteRow, DeleteVersion, TypeOK
  <2>3. QED
    BY <1>18, <2>1, <2>2, SameTypes, FaultType DEF DeleteRow, TypeOK
<1>19. CASE PinWrite(p)
  <2>1. pc' \in [Procs -> Labels] /\ job' \in [Procs -> Job']
    BY <1>19, RequestType, BlankType DEF PinWrite, Finish, Labels, TypeOK
  <2>2. apps' \subseteq App
    BY <1>19, SetCurrentType, JobFields DEF PinWrite, TypeOK
  <2>3. QED
    BY <1>19, <2>1, <2>2, SameTypes DEF PinWrite, TypeOK
<1>20. CASE AppDeleteFiles(p)
  <2> PICK r \in job[p].todo : RemoveFileOf(p, r, job[p].todo \ {r})
    BY <1>20 DEF AppDeleteFiles
  <2>1. r \in Listable /\ job[p].todo \ {r} \subseteq Listable
    BY JobFields
  <2>2. QED
    BY <1>20, <2>1, RemoveFileType, SameTypes DEF AppDeleteFiles, Labels, TypeOK
<1>21. CASE AppDeleteRow(p)
  <2>1. pc' \in [Procs -> Labels] /\ job' \in [Procs -> Job']
    BY <1>21, RequestType, BlankType DEF AppDeleteRow, Finish, Labels, TypeOK
  <2>2. apps' \subseteq App /\ versions' \subseteq Listable /\ torn' \subseteq 1 .. lastVid
    BY <1>21, JobFields DEF AppDeleteRow, DeleteApp, TypeOK
  <2>3. QED
    BY <1>21, <2>1, <2>2, SameTypes, FaultType DEF AppDeleteRow, TypeOK
<1>22. CASE DownloadOpen(p)
  <2>1. pc' \in [Procs -> Labels] /\ job' \in [Procs -> Job']
    BY <1>22, RequestType, BlankType DEF DownloadOpen, Finish, Labels, TypeOK
  <2>2. QED
    BY <1>22, <2>1, SameTypes DEF DownloadOpen, TypeOK
<1>23. QED
  BY <1>1, <1>2, <1>3, <1>4, <1>5, <1>6, <1>7, <1>8, <1>9, <1>10, <1>11, <1>12,
     <1>13, <1>14, <1>15, <1>16, <1>17, <1>18, <1>19, <1>20, <1>21, <1>22 DEF Step

(* A request that begins with a version read from its table *)
LEMMA BeginType ==
    ASSUME TypeOK, NEW p \in Procs, UNCHANGED <<lastApp, lastVid>>,
           NEW l \in Labels, Goto(p, l), NEW r \in versions,
           Keep(p, [Blank EXCEPT !.app = r.app, !.row = r])
    PROVE  pc' \in [Procs -> Labels] /\ job' \in [Procs -> Job']
<1> DEFINE j == [Blank EXCEPT !.app = r.app, !.row = r]
<1>1. r \in Row /\ r.app \in 0 .. lastApp
  BY DEF TypeOK, Row, Listable
<1>2. j \in Job
  BY <1>1, BlankType DEF Job, TypeOK
<1>3. Keep(p, j)
  OBVIOUS
<1> HIDE DEF j
<1>4. QED
  BY <1>2, <1>3, RequestType

(* A new request keeps the types. *)
LEMMA BeginRequestType ==
    ASSUME TypeOK, NEW p \in Procs, Request(p)
    PROVE  TypeOK'
<1> USE DEF durable, history, budget
<1>1. CASE AppCreate(p)
  <2> DEFINE x == [id |-> lastApp + 1, cur |-> [q \in Platforms |-> 0],
                   bundle |-> [q \in Platforms |-> NoBundle]]
  <2>1. lastVid \in Nat /\ lastApp \in Nat /\ lastApp' = lastApp + 1 /\ lastVid' = lastVid
    BY <1>1 DEF AppCreate, TypeOK
  <2>2. App \subseteq App' /\ Listable \subseteq Listable' /\ Row \subseteq Row'
    BY <2>1 DEF App, Listable, Row
  <2>3. Job \subseteq Job'
    BY <2>1, <2>2 DEF Job
  <2>4. x \in App'
    BY <2>1 DEF App
  <2>5. apps' \subseteq App' /\ versions' \subseteq Listable'
    <3>1. apps' = apps \cup {x} /\ versions' = versions
      BY <1>1 DEF AppCreate
    <3> HIDE DEF x
    <3>2. QED
      BY <2>2, <2>4, <3>1 DEF TypeOK
  <2>6. pc' \in [Procs -> Labels] /\ job' \in [Procs -> Job']
    BY <1>1, <2>3 DEF AppCreate, TypeOK
  <2>7. published' \subseteq [id : 1 .. lastVid', app : 1 .. lastApp', plat : Platforms]
    BY <1>1, <2>1 DEF AppCreate, TypeOK
  <2>8. QED
    BY <1>1, <2>1, <2>5, <2>6, <2>7 DEF AppCreate, TypeOK
<1>2. ASSUME NEW x \in apps, UploadBegin(p, x.id)
      PROVE  TypeOK'
  <2> DEFINE j == [Blank EXCEPT !.app = x.id]
  <2>1. j \in Job
    BY BlankType DEF Job, TypeOK, App
  <2>2. pc' \in [Procs -> Labels] /\ job' \in [Procs -> Job']
    <3> Keep(p, j)
      BY <1>2 DEF UploadBegin
    <3> HIDE DEF j
    <3> QED BY <1>2, <2>1, RequestType DEF UploadBegin, Labels
  <2>3. QED
    BY <1>2, <2>2, SameTypes DEF UploadBegin, TypeOK
<1>3. ASSUME NEW x \in apps, AppDeleteList(p, x.id)
      PROVE  TypeOK'
  <2> PICK D \in SUBSET {r \in versions : r.app = x.id} :
        Keep(p, [Blank EXCEPT !.app = x.id, !.todo = D]) /\ (Fault \/ NoFault)
    BY <1>3 DEF AppDeleteList
  <2> DEFINE j == [Blank EXCEPT !.app = x.id, !.todo = D]
  <2>1. j \in Job
    <3>1. D \in SUBSET Listable /\ x.id \in 0 .. lastApp
      BY DEF TypeOK, App
    <3>2. QED
      BY <3>1, BlankType DEF Job, TypeOK
  <2>2. pc' \in [Procs -> Labels] /\ job' \in [Procs -> Job']
    <3>1. Keep(p, j)
      OBVIOUS
    <3> HIDE DEF j
    <3>2. QED
      BY <1>3, <2>1, <3>1, RequestType DEF AppDeleteList, Labels
  <2>3. QED
    BY <1>3, <2>2, SameTypes, FaultType DEF AppDeleteList, TypeOK
<1>4. ASSUME NEW r \in versions,
             DeleteBegin(p, r) \/ PinBegin(p, r) \/ DownloadRead(p, r)
      PROVE  TypeOK'
  <2>1. pc' \in [Procs -> Labels] /\ job' \in [Procs -> Job']
    BY <1>4, BeginType DEF DeleteBegin, PinBegin, DownloadRead, Labels
  <2>2. QED
    BY <1>4, <2>1, SameTypes DEF DeleteBegin, PinBegin, DownloadRead, TypeOK
<1>5. QED
  BY <1>1, <1>2, <1>3, <1>4 DEF Request

(* Time, kills, starts and the orphan scan keep the types. *)
LEMMA EnvironmentType ==
    ASSUME TypeOK, Environment
    PROVE  TypeOK'
<1> USE DEF durable, history, budget
<1>1. CASE Tick
  BY <1>1, SameTypes DEF Tick, TypeOK
<1>2. CASE Crash
  <2>1. pc' \in [Procs -> Labels] /\ job' \in [Procs -> Job']
    BY <1>2, BlankType, SameTypes DEF Crash, TypeOK, Labels
  <2>2. torn' \subseteq 1 .. lastVid
    <3>1. UNION {job[p].gone : p \in Procs} \subseteq 1 .. lastVid
      BY JobFields
    <3>2. QED
      BY <1>2, <3>1 DEF Crash, TypeOK
  <2>3. QED
    BY <1>2, <2>1, <2>2, SameTypes DEF Crash, TypeOK
<1>3. CASE Boot
  BY <1>3, SameTypes DEF Boot, TypeOK
<1>4. CASE OrphanScanEnd
  <2>1. faults' \in Nat
    BY <1>4 DEF OrphanScanEnd, Fault, TypeOK
  <2>2. unclean' \in BOOLEAN
    <3>1. unclean' = TRUE \/ unclean' = FALSE
      BY <1>4 DEF OrphanScanEnd, Fault
    <3>2. QED
      BY <3>1
  <2>3. QED
    BY <1>4, <2>1, <2>2, SameTypes DEF OrphanScanEnd, TypeOK
<1>5. ASSUME NEW q \in DOMAIN files, OrphanRemove(q)
      PROVE  TypeOK'
  <2>1. \A f \in DOMAIN files' : files'[f] \in {b.sha : b \in Builds}
    BY <1>5 DEF OrphanRemove, Drop, Restrict, TypeOK
  <2>2. QED
    BY <1>5, <2>1, SameTypes DEF OrphanRemove, TypeOK
<1>6. ASSUME NEW D, ScanCutShort(D)
      PROVE  TypeOK'
  <2>1. \A f \in DOMAIN files' : files'[f] \in {b.sha : b \in Builds}
    BY <1>6 DEF ScanCutShort, Restrict, TypeOK
  <2>2. torn' \subseteq 1 .. lastVid
    BY <1>6 DEF ScanCutShort, TypeOK, Listable
  <2>3. QED
    BY <1>6, <2>1, <2>2, SameTypes, FaultType DEF ScanCutShort, TypeOK
<1>7. QED
  BY <1>1, <1>2, <1>3, <1>4, <1>5, <1>6 DEF Environment

-----------------------------------------------------------------------------
(* Rows that requests carry *)

(* A step of p that leaves the other requests alone *)
LEMMA CarriedByOthers ==
    ASSUME TypeOK, Carried, NEW p \in Procs, published \subseteq published',
           NEW l, NEW j, Goto(p, l) \/ UNCHANGED pc, Keep(p, j) \/ UNCHANGED job,
           CarriesRow(p)'
    PROVE  Carried'
<1> SUFFICES ASSUME NEW q \in Procs, q # p PROVE CarriesRow(q)'
  BY DEF Carried
<1>1. pc'[q] = pc[q] /\ job'[q] = job[q]
  BY DEF Goto, Keep, TypeOK
<1>2. QED
  BY <1>1 DEF Carried, CarriesRow

(* A step of p to a label at which no row is carried *)
LEMMA CarriesNothing ==
    ASSUME TypeOK, Carried, NEW p \in Procs, published \subseteq published',
           NEW l, l \notin Receiving \cup Handling, Goto(p, l),
           NEW j, Keep(p, j) \/ UNCHANGED job
    PROVE  Carried'
<1>1. pc'[p] = l
  BY DEF Goto, TypeOK
<1>2. CarriesRow(p)'
  BY <1>1 DEF CarriesRow
<1>3. QED
  BY <1>2, CarriedByOthers

(* Every step of a request keeps what requests carry. *)
LEMMA StepCarried ==
    ASSUME TypeOK, Carried, NEW p \in Procs, Step(p)
    PROVE  Carried'
<1> USE DEF durable, history, budget, Receiving, Handling, Finish
<1>0. /\ job \in [Procs -> Job] /\ pc \in [Procs -> Labels]
      /\ pc[p] \in Receiving \cup Handling => job[p].row.app = job[p].app
      /\ pc[p] \in Handling => Sent(job[p].row) \in published
  BY DEF TypeOK, Carried, CarriesRow
<1>1. CASE UploadEnd(p) \/ UploadReject(p) \/ UploadUndo(p) \/ PinWrite(p)
           \/ DownloadOpen(p) \/ DeleteRow(p) \/ AppDeleteRow(p)
  <2>1. Goto(p, "idle") /\ Keep(p, Blank) /\ published' = published
    BY <1>1 DEF UploadEnd, UploadReject, UploadUndo, PinWrite, DownloadOpen,
                DeleteRow, AppDeleteRow
  <2>2. QED
    BY <2>1, CarriesNothing
<1>2. CASE \E b \in Builds : UploadPart(p, b)
  <2> PICK b \in Builds : UploadPart(p, b)
    BY <1>2
  <2> PICK x \in apps :
        Keep(p, [job[p] EXCEPT
                   !.row = [Nobody EXCEPT !.app = job[p].app, !.build = b],
                   !.fresh = (x.bundle[b.plat] = NoBundle)])
    BY DEF UploadPart
  <2> DEFINE j == [job[p] EXCEPT
                     !.row = [Nobody EXCEPT !.app = job[p].app, !.build = b],
                     !.fresh = (x.bundle[b.plat] = NoBundle)]
  <2>1. j.row.app = j.app
    BY JobFields DEF Job, Nobody
  <2>2. Goto(p, "stream") /\ Keep(p, j) /\ published' = published
    BY DEF UploadPart
  <2> HIDE DEF j
  <2>3. pc'[p] = "stream" /\ job'[p] = j
    BY <1>0, <2>2 DEF Goto, Keep
  <2>4. QED
    BY <2>1, <2>2, <2>3, CarriedByOthers DEF CarriesRow
<1>3. CASE UploadMove(p)
  <2> DEFINE r == [job[p].row EXCEPT !.ts = clock]
             j == [job[p] EXCEPT !.row = r]
  <2>1. j.row.app = j.app
    BY <1>0, <1>3, JobFields DEF UploadMove, Job, Row
  <2>2. Goto(p, "insert") /\ Keep(p, j) /\ published' = published
    BY <1>3 DEF UploadMove
  <2> HIDE DEF j
  <2>3. pc'[p] = "insert" /\ job'[p] = j
    BY <1>0, <2>2 DEF Goto, Keep
  <2>4. QED
    BY <2>1, <2>2, <2>3, CarriedByOthers DEF CarriesRow
<1>4. CASE UploadInsert(p)
  <2> DEFINE r == [job[p].row EXCEPT !.id = NextVid, !.at = clock]
             j == [job[p] EXCEPT !.row = r]
  <2>1. j.row = r /\ r.app = job[p].row.app /\ j.app = job[p].app
    BY JobFields DEF Job, Row
  <2>2. Goto(p, "promote") /\ Keep(p, j) /\ published' = published \cup {Sent(r)}
    BY <1>4 DEF UploadInsert, Sent
  <2> HIDE DEF j, r
  <2>3. pc'[p] = "promote" /\ job'[p] = j
    BY <1>0, <2>2 DEF Goto, Keep
  <2>4. Sent(job'[p].row) \in published' /\ job'[p].row.app = job'[p].app
    BY <1>0, <1>4, <2>1, <2>2, <2>3 DEF UploadInsert
  <2>5. CarriesRow(p)'
    BY <2>4 DEF CarriesRow, Sent
  <2>6. QED
    BY <2>2, <2>5, CarriedByOthers
<1>5. CASE UploadInsertFails(p) \/ UploadPromote(p) \/ UploadBundle(p) \/ DeleteClear(p)
  <2>1. UNCHANGED job /\ published' = published
    BY <1>5 DEF UploadInsertFails, UploadPromote, UploadBundle, DeleteClear
  <2>2. \/ pc[p] = "insert" /\ Goto(p, "undo")
        \/ pc[p] = "promote" /\ (Goto(p, "bundle") \/ Goto(p, "pruneRead"))
        \/ pc[p] = "bundle" /\ Goto(p, "pruneRead")
        \/ pc[p] = "clear" /\ Goto(p, "delFiles")
    BY <1>5 DEF UploadInsertFails, UploadPromote, UploadBundle, DeleteClear
  <2>3. CarriesRow(p)'
    BY <1>0, <2>1, <2>2 DEF CarriesRow, Sent, Goto
  <2>4. QED
    BY <2>1, <2>2, <2>3, CarriedByOthers
<1>6. CASE PruneRead(p)
  <2> PICK x \in apps : Keep(p, [job[p] EXCEPT !.cur = x.cur[job[p].row.build.plat]])
    BY <1>6 DEF PruneRead
  <2> DEFINE j == [job[p] EXCEPT !.cur = x.cur[job[p].row.build.plat]]
  <2>1. j.row = job[p].row /\ j.app = job[p].app
    BY JobFields DEF Job
  <2>2. Goto(p, "pruneList") /\ Keep(p, j) /\ published' = published
    BY <1>6 DEF PruneRead
  <2> HIDE DEF j
  <2>3. pc'[p] = "pruneList" /\ job'[p] = j
    BY <1>0, <2>2 DEF Goto, Keep
  <2>4. CarriesRow(p)'
    BY <1>0, <1>6, <2>1, <2>2, <2>3 DEF CarriesRow, Sent, PruneRead
  <2>5. QED
    BY <2>2, <2>4, CarriedByOthers
<1>7. CASE PruneSkip(p) \/ PruneList(p) \/ PruneRow(p)
  <2>1. /\ published' = published
        /\ \/ NextPart(p)
           \/ Goto(p, "prune") /\ \E j : Keep(p, j)
    BY <1>7 DEF PruneSkip, PruneList, PruneRow
  <2>2. CASE NextPart(p)
    BY <2>1, <2>2, CarriesNothing DEF NextPart
  <2>3. CASE Goto(p, "prune") /\ \E j : Keep(p, j)
    BY <2>1, <2>3, CarriesNothing
  <2>4. QED
    BY <2>1, <2>2, <2>3
<1>8. CASE PruneFiles(p)
  BY <1>8, CarriesNothing DEF PruneFiles, RemoveFileOf
<1>9. CASE DeleteReadApp(p)
  <2>1. CASE Finish(p)
    BY <1>9, <2>1, CarriesNothing DEF DeleteReadApp
  <2>2. CASE UNCHANGED job /\ (Goto(p, "clear") \/ Goto(p, "delFiles"))
    <3>1. CarriesRow(p)'
      BY <1>0, <1>9, <2>2 DEF DeleteReadApp, CarriesRow, Sent, Goto
    <3>2. QED
      BY <1>9, <2>2, <3>1, CarriedByOthers DEF DeleteReadApp
  <2>3. QED
    BY <1>9, <2>1, <2>2 DEF DeleteReadApp
<1>10. CASE DeleteFiles(p)
  <2> DEFINE j == [job[p] EXCEPT !.row = job[p].row, !.todo = {},
                                 !.gone = job[p].gone \cup {job[p].row.id}]
  <2>1. j.row = job[p].row /\ j.app = job[p].app
    BY JobFields DEF Job
  <2>2. Goto(p, "delRow") /\ Keep(p, j) /\ published' = published
    BY <1>10 DEF DeleteFiles, RemoveFileOf
  <2> HIDE DEF j
  <2>3. pc'[p] = "delRow" /\ job'[p] = j
    BY <1>0, <2>2 DEF Goto, Keep
  <2>4. CarriesRow(p)'
    BY <1>0, <1>10, <2>1, <2>2, <2>3 DEF CarriesRow, Sent, DeleteFiles
  <2>5. QED
    BY <2>2, <2>4, CarriedByOthers
<1>11. CASE AppDeleteFiles(p)
  <2>1. UNCHANGED pc /\ published' = published /\ pc[p] = "appFiles"
    BY <1>11 DEF AppDeleteFiles
  <2>2. PICK j : Keep(p, j)
    BY <1>11 DEF AppDeleteFiles, RemoveFileOf
  <2>3. CarriesRow(p)'
    BY <2>1 DEF CarriesRow
  <2>4. QED
    BY <2>1, <2>2, <2>3, CarriedByOthers
<1>12. QED
  BY <1>1, <1>2, <1>3, <1>4, <1>5, <1>6, <1>7, <1>8, <1>9, <1>10, <1>11 DEF Step

(* A new request carries a row it read from the table, if any. *)
LEMMA BeginRequestCarried ==
    ASSUME TypeOK, Carried, Anchored, NEW p \in Procs, Request(p)
    PROVE  Carried'
<1> USE DEF durable, history, budget, Receiving, Handling
<1>1. CASE AppCreate(p)
  BY <1>1 DEF AppCreate, Carried, CarriesRow, Sent
<1>2. ASSUME NEW x \in apps, UploadBegin(p, x.id) \/ AppDeleteList(p, x.id)
      PROVE  Carried'
  <2>1. /\ published' = published /\ (Goto(p, "parts") \/ Goto(p, "appFiles"))
        /\ \E j : Keep(p, j)
    BY <1>2 DEF UploadBegin, AppDeleteList
  <2>2. QED
    BY <2>1, CarriesNothing
<1>3. ASSUME NEW r \in versions,
             DeleteBegin(p, r) \/ PinBegin(p, r) \/ DownloadRead(p, r)
      PROVE  Carried'
  <2> DEFINE j == [Blank EXCEPT !.app = r.app, !.row = r]
  <2>1. j.row = r /\ j.app = r.app
    BY DEF Blank
  <2>2. PICK l : Goto(p, l) /\ Keep(p, j) /\ published' = published
    BY <1>3 DEF DeleteBegin, PinBegin, DownloadRead
  <2> HIDE DEF j
  <2>3. pc'[p] = l /\ job'[p] = j
    BY <2>2 DEF Goto, Keep, TypeOK
  <2>4. CarriesRow(p)'
    BY <2>1, <2>2, <2>3 DEF CarriesRow, Sent, Anchored
  <2>5. QED
    BY <2>2, <2>4, CarriedByOthers
<1>4. QED
  BY <1>1, <1>2, <1>3 DEF Request

(* Time, kills, starts and the orphan scan keep what requests carry. *)
LEMMA EnvironmentCarried ==
    ASSUME TypeOK, Carried, Environment
    PROVE  Carried'
<1> USE DEF durable, history, budget, Receiving, Handling
<1>1. CASE Crash
  BY <1>1 DEF Crash, Carried, CarriesRow
<1>2. CASE ~Crash
  <2>1. pc' = pc /\ job' = job /\ published' = published
    BY <1>2 DEF Environment, Tick, Boot, OrphanScanEnd, OrphanRemove, ScanCutShort
  <2>2. QED
    BY <2>1 DEF Carried, CarriesRow, Sent
<1>3. QED
  BY <1>1, <1>2

-----------------------------------------------------------------------------
(* Rows and pointers designate what was published *)

Points(A) ==
    \A x \in A, q \in Platforms :
        x.cur[q] # 0 => [id |-> x.cur[q], app |-> x.id, plat |-> q] \in published

(* A pointer that is cleared or set to what was published designates what  *)
(* was published.                                                          *)
LEMMA SetCurrentPoints ==
    ASSUME TypeOK, Points(apps), NEW a, NEW v, NEW plat \in Platforms,
           SetAppCurrentVersion(a, v, plat),
           v = 0 \/ [id |-> v, app |-> a, plat |-> plat] \in published
    PROVE  Points(apps')
<1> SUFFICES ASSUME NEW y \in apps', NEW q \in Platforms, y.cur[q] # 0
             PROVE  [id |-> y.cur[q], app |-> y.id, plat |-> q] \in published
  BY DEF Points
<1> PICK x \in apps : y = IF x.id = a THEN [x EXCEPT !.cur[plat] = v] ELSE x
  BY DEF SetAppCurrentVersion
<1>1. x \in App
  BY DEF TypeOK
<1>2. CASE x.id = a
  <2>1. y.id = a /\ y.cur = [x.cur EXCEPT ![plat] = v]
    BY <1>1, <1>2 DEF App
  <2>2. y.cur[q] = IF q = plat THEN v ELSE x.cur[q]
    BY <1>1, <2>1 DEF App
  <2>3. QED
    BY <1>2, <2>1, <2>2 DEF Points
<1>3. CASE x.id # a
  BY <1>3 DEF Points
<1>4. QED
  BY <1>2, <1>3

(* Setting a bundle id leaves what the pointers designate. *)
LEMMA SetBundlePoints ==
    ASSUME TypeOK, Points(apps), NEW a, NEW plat, NEW b, SetAppBundleID(a, plat, b)
    PROVE  Points(apps')
<1> SUFFICES ASSUME NEW y \in apps', NEW q \in Platforms, y.cur[q] # 0
             PROVE  [id |-> y.cur[q], app |-> y.id, plat |-> q] \in published
  BY DEF Points
<1> PICK x \in apps : y = IF x.id = a THEN [x EXCEPT !.bundle[plat] = b] ELSE x
  BY DEF SetAppBundleID
<1>1. x \in App
  BY DEF TypeOK
<1>2. y.id = x.id /\ y.cur = x.cur
  BY <1>1 DEF App
<1>3. QED
  BY <1>2 DEF Points

(* A step that publishes nothing keeps the anchors when its rows and       *)
(* pointers do.                                                            *)
LEMMA AnchoredBy ==
    ASSUME Anchored, published' = published, versions' \subseteq versions, Points(apps')
    PROVE  Anchored'
BY DEF Anchored, Points, Sent

(* Every step of a request keeps ids unique and pointers anchored. *)
LEMMA StepAnchored ==
    ASSUME TypeOK, Carried, Anchored, NEW p \in Procs, Step(p)
    PROVE  Anchored'
<1> USE DEF durable, history, budget
<1>1. Points(apps) /\ job[p].row.build.plat \in Platforms
  BY JobFields, BuildsAssumption DEF Anchored, Points
<1>2. CASE UploadInsert(p)
  <2> DEFINE r == [job[p].row EXCEPT !.id = NextVid, !.at = clock]
  <2>1. r.id = lastVid + 1 /\ lastVid \in Nat
    BY JobFields DEF Row, NextVid, TypeOK
  <2>2. versions' = versions \cup {r} /\ apps' = apps /\ published' = published \cup {Sent(r)}
    BY <1>2 DEF UploadInsert, Sent
  <2> HIDE DEF r
  <2>3. \A w \in published : w.id # Sent(r).id
    BY <2>1 DEF TypeOK, Sent
  <2>4. QED
    BY <2>2, <2>3 DEF Anchored, Sent
<1>3. CASE UploadPromote(p) \/ PinWrite(p)
  <2>1. /\ published' = published /\ versions' = versions
        /\ \/ SetAppCurrentVersion(job[p].app, job[p].row.id, job[p].row.build.plat)
           \/ UNCHANGED apps
    BY <1>3 DEF UploadPromote, PinWrite
  <2>2. [id |-> job[p].row.id, app |-> job[p].app, plat |-> job[p].row.build.plat]
          \in published
    BY <1>3 DEF UploadPromote, PinWrite, Carried, CarriesRow, Receiving, Handling, Sent
  <2>3. Points(apps')
    BY <1>1, <2>1, <2>2, SetCurrentPoints
  <2>4. QED
    BY <2>1, <2>3, AnchoredBy
<1>4. CASE DeleteClear(p)
  <2>1. /\ published' = published /\ versions' = versions
        /\ \/ SetAppCurrentVersion(job[p].app, 0, job[p].row.build.plat)
           \/ UNCHANGED apps
    BY <1>4 DEF DeleteClear
  <2>2. QED
    BY <1>1, <2>1, SetCurrentPoints, AnchoredBy
<1>5. CASE UploadBundle(p)
  <2>1. /\ published' = published /\ versions' = versions
        /\ \/ SetAppBundleID(job[p].app, job[p].row.build.plat, job[p].row.build.bundle)
           \/ UNCHANGED apps
    BY <1>5 DEF UploadBundle
  <2>2. QED
    BY <1>1, <2>1, SetBundlePoints, AnchoredBy
<1>6. CASE PruneRow(p) \/ DeleteRow(p) \/ AppDeleteRow(p)
  <2>1. published' = published /\ versions' \subseteq versions /\ apps' \subseteq apps
    BY <1>6 DEF PruneRow, DeleteRow, AppDeleteRow, DeleteVersion, DeleteApp
  <2>2. Points(apps')
    BY <1>1, <2>1 DEF Points
  <2>3. QED
    BY <2>1, <2>2, AnchoredBy
<1>7. CASE UNCHANGED <<apps, versions, published>>
  BY <1>1, <1>7, AnchoredBy
<1>8. \/ UploadInsert(p) \/ UploadPromote(p) \/ PinWrite(p) \/ DeleteClear(p)
      \/ UploadBundle(p) \/ PruneRow(p) \/ DeleteRow(p) \/ AppDeleteRow(p)
      \/ UNCHANGED <<apps, versions, published>>
  BY DEF Step, UploadEnd, UploadPart, UploadReject, UploadMove, UploadInsertFails,
         UploadUndo, PruneRead, PruneSkip, PruneList, PruneFiles, DeleteReadApp,
         DeleteFiles, AppDeleteFiles, DownloadOpen
<1>9. QED
  BY <1>2, <1>3, <1>4, <1>5, <1>6, <1>7, <1>8

(* New requests and the environment publish nothing and move no pointer. *)
LEMMA RestAnchored ==
    ASSUME TypeOK, Anchored,
           (\E p \in Procs : Request(p)) \/ Environment
    PROVE  Anchored'
<1> USE DEF durable, history, budget
<1>1. Points(apps)
  BY DEF Anchored, Points
<1>2. ASSUME NEW p \in Procs, AppCreate(p)
      PROVE  Anchored'
  <2> DEFINE x == [id |-> lastApp + 1, cur |-> [q \in Platforms |-> 0],
                   bundle |-> [q \in Platforms |-> NoBundle]]
  <2>1. apps' = apps \cup {x} /\ UNCHANGED <<versions, published>>
    BY <1>2 DEF AppCreate
  <2>2. \A q \in Platforms : x.cur[q] = 0
    OBVIOUS
  <2> HIDE DEF x
  <2>3. Points(apps')
    BY <1>1, <2>1, <2>2 DEF Points
  <2>4. QED
    BY <2>1, <2>3, AnchoredBy
<1>3. CASE UNCHANGED <<apps, versions, published>>
  BY <1>1, <1>3, AnchoredBy
<1>4. (\E p \in Procs : AppCreate(p)) \/ UNCHANGED <<apps, versions, published>>
  BY DEF Request, Environment, UploadBegin, AppDeleteList, DeleteBegin, PinBegin,
         DownloadRead, Tick, Crash, Boot, OrphanScanEnd, OrphanRemove, ScanCutShort
<1>5. QED
  BY <1>2, <1>3, <1>4

-----------------------------------------------------------------------------
(* The inductive invariant *)

(* The inductive invariant holds initially, *)
LEMMA InitIInv == Init => IInv
<1> SUFFICES ASSUME Init PROVE IInv
  OBVIOUS
<1>1. TypeOK
  BY InitType
<1>2. Carried /\ Anchored
  BY DEF Init, Carried, CarriesRow, Anchored, Receiving, Handling
<1>3. QED
  BY <1>1, <1>2 DEF IInv

(* and every step, stuttering included, keeps it. *)
LEMMA NextIInv == IInv /\ [Next]_vars => IInv'
<1> SUFFICES ASSUME TypeOK, Carried, Anchored, [Next]_vars
             PROVE  TypeOK' /\ Carried' /\ Anchored'
  BY DEF IInv
<1>1. ASSUME NEW p \in Procs, Step(p)
      PROVE  TypeOK' /\ Carried' /\ Anchored'
  BY <1>1, StepType, StepCarried, StepAnchored
<1>2. ASSUME NEW p \in Procs, Request(p)
      PROVE  TypeOK' /\ Carried' /\ Anchored'
  BY <1>2, BeginRequestType, BeginRequestCarried, RestAnchored
<1>3. CASE Environment
  BY <1>3, EnvironmentType, EnvironmentCarried, RestAnchored
<1>4. CASE UNCHANGED vars
  <2>1. TypeOK'
    BY <1>4, SameTypes DEF vars, durable, history, budget, TypeOK
  <2>2. Carried' /\ Anchored'
    BY <1>4 DEF vars, durable, history, budget, Carried, CarriesRow, Anchored, Sent
  <2>3. QED
    BY <2>1, <2>2
<1>5. QED
  BY <1>1, <1>2, <1>3, <1>4 DEF Next

(* Rows, pointers and the locals of requests have their types, requests    *)
(* carry rows that were published, and ids are published once.             *)
THEOREM Invariance == Spec => []IInv
BY InitIInv, NextIInv, PTL DEF Spec

(* Every variable always has its type. *)
THEOREM TypeCorrectness == Spec => []TypeOK
<1>1. IInv => TypeOK
  BY DEF IInv
<1>2. QED
  BY <1>1, Invariance, PTL

(* A pointer to a listed version is one to a version of its own app.       *)
LEMMA PointersAnchored == IInv => CurrentNeverAliases
<1> SUFFICES ASSUME IInv, NEW x \in apps, NEW q \in Platforms, NEW r \in versions,
                    x.cur[q] = r.id
             PROVE  r.app = x.id /\ r.build.plat = q
  BY DEF CurrentNeverAliases
<1>1. x.cur[q] # 0
  BY DEF IInv, TypeOK, Listable
<1>2. [id |-> r.id, app |-> x.id, plat |-> q] = Sent(r)
  BY <1>1 DEF IInv, Anchored, Sent
<1>3. QED
  BY <1>2 DEF Sent

(* A pointer to a listed version is one to a version of its own app and    *)
(* platform: SQLite's counter never hands an id out again, and a request   *)
(* sets a pointer only to the row it inserted or read.                     *)
THEOREM NoAliases == Spec => []CurrentNeverAliases
BY PointersAnchored, Invariance, PTL

-----------------------------------------------------------------------------
(* Catalog implements Shelf *)

Pointer(x, q) == [app |-> x.id, plat |-> q, id |-> x.cur[q]]

(* What Current holds, before and after a step *)
LEMMA CurrentIs ==
    /\ \A d : d \in Current <=> \E x \in apps, q \in Platforms : x.cur[q] # 0 /\ d = Pointer(x, q)
    /\ \A d : d \in Current' <=> \E x \in apps', q \in Platforms : x.cur[q] # 0 /\ d = Pointer(x, q)
BY DEF Current, Pointers, Pointer

(* UPDATE apps SET current_..., row by row *)
LEMMA AfterSetCurrent ==
    ASSUME TypeOK, NEW a, NEW v, NEW plat \in Platforms, NEW x \in apps, NEW q \in Platforms
    PROVE  LET y == IF x.id = a THEN [x EXCEPT !.cur[plat] = v] ELSE x
           IN  /\ y.id = x.id
               /\ y.cur[q] = IF x.id = a /\ q = plat THEN v ELSE x.cur[q]
<1>1. x \in App
  BY DEF TypeOK
<1>2. CASE x.id = a
  <2> DEFINE y == [x EXCEPT !.cur[plat] = v]
  <2>1. y.id = a /\ y.cur = [x.cur EXCEPT ![plat] = v]
    BY <1>1, <1>2 DEF App
  <2>2. y.cur[q] = IF q = plat THEN v ELSE x.cur[q]
    BY <1>1, <2>1 DEF App
  <2>3. QED
    BY <1>2, <2>1, <2>2
<1>3. CASE x.id # a
  BY <1>3
<1>4. QED
  BY <1>2, <1>3

(* Setting the pointer of an app that is there moves that pointer only;    *)
(* no row matches an app that is gone.                                     *)
LEMMA SetCurrentPoint ==
    ASSUME TypeOK, NEW a, NEW v, v # 0, NEW plat \in Platforms,
           SetAppCurrentVersion(a, v, plat)
    PROVE  LET c == [app |-> a, plat |-> plat, id |-> v]
           IN  \/ Current' = Current
               \/ /\ c \in Current'
                  /\ Current' = {d \in Current : d.app # a \/ d.plat # plat} \cup {c}
<1> DEFINE new(x) == IF x.id = a THEN [x EXCEPT !.cur[plat] = v] ELSE x
           c == [app |-> a, plat |-> plat, id |-> v]
<1>1. apps' = {new(x) : x \in apps}
  BY DEF SetAppCurrentVersion
<1>2. \A x \in apps, q \in Platforms :
        new(x).id = x.id /\ new(x).cur[q] = IF x.id = a /\ q = plat THEN v ELSE x.cur[q]
  BY AfterSetCurrent
<1>3. CASE \A x \in apps : x.id # a
  <2>1. apps' = apps
    BY <1>1, <1>3
  <2>2. QED
    BY <2>1, CurrentIs
<1>4. CASE \E x \in apps : x.id = a
  <2> PICK w \in apps : w.id = a
    BY <1>4
  <2> HIDE DEF new
  <2>1. c \in Current'
    <3>1. new(w) \in apps' /\ Pointer(new(w), plat) = c /\ new(w).cur[plat] # 0
      BY <1>1, <1>2 DEF Pointer
    <3>2. QED
      BY <3>1, CurrentIs
  <2>2. ASSUME NEW d \in Current', d # c
        PROVE  d \in Current /\ (d.app # a \/ d.plat # plat)
    <3> PICK x \in apps, q \in Platforms : new(x).cur[q] # 0 /\ d = Pointer(new(x), q)
      BY <1>1, CurrentIs
    <3>1. ~(x.id = a /\ q = plat)
      BY <1>2, <2>2 DEF Pointer
    <3>2. d = Pointer(x, q) /\ x.cur[q] # 0 /\ (d.app # a \/ d.plat # plat)
      BY <1>2, <3>1 DEF Pointer
    <3>3. QED
      BY <3>2, CurrentIs
  <2>3. ASSUME NEW d \in Current, d.app # a \/ d.plat # plat
        PROVE  d \in Current'
    <3> PICK x \in apps, q \in Platforms : x.cur[q] # 0 /\ d = Pointer(x, q)
      BY CurrentIs
    <3>1. ~(x.id = a /\ q = plat)
      BY <2>3 DEF Pointer
    <3>2. new(x) \in apps' /\ new(x).cur[q] # 0 /\ d = Pointer(new(x), q)
      BY <1>1, <1>2, <3>1 DEF Pointer
    <3>3. QED
      BY <3>2, CurrentIs
  <2>4. QED
    BY <2>1, <2>2, <2>3
<1>5. QED
  BY <1>3, <1>4

(* Clearing a pointer leaves the others. *)
LEMMA ClearUnpoints ==
    ASSUME TypeOK, NEW a, NEW plat \in Platforms, SetAppCurrentVersion(a, 0, plat)
    PROVE  Current' \subseteq Current
<1> DEFINE new(x) == IF x.id = a THEN [x EXCEPT !.cur[plat] = 0] ELSE x
<1>1. apps' = {new(x) : x \in apps}
  BY DEF SetAppCurrentVersion
<1>2. \A x \in apps, q \in Platforms :
        new(x).id = x.id /\ new(x).cur[q] = IF x.id = a /\ q = plat THEN 0 ELSE x.cur[q]
  BY AfterSetCurrent
<1> HIDE DEF new
<1> SUFFICES ASSUME NEW d \in Current' PROVE d \in Current
  OBVIOUS
<1> PICK x \in apps, q \in Platforms : new(x).cur[q] # 0 /\ d = Pointer(new(x), q)
  BY <1>1, CurrentIs
<1>3. d = Pointer(x, q) /\ x.cur[q] # 0
  BY <1>2 DEF Pointer
<1>4. QED
  BY <1>3, CurrentIs

(* Setting a bundle id moves no pointer. *)
LEMMA BundleKeepsPointers ==
    ASSUME TypeOK, NEW a, NEW plat, NEW b, SetAppBundleID(a, plat, b)
    PROVE  Current' = Current
<1> DEFINE new(x) == IF x.id = a THEN [x EXCEPT !.bundle[plat] = b] ELSE x
<1>1. apps' = {new(x) : x \in apps}
  BY DEF SetAppBundleID
<1>2. \A x \in apps : new(x).id = x.id /\ new(x).cur = x.cur
  BY DEF TypeOK, App
<1> HIDE DEF new
<1>3. \A x \in apps, q \in Platforms : Pointer(new(x), q) = Pointer(x, q)
  BY <1>2 DEF Pointer
<1>4. ASSUME NEW d \in Current' PROVE d \in Current
  <2> PICK x \in apps, q \in Platforms : new(x).cur[q] # 0 /\ d = Pointer(new(x), q)
    BY <1>1, CurrentIs
  <2>1. x.cur[q] # 0 /\ d = Pointer(x, q)
    BY <1>2, <1>3
  <2>2. QED
    BY <2>1, CurrentIs
<1>5. ASSUME NEW d \in Current PROVE d \in Current'
  <2> PICK x \in apps, q \in Platforms : x.cur[q] # 0 /\ d = Pointer(x, q)
    BY CurrentIs
  <2>1. new(x) \in apps' /\ new(x).cur[q] # 0 /\ d = Pointer(new(x), q)
    BY <1>1, <1>2, <1>3
  <2>2. QED
    BY <2>1, CurrentIs
<1>6. QED
  BY <1>4, <1>5

(* Every step of Catalog is one of Shelf, or leaves the shelf as it is. *)
LEMMA StepShelf ==
    ASSUME IInv, NEW p \in Procs, Step(p)
    PROVE  [S!Next]_(S!shelf)
<1> USE DEF durable, history, budget
<1>1. /\ TypeOK /\ Carried /\ Anchored
      /\ job[p].row.build.plat \in Platforms
  BY JobFields, BuildsAssumption DEF IInv
<1>2. CASE UploadInsert(p)
  <2> DEFINE r == [job[p].row EXCEPT !.id = NextVid, !.at = clock]
  <2>1. r.id = lastVid + 1 /\ lastVid \in Nat
    BY <1>1, JobFields DEF Row, NextVid, TypeOK
  <2>2. versions' = versions \cup {r} /\ apps' = apps /\ published' = published \cup {Sent(r)}
    BY <1>2 DEF UploadInsert, Sent
  <2> HIDE DEF r
  <2>3. \A w \in published : w.id # Sent(r).id
    BY <1>1, <2>1 DEF TypeOK, Sent
  <2>4. Listed' = Listed \cup {Sent(r).id} /\ Current' = Current
    BY <2>2 DEF Listed, Sent, Current, Pointers
  <2>5. S!Publish
    BY <2>2, <2>3, <2>4 DEF S!Publish
  <2>6. QED
    BY <2>5 DEF S!Next
<1>3. CASE UploadPromote(p) \/ PinWrite(p)
  <2> DEFINE c == [app |-> job[p].app, plat |-> job[p].row.build.plat, id |-> job[p].row.id]
  <2>1. /\ published' = published /\ Listed' = Listed
        /\ \/ SetAppCurrentVersion(job[p].app, job[p].row.id, job[p].row.build.plat)
           \/ UNCHANGED apps
    BY <1>3 DEF UploadPromote, PinWrite, Listed
  <2>2. Sent(job[p].row) \in published /\ job[p].row.app = job[p].app
    BY <1>1, <1>3 DEF UploadPromote, PinWrite, Carried, CarriesRow, Handling
  <2>3. job[p].row.id # 0
    BY <1>1, <2>2 DEF TypeOK, Sent
  <2>4. \/ Current' = Current
        \/ /\ c \in Current'
           /\ Current' = {d \in Current : d.app # c.app \/ d.plat # c.plat} \cup {c}
    <3>1. CASE UNCHANGED apps
      BY <3>1 DEF Current, Pointers
    <3>2. CASE SetAppCurrentVersion(job[p].app, job[p].row.id, job[p].row.build.plat)
      BY <1>1, <2>3, <3>2, SetCurrentPoint
    <3>3. QED
      BY <2>1, <3>1, <3>2
  <2>5. CASE Current' = Current
    BY <2>1, <2>5 DEF S!shelf
  <2>6. CASE /\ c \in Current'
             /\ Current' = {d \in Current : d.app # c.app \/ d.plat # c.plat} \cup {c}
    <3>1. \E v \in published : v.id = c.id /\ v.app = c.app /\ v.plat = c.plat
      BY <2>2 DEF Sent
    <3> HIDE DEF c
    <3>2. S!Point
      BY <2>1, <2>6, <3>1 DEF S!Point
    <3>3. QED
      BY <3>2 DEF S!Next
  <2>7. QED
    BY <2>4, <2>5, <2>6
<1>4. CASE DeleteClear(p)
  <2>1. /\ published' = published /\ Listed' = Listed
        /\ \/ SetAppCurrentVersion(job[p].app, 0, job[p].row.build.plat)
           \/ UNCHANGED apps
    BY <1>4 DEF DeleteClear, Listed
  <2>2. Current' \subseteq Current
    <3>1. CASE UNCHANGED apps
      BY <3>1 DEF Current, Pointers
    <3>2. CASE SetAppCurrentVersion(job[p].app, 0, job[p].row.build.plat)
      BY <1>1, <3>2, ClearUnpoints
    <3>3. QED
      BY <2>1, <3>1, <3>2
  <2>3. QED
    BY <2>1, <2>2 DEF S!Next, S!Unpoint
<1>5. CASE UploadBundle(p)
  <2>1. /\ published' = published /\ Listed' = Listed
        /\ \/ SetAppBundleID(job[p].app, job[p].row.build.plat, job[p].row.build.bundle)
           \/ UNCHANGED apps
    BY <1>5 DEF UploadBundle, Listed
  <2>2. Current' = Current
    <3>1. CASE UNCHANGED apps
      BY <3>1 DEF Current, Pointers
    <3>2. CASE SetAppBundleID(job[p].app, job[p].row.build.plat, job[p].row.build.bundle)
      BY <1>1, <3>2, BundleKeepsPointers
    <3>3. QED
      BY <2>1, <3>1, <3>2
  <2>3. QED
    BY <2>1, <2>2 DEF S!shelf
<1>6. CASE PruneRow(p) \/ DeleteRow(p) \/ AppDeleteRow(p)
  <2>1. published' = published /\ versions' \subseteq versions /\ apps' \subseteq apps
    BY <1>6 DEF PruneRow, DeleteRow, AppDeleteRow, DeleteVersion, DeleteApp
  <2>2. Listed' \subseteq Listed
    BY <2>1 DEF Listed
  <2>3. Current' \subseteq Current
    BY <2>1 DEF Current, Pointers
  <2>4. QED
    BY <2>1, <2>2, <2>3 DEF S!Next, S!Unpoint
<1>7. CASE UNCHANGED <<apps, versions, published>>
  BY <1>7 DEF S!shelf, Listed, Current, Pointers
<1>8. \/ UploadInsert(p) \/ UploadPromote(p) \/ PinWrite(p) \/ DeleteClear(p)
      \/ UploadBundle(p) \/ PruneRow(p) \/ DeleteRow(p) \/ AppDeleteRow(p)
      \/ UNCHANGED <<apps, versions, published>>
  BY DEF Step, UploadEnd, UploadPart, UploadReject, UploadMove, UploadInsertFails,
         UploadUndo, PruneRead, PruneSkip, PruneList, PruneFiles, DeleteReadApp,
         DeleteFiles, AppDeleteFiles, DownloadOpen
<1>9. QED
  BY <1>2, <1>3, <1>4, <1>5, <1>6, <1>7, <1>8

(* New requests and the environment leave the shelf as it is. *)
LEMMA RestShelf ==
    ASSUME (\E p \in Procs : Request(p)) \/ Environment \/ UNCHANGED vars
    PROVE  UNCHANGED S!shelf
<1> USE DEF durable, history, budget
<1>1. ASSUME NEW p \in Procs, AppCreate(p)
      PROVE  UNCHANGED S!shelf
  <2> DEFINE x == [id |-> lastApp + 1, cur |-> [q \in Platforms |-> 0],
                   bundle |-> [q \in Platforms |-> NoBundle]]
  <2>1. apps' = apps \cup {x} /\ UNCHANGED <<versions, published>>
    BY <1>1 DEF AppCreate
  <2>2. \A q \in Platforms : x.cur[q] = 0
    OBVIOUS
  <2> HIDE DEF x
  <2>3. Current' = Current
    <3>1. \A d : (\E y \in apps', q \in Platforms : y.cur[q] # 0 /\ d = Pointer(y, q))
                 <=> (\E y \in apps, q \in Platforms : y.cur[q] # 0 /\ d = Pointer(y, q))
      BY <2>1, <2>2
    <3>2. \A d : d \in Current' <=> d \in Current
      BY <3>1, CurrentIs
    <3>3. Current' \subseteq Current /\ Current \subseteq Current'
      BY <3>2
    <3>4. QED
      BY <3>3
  <2>4. QED
    BY <2>1, <2>3 DEF S!shelf, Listed
<1>2. CASE UNCHANGED <<apps, versions, published>>
  BY <1>2 DEF S!shelf, Listed, Current, Pointers
<1>3. (\E p \in Procs : AppCreate(p)) \/ UNCHANGED <<apps, versions, published>>
  BY DEF Request, Environment, UploadBegin, AppDeleteList, DeleteBegin, PinBegin,
         DownloadRead, Tick, Crash, Boot, OrphanScanEnd, OrphanRemove, ScanCutShort, vars
<1>4. QED
  BY <1>1, <1>2, <1>3

(* The catalogue implements Shelf: ids are published once and never listed *)
(* again once withdrawn, and a pointer moves only to a version published   *)
(* for its app and platform, whatever requests interleave and whenever the *)
(* process is killed.                                                      *)
THEOREM Refinement == Spec => ImplementsShelf
<1>1. Init => S!Init
  BY DEF Init, S!Init, Listed, Current, Pointers
<1>2. IInv /\ [Next]_vars => [S!Next]_(S!shelf)
  <2> SUFFICES ASSUME IInv, [Next]_vars PROVE [S!Next]_(S!shelf)
    OBVIOUS
  <2>1. ASSUME NEW p \in Procs, Step(p)
        PROVE  [S!Next]_(S!shelf)
    BY <2>1, StepShelf
  <2>2. CASE (\E p \in Procs : Request(p)) \/ Environment \/ UNCHANGED vars
    BY <2>2, RestShelf
  <2>3. QED
    BY <2>1, <2>2 DEF Next
<1>3. QED
  BY <1>1, <1>2, Invariance, PTL DEF Spec, ImplementsShelf, S!Spec

-----------------------------------------------------------------------------
(* What a step does to the locals of requests *)

(* A path and a stamp tell the same uploads apart. *)
LEMMA SamePath ==
    ASSUME NEW r, NEW s
    PROVE  Path(r) = Path(s) <=> Stamp(r) = Stamp(s)
BY DEF Path, Stamp

(* A step of one request leaves the locals of the others. *)
LEMMA OthersStand ==
    ASSUME TypeOK, NEW p \in Procs, Step(p) \/ Request(p)
    PROVE  \A q \in Procs \ {p} :
             pc'[q] = pc[q] /\ job'[q] = job[q] /\ HeldBy(q)' = HeldBy(q)
<1> USE DEF Finish, NextPart
<1>1. UNCHANGED pc \/ \E l : Goto(p, l)
  <2>1. CASE Step(p)
    BY <2>1 DEF Step, UploadEnd, UploadPart, UploadReject, UploadMove, UploadInsert,
         UploadInsertFails, UploadUndo, UploadPromote, UploadBundle, PruneRead, PruneSkip,
         PruneList, PruneFiles, PruneRow, DeleteReadApp, DeleteClear, DeleteFiles, DeleteRow,
         PinWrite, AppDeleteFiles, AppDeleteRow, DownloadOpen
  <2>2. CASE Request(p)
    BY <2>2 DEF Request, AppCreate, UploadBegin, AppDeleteList, DeleteBegin, PinBegin,
         DownloadRead
  <2>3. QED
    BY <2>1, <2>2
<1>2. UNCHANGED job \/ \E j : Keep(p, j)
  <2>1. CASE Step(p)
    BY <2>1 DEF Step, UploadEnd, UploadPart, UploadReject, UploadMove, UploadInsert,
         UploadInsertFails, UploadUndo, UploadPromote, UploadBundle, PruneRead, PruneSkip,
         PruneList, PruneFiles, PruneRow, DeleteReadApp, DeleteClear, DeleteFiles, DeleteRow,
         PinWrite, AppDeleteFiles, AppDeleteRow, DownloadOpen, RemoveFileOf
  <2>2. CASE Request(p)
    BY <2>2 DEF Request, AppCreate, UploadBegin, AppDeleteList, DeleteBegin, PinBegin,
         DownloadRead
  <2>3. QED
    BY <2>1, <2>2
<1>3. \A q \in Procs \ {p} : pc'[q] = pc[q] /\ job'[q] = job[q]
  BY <1>1, <1>2 DEF Goto, Keep, TypeOK
<1>4. QED
  BY <1>3 DEF HeldBy

(* The rows a request holds, field by field *)
LEMMA HeldByIs ==
    ASSUME NEW p
    PROVE  /\ HeldBy(p) = job[p].todo \cup
                {r \in {job[p].row} : pc[p] \in Handling \cup {"pruneRow"}}
           /\ HeldBy(p)' = job'[p].todo \cup
                {r \in {job'[p].row} : pc'[p] \in Handling \cup {"pruneRow"}}
BY DEF HeldBy

(* Only an INSERT makes a row: every other step of a request hands on rows *)
(* of the table or rows that it held.                                      *)
LEMMA StepRows ==
    ASSUME TypeOK, NEW p \in Procs, Step(p), ~UploadInsert(p)
    PROVE  versions' \subseteq versions /\ Rows' \subseteq Rows
<1> USE DEF durable, Handling
<1>0. job \in [Procs -> Job] /\ pc \in [Procs -> Labels] /\ job[p] \in Job
  BY DEF TypeOK
<1>1. versions' \subseteq versions
  BY DEF Step, UploadEnd, UploadPart, UploadReject, UploadMove, UploadInsertFails,
         UploadUndo, UploadPromote, UploadBundle, PruneRead, PruneSkip, PruneList,
         PruneFiles, PruneRow, DeleteReadApp, DeleteClear, DeleteFiles, DeleteRow,
         PinWrite, AppDeleteFiles, AppDeleteRow, DownloadOpen, DeleteVersion, DeleteApp
<1>2. HeldBy(p)' \subseteq versions \cup HeldBy(p)
  <2>1. CASE Finish(p) \/ NextPart(p)
    <3>1. pc'[p] \in {"idle", "parts"} /\ job'[p].todo = {}
      BY <1>0, <2>1 DEF Finish, NextPart, Goto, Keep, Blank
    <3>2. QED
      BY <3>1, HeldByIs
  <2>2. CASE \/ UploadInsertFails(p) \/ UploadPromote(p) \/ UploadBundle(p) \/ DeleteClear(p)
             \/ DeleteReadApp(p) /\ UNCHANGED job
    <3>1. job' = job /\ (pc'[p] \in Handling => pc[p] \in Handling) /\ pc'[p] # "pruneRow"
      BY <1>0, <2>2 DEF UploadInsertFails, UploadPromote, UploadBundle, DeleteClear,
                        DeleteReadApp, Goto, Finish
    <3>2. QED
      BY <3>1, HeldByIs
  <2>3. CASE (\E b \in Builds : UploadPart(p, b)) \/ UploadMove(p)
    <3>1. pc'[p] \in {"stream", "insert"} /\ job'[p].todo = job[p].todo
      <4>1. CASE UploadMove(p)
        <5>1. PICK r : Keep(p, [job[p] EXCEPT !.row = r])
          BY <4>1 DEF UploadMove
        <5>2. QED
          BY <1>0, <4>1, <5>1 DEF UploadMove, Goto, Keep, Job
      <4>2. ASSUME NEW b \in Builds, UploadPart(p, b)
            PROVE  pc'[p] \in {"stream", "insert"} /\ job'[p].todo = job[p].todo
        <5>1. PICK r, f : Keep(p, [job[p] EXCEPT !.row = r, !.fresh = f])
          BY <4>2 DEF UploadPart
        <5>2. QED
          BY <1>0, <4>2, <5>1 DEF UploadPart, Goto, Keep, Job
      <4>3. QED
        BY <2>3, <4>1, <4>2
    <3>2. QED
      BY <3>1, HeldByIs
  <2>4. CASE PruneRead(p)
    <3>1. PICK c : Keep(p, [job[p] EXCEPT !.cur = c])
      BY <2>4 DEF PruneRead
    <3>2. job'[p].todo = job[p].todo /\ job'[p].row = job[p].row
      BY <1>0, <3>1 DEF Keep, Job
    <3>3. pc[p] = "pruneRead" /\ pc'[p] = "pruneList"
      BY <1>0, <2>4 DEF PruneRead, Goto
    <3>4. QED
      BY <3>2, <3>3, HeldByIs
  <2>5. CASE PruneList(p) /\ ~NextPart(p)
    <3>1. PICK D : D \subseteq versions /\ Keep(p, [job[p] EXCEPT !.todo = D]) /\ Goto(p, "prune")
      BY <2>5 DEF PruneList, ListVersionsToPrune, AfterNewest
    <3>2. job'[p].todo = D /\ pc'[p] = "prune"
      BY <1>0, <3>1 DEF Keep, Goto, Job
    <3>3. QED
      BY <3>1, <3>2, HeldByIs
  <2>6. ASSUME NEW r \in HeldBy(p), NEW rest, rest \subseteq job[p].todo, RemoveFileOf(p, r, rest)
        PROVE  HeldBy(p)' \subseteq HeldBy(p)
    <3>1. PICK g : Keep(p, [job[p] EXCEPT !.row = r, !.todo = rest, !.gone = g])
      BY <2>6 DEF RemoveFileOf
    <3>2. job'[p].todo = rest /\ job'[p].row = r
      BY <1>0, <3>1 DEF Keep, Job
    <3>3. QED
      BY <2>6, <3>2, HeldByIs
  <2>7. CASE PruneFiles(p) \/ AppDeleteFiles(p)
    <3>1. PICK r \in job[p].todo : RemoveFileOf(p, r, job[p].todo \ {r})
      BY <2>7 DEF PruneFiles, AppDeleteFiles
    <3>2. r \in HeldBy(p)
      BY HeldByIs
    <3>3. QED
      BY <2>6, <3>1, <3>2
  <2>8. CASE DeleteFiles(p)
    <3>1. RemoveFileOf(p, job[p].row, {}) /\ pc[p] = "delFiles"
      BY <2>8 DEF DeleteFiles
    <3>2. job[p].row \in HeldBy(p)
      BY <3>1, HeldByIs
    <3>3. QED
      BY <2>6, <3>1, <3>2
  <2>9. CASE PruneRow(p) /\ ~NextPart(p)
    <3>1. Goto(p, "prune") /\ Keep(p, [job[p] EXCEPT !.gone = {}])
      BY <2>9 DEF PruneRow
    <3>2. job'[p].todo = job[p].todo /\ pc'[p] = "prune"
      BY <1>0, <3>1 DEF Keep, Goto, Job
    <3>3. QED
      BY <3>2, HeldByIs
  <2>10. \/ Finish(p) \/ NextPart(p)
         \/ UploadInsertFails(p) \/ UploadPromote(p) \/ UploadBundle(p) \/ DeleteClear(p)
         \/ DeleteReadApp(p) /\ UNCHANGED job
         \/ (\E b \in Builds : UploadPart(p, b)) \/ UploadMove(p) \/ PruneRead(p)
         \/ PruneList(p) /\ ~NextPart(p)
         \/ PruneFiles(p) \/ AppDeleteFiles(p) \/ DeleteFiles(p)
         \/ PruneRow(p) /\ ~NextPart(p)
    BY DEF Step, UploadEnd, UploadReject, UploadUndo, PruneSkip, DeleteReadApp, DeleteRow,
           PinWrite, AppDeleteRow, DownloadOpen
  <2>11. QED
    BY <2>1, <2>2, <2>3, <2>4, <2>5, <2>7, <2>8, <2>9, <2>10
<1>3. \A q \in Procs \ {p} : HeldBy(q)' = HeldBy(q)
  BY OthersStand
<1>4. QED
  BY <1>1, <1>2, <1>3 DEF Rows

(* A new request holds a row it read from the table, if any. *)
LEMMA BeginRows ==
    ASSUME TypeOK, NEW p \in Procs, Request(p)
    PROVE  versions' = versions /\ Rows' \subseteq Rows
<1> USE DEF durable
<1>1. versions' = versions
  BY DEF Request, AppCreate, UploadBegin, AppDeleteList, DeleteBegin, PinBegin, DownloadRead
<1>2. HeldBy(p)' \subseteq versions \cup HeldBy(p)
  <2>1. CASE AppCreate(p)
    BY <2>1 DEF AppCreate, HeldBy
  <2>2. ASSUME NEW x \in apps, UploadBegin(p, x.id) \/ AppDeleteList(p, x.id)
        PROVE  HeldBy(p)' \subseteq versions
    <3>1. \/ Keep(p, [Blank EXCEPT !.app = x.id])
          \/ \E D \in SUBSET versions : Keep(p, [Blank EXCEPT !.app = x.id, !.todo = D])
      BY <2>2 DEF UploadBegin, AppDeleteList
    <3>2. job'[p].todo \subseteq versions
      BY <3>1 DEF Keep, Blank, TypeOK
    <3>3. pc'[p] \in {"parts", "appFiles"}
      BY <2>2 DEF UploadBegin, AppDeleteList, Goto, TypeOK
    <3>4. QED
      BY <3>2, <3>3, HeldByIs DEF Handling
  <2>3. ASSUME NEW r \in versions, DeleteBegin(p, r) \/ PinBegin(p, r) \/ DownloadRead(p, r)
        PROVE  HeldBy(p)' \subseteq versions
    <3>1. job'[p].todo = {} /\ job'[p].row = r
      BY <2>3 DEF DeleteBegin, PinBegin, DownloadRead, Keep, Blank, TypeOK
    <3>2. QED
      BY <3>1, HeldByIs
  <2>4. QED
    BY <2>1, <2>2, <2>3 DEF Request
<1>3. \A q \in Procs \ {p} : HeldBy(q)' = HeldBy(q)
  BY OthersStand
<1>4. QED
  BY <1>1, <1>2, <1>3 DEF Rows

(* So do the environment's steps. *)
LEMMA EnvironmentRows ==
    ASSUME TypeOK, Environment
    PROVE  /\ versions' = versions /\ Rows' \subseteq Rows
           /\ \A q \in Procs : pc'[q] = "idle" \/ (pc'[q] = pc[q] /\ job'[q] = job[q])
<1> USE DEF durable
<1>1. versions' = versions
  BY DEF Environment, Tick, Crash, Boot, OrphanScanEnd, OrphanRemove, ScanCutShort
<1>2. CASE Crash
  <2>1. \A q \in Procs : pc'[q] = "idle" /\ job'[q].todo = {}
    BY <1>2 DEF Crash, Blank
  <2>2. \A q \in Procs : HeldBy(q)' = {}
    BY <2>1, HeldByIs DEF Handling
  <2>3. QED
    BY <1>1, <2>1, <2>2 DEF Rows
<1>3. CASE UNCHANGED <<pc, job>>
  BY <1>1, <1>3 DEF Rows, HeldBy
<1>4. Crash \/ UNCHANGED <<pc, job>>
  BY DEF Environment, Tick, Boot, OrphanScanEnd, OrphanRemove, ScanCutShort
<1>5. QED
  BY <1>2, <1>3, <1>4

(* Only UploadMove brings an upload to the point where its package is at   *)
(* its path and its row is still to be inserted.                           *)
LEMMA StepMoved ==
    ASSUME TypeOK, NEW p \in Procs, Step(p) \/ Request(p), ~UploadMove(p),
           pc'[p] \in Moved
    PROVE  /\ pc[p] \in Moved /\ job'[p] = job[p]
           /\ pc'[p] = "insert" => pc[p] = "insert"
<1> USE DEF Moved, durable
<1>1. CASE UNCHANGED <<pc, job>>
  BY <1>1
<1>2. CASE UploadInsertFails(p)
  BY <1>2 DEF UploadInsertFails, Goto, TypeOK
<1>3. \A l : l \notin Moved => ~Goto(p, l)
  BY DEF Goto, TypeOK
<1>4. CASE AppDeleteFiles(p)
  BY <1>4 DEF AppDeleteFiles
<1>5. \/ UNCHANGED <<pc, job>> \/ UploadInsertFails(p) \/ AppDeleteFiles(p)
  <2>1. CASE Step(p)
    <3>1. CASE Finish(p) \/ NextPart(p)
      BY <1>3, <3>1 DEF Finish, NextPart
    <3>2. ASSUME NEW b \in Builds, UploadPart(p, b)
          PROVE  FALSE
      <4>1. Goto(p, "stream")
        BY <3>2 DEF UploadPart
      <4>2. QED
        BY <1>3, <4>1
    <3>3. CASE \/ UploadInsert(p) \/ UploadPromote(p) \/ UploadBundle(p) \/ PruneRead(p)
               \/ DeleteClear(p) \/ PruneFiles(p) \/ DeleteFiles(p)
      <4>1. \/ Goto(p, "promote") \/ Goto(p, "bundle") \/ Goto(p, "pruneRead")
            \/ Goto(p, "pruneList") \/ Goto(p, "delFiles") \/ Goto(p, "pruneRow")
            \/ Goto(p, "delRow")
        BY <3>3 DEF UploadInsert, UploadPromote, UploadBundle, PruneRead, DeleteClear,
                    PruneFiles, DeleteFiles
      <4>2. QED
        BY <1>3, <4>1
    <3>4. CASE PruneList(p) \/ PruneRow(p) \/ DeleteReadApp(p)
      <4>1. \/ Finish(p) \/ NextPart(p) \/ Goto(p, "prune") \/ Goto(p, "clear")
            \/ Goto(p, "delFiles")
        BY <3>4 DEF PruneList, PruneRow, DeleteReadApp
      <4>2. QED
        BY <1>3, <3>1, <4>1
    <3>5. \/ Finish(p) \/ NextPart(p) \/ (\E b \in Builds : UploadPart(p, b))
          \/ UploadInsert(p) \/ UploadPromote(p) \/ UploadBundle(p) \/ PruneRead(p)
          \/ DeleteClear(p) \/ PruneFiles(p) \/ DeleteFiles(p)
          \/ PruneList(p) \/ PruneRow(p) \/ DeleteReadApp(p)
          \/ UploadInsertFails(p) \/ AppDeleteFiles(p)
      BY <2>1 DEF Step, UploadEnd, UploadReject, UploadUndo, PruneSkip, DeleteRow,
           PinWrite, AppDeleteRow, DownloadOpen
    <3>6. QED
      BY <3>1, <3>2, <3>3, <3>4, <3>5
  <2>2. CASE Request(p)
    <3>1. \/ UNCHANGED <<pc, job>> \/ Goto(p, "parts") \/ Goto(p, "appFiles")
          \/ Goto(p, "delApp") \/ Goto(p, "pin") \/ Goto(p, "open")
      BY <2>2 DEF Request, AppCreate, UploadBegin, AppDeleteList, DeleteBegin, PinBegin,
           DownloadRead
    <3>2. QED
      BY <1>3, <3>1
  <2>3. QED
    BY <2>1, <2>2
<1>6. QED
  BY <1>1, <1>2, <1>3, <1>4, <1>5

-----------------------------------------------------------------------------
(* Stamps and the rows that own them *)

(* Time does not take types away: what is listable stays so. *)
LEMMA CountersGrow ==
    ASSUME TypeOK, [Next]_vars
    PROVE  /\ lastVid' \in Nat /\ lastVid <= lastVid' /\ lastApp' \in Nat /\ lastApp <= lastApp'
           /\ Listable \subseteq Listable'
<1> USE DEF durable, history, budget
<1>1. lastVid \in Nat /\ lastApp \in Nat
  BY DEF TypeOK
<1>2. ASSUME NEW p \in Procs, Step(p)
      PROVE  lastApp' = lastApp /\ (lastVid' = lastVid \/ lastVid' = lastVid + 1)
  BY <1>2 DEF Step, UploadEnd, UploadPart, UploadReject, UploadMove, UploadInsert,
         UploadInsertFails, UploadUndo, UploadPromote, UploadBundle, PruneRead, PruneSkip,
         PruneList, PruneFiles, PruneRow, DeleteReadApp, DeleteClear, DeleteFiles, DeleteRow,
         PinWrite, AppDeleteFiles, AppDeleteRow, DownloadOpen
<1>3. ASSUME NEW p \in Procs, Request(p)
      PROVE  (lastApp' = lastApp \/ lastApp' = lastApp + 1) /\ lastVid' = lastVid
  BY <1>3 DEF Request, AppCreate, UploadBegin, AppDeleteList, DeleteBegin, PinBegin,
         DownloadRead
<1>4. /\ lastApp' = lastApp \/ lastApp' = lastApp + 1
      /\ lastVid' = lastVid \/ lastVid' = lastVid + 1
  <2>1. CASE Environment \/ UNCHANGED vars
    BY <2>1 DEF Environment, Tick, Crash, Boot, OrphanScanEnd, OrphanRemove, ScanCutShort, vars
  <2>2. QED
    BY <1>2, <1>3, <2>1 DEF Next
<1>5. lastVid' \in Nat /\ lastVid <= lastVid' /\ lastApp' \in Nat /\ lastApp <= lastApp'
  BY <1>1, <1>4
<1>6. 1 .. lastVid \subseteq 1 .. lastVid' /\ 1 .. lastApp \subseteq 1 .. lastApp'
  BY <1>1, <1>5
<1>7. QED
  BY <1>5, <1>6 DEF Listable

(* A step that mints no stamp, makes no row and moves no upload keeps the  *)
(* owners.                                                                 *)
LEMMA OwnersStay ==
    ASSUME OneOwner, Listable \subseteq Listable', Rows' \subseteq Rows,
           UNCHANGED <<minted, reused>>,
           \A p \in Procs : pc'[p] \in Moved => pc[p] \in Moved /\ job'[p].row = job[p].row
    PROVE  OneOwner'
<1>1. \A p \in Procs : pc'[p] \in Moved => Stamp(job'[p].row) = Stamp(job[p].row)
  OBVIOUS
<1>2. QED
  BY <1>1 DEF OneOwner, Stamp

(* A moved upload owns its stamp, or has made it a reused one. *)
LEMMA MoveOwns ==
    ASSUME TypeOK, OneOwner, Listable \subseteq Listable', NEW p \in Procs, UploadMove(p)
    PROVE  OneOwner'
<1> DEFINE r == [job[p].row EXCEPT !.ts = clock]
           t == Stamp(r)
<1>1. Rows' \subseteq Rows /\ \A q \in Procs \ {p} : pc'[q] = pc[q] /\ job'[q] = job[q]
  <2>1. Step(p) /\ ~UploadInsert(p)
    BY DEF Step, UploadMove, UploadInsert
  <2>2. QED
    BY <2>1, StepRows, OthersStand
<1>2. minted' = minted \cup {t} /\ reused' = reused \cup ({t} \cap minted)
  BY DEF UploadMove
<1>3. job'[p].row = r
  BY JobFields DEF UploadMove, Keep, Job, TypeOK
<1> DEFINE mine(q) == Stamp(job'[q].row)
<1>4. mine(p) = t /\ \A q \in Procs \ {p} : mine(q) = Stamp(job[q].row)
  BY <1>1, <1>3
<1>5. \A x \in Rows : Stamp(x) \in minted
  BY DEF OneOwner
<1>6. \A q \in Procs \ {p} : pc[q] \in Moved => mine(q) \in minted
  BY <1>4 DEF OneOwner
<1>7. \A x, y \in Rows : Stamp(x) = Stamp(y) => x = y \/ Stamp(x) \in reused
  BY DEF OneOwner
<1>8. \A q \in Procs : pc'[q] \in Moved =>
        /\ mine(q) \in minted'
        /\ \A x \in Rows : Stamp(x) = mine(q) => mine(q) \in reused'
        /\ \A o \in Procs \ {q} : pc'[o] \in Moved /\ mine(o) = mine(q) => mine(q) \in reused'
  <2>1. ASSUME NEW q \in Procs \ {p}, pc[q] \in Moved
        PROVE  /\ \A x \in Rows : Stamp(x) = mine(q) => mine(q) \in reused
               /\ \A o \in Procs \ {p} : o # q /\ pc[o] \in Moved /\ mine(o) = mine(q)
                                          => mine(q) \in reused
    <3> HIDE DEF mine
    <3> QED BY <1>4, <2>1 DEF OneOwner
  <2> HIDE DEF mine, t
  <2>2. QED
    BY <1>1, <1>2, <1>4, <1>5, <1>6, <2>1
<1>9. \A x \in Rows' : Stamp(x)' = Stamp(x)
  BY DEF Stamp
<1>10. \A q \in Procs : Stamp(job[q].row)' = mine(q)
  BY DEF Stamp
<1>11. Rows' \subseteq Listable' /\ \A x, y \in Rows' : x.id = y.id => x = y
  BY <1>1 DEF OneOwner
<1> HIDE DEF mine, t
<1>12. QED
  BY <1>1, <1>2, <1>5, <1>7, <1>8, <1>9, <1>10, <1>11 DEF OneOwner

(* The row an INSERT adds has an id of its own and the stamp its upload    *)
(* owned.                                                                  *)
LEMMA InsertRows ==
    ASSUME TypeOK, NEW p \in Procs, UploadInsert(p)
    PROVE  LET r == job'[p].row
           IN  /\ versions' = versions \cup {r} /\ Rows' \subseteq Rows \cup {r} /\ r \in Rows'
               /\ r.id = lastVid + 1 /\ Path(r) = Path(job[p].row) /\ Stamp(r) = Stamp(job[p].row)
               /\ r.build = job[p].row.build /\ pc'[p] = "promote" /\ job'[p].gone = job[p].gone
<1> DEFINE r == [job[p].row EXCEPT !.id = NextVid, !.at = clock]
<1>1. job'[p] = [job[p] EXCEPT !.row = r] /\ versions' = versions \cup {r} /\ pc'[p] = "promote"
  BY DEF UploadInsert, Keep, Goto, TypeOK
<1>2. job'[p].row = r /\ job'[p].todo = job[p].todo /\ job'[p].gone = job[p].gone
  BY <1>1, JobFields DEF Job
<1>3. /\ r.id = lastVid + 1 /\ r.app = job[p].row.app /\ r.build = job[p].row.build
      /\ r.ts = job[p].row.ts
  BY JobFields DEF Row, NextVid
<1>4. Path(r) = Path(job[p].row) /\ Stamp(r) = Stamp(job[p].row)
  BY <1>3 DEF Path, Stamp
<1> HIDE DEF r
<1>5. Step(p)
  BY DEF Step
<1>6. \A q \in Procs \ {p} : HeldBy(q)' = HeldBy(q)
  BY <1>5, OthersStand
<1>7. HeldBy(p)' \subseteq HeldBy(p) \cup {r}
  BY <1>2, HeldByIs
<1>8. Rows' \subseteq Rows \cup {r} /\ r \in Rows'
  BY <1>1, <1>6, <1>7 DEF Rows
<1>9. QED
  BY <1>1, <1>2, <1>3, <1>4, <1>8

(* An INSERT hands the stamp of the upload to the new row. *)
LEMMA InsertOwns ==
    ASSUME IInv, OneOwner, IInv', Listable \subseteq Listable', NEW p \in Procs, UploadInsert(p)
    PROVE  OneOwner'
<1> DEFINE r == job'[p].row
           t == Stamp(job[p].row)
<1>0. TypeOK /\ TypeOK' /\ pc[p] = "insert" /\ UNCHANGED <<minted, reused>>
  BY DEF IInv, UploadInsert
<1>1. /\ versions' = versions \cup {r} /\ Rows' \subseteq Rows \cup {r} /\ r.id = lastVid + 1
      /\ Stamp(r) = t /\ pc'[p] = "promote"
  BY <1>0, InsertRows
<1>2. r \in Listable'
  BY <1>0, <1>1 DEF TypeOK
<1>3. \A x \in Rows : x.id # r.id
  BY <1>0, <1>1 DEF OneOwner, Listable, TypeOK
<1>4. t \in minted /\ \A x \in Rows : Stamp(x) = t => t \in reused
  BY <1>0 DEF OneOwner, Moved
<1>5. \A q \in Procs \ {p} : pc'[q] = pc[q] /\ job'[q] = job[q]
  <2>1. Step(p)
    BY DEF Step
  <2>2. QED
    BY <1>0, <2>1, OthersStand
<1>6. \A q \in Procs \ {p} : pc[q] \in Moved /\ Stamp(job[q].row) = t => t \in reused
  BY <1>0 DEF OneOwner, Moved
<1> HIDE DEF r
<1>7. Rows' \subseteq Listable' /\ \A x, y \in Rows' : x.id = y.id => x = y
  BY <1>1, <1>2, <1>3 DEF OneOwner
<1>8. \A x \in Rows' : Stamp(x) \in minted
  BY <1>1, <1>4 DEF OneOwner
<1>9. \A x, y \in Rows' : Stamp(x) = Stamp(y) => x = y \/ Stamp(x) \in reused
  BY <1>1, <1>4 DEF OneOwner
<1>10. \A q \in Procs : pc'[q] \in Moved =>
         /\ q # p /\ pc[q] \in Moved /\ job'[q] = job[q]
         /\ \A x \in Rows' : Stamp(x) = Stamp(job[q].row) => Stamp(x) \in reused
  BY <1>1, <1>5, <1>6 DEF OneOwner, Moved
<1>11. \A x \in Rows' : Stamp(x)' = Stamp(x)
  BY DEF Stamp
<1>12. \A q \in Procs : Stamp(job[q].row)' = Stamp(job'[q].row)
  BY DEF Stamp
<1>13. \A q \in Procs : pc'[q] \in Moved => Stamp(job[q].row)' = Stamp(job[q].row)
  BY <1>10, <1>12
<1>14. QED
  BY <1>0, <1>7, <1>8, <1>9, <1>10, <1>11, <1>13 DEF OneOwner

(* No other step mints a stamp. *)
LEMMA StampsStay ==
    ASSUME [Next]_vars, \A p \in Procs : ~UploadMove(p)
    PROVE  UNCHANGED <<minted, reused>>
<1> USE DEF history
<1>1. ASSUME NEW p \in Procs, Step(p)
      PROVE  UNCHANGED <<minted, reused>>
  BY <1>1 DEF Step, UploadEnd, UploadPart, UploadReject, UploadInsert,
         UploadInsertFails, UploadUndo, UploadPromote, UploadBundle, PruneRead, PruneSkip,
         PruneList, PruneFiles, PruneRow, DeleteReadApp, DeleteClear, DeleteFiles, DeleteRow,
         PinWrite, AppDeleteFiles, AppDeleteRow, DownloadOpen
<1>2. ASSUME NEW p \in Procs, Request(p)
      PROVE  UNCHANGED <<minted, reused>>
  BY <1>2 DEF Request, AppCreate, UploadBegin, AppDeleteList, DeleteBegin, PinBegin,
         DownloadRead
<1>3. CASE Environment
  BY <1>3 DEF Environment, Tick, Crash, Boot, OrphanScanEnd, OrphanRemove, ScanCutShort
<1>4. CASE UNCHANGED vars
  BY <1>4 DEF vars
<1>5. QED
  BY <1>1, <1>2, <1>3, <1>4 DEF Next

(* A step that neither moves an upload nor inserts a row makes no row and  *)
(* brings no upload to its INSERT.                                         *)
LEMMA RowsStay ==
    ASSUME TypeOK, [Next]_vars, \A p \in Procs : ~UploadMove(p) /\ ~UploadInsert(p)
    PROVE  /\ versions' \subseteq versions /\ Rows' \subseteq Rows
           /\ \A p \in Procs : pc'[p] \in Moved =>
                /\ pc[p] \in Moved /\ job'[p].row = job[p].row
                /\ pc'[p] = "insert" => pc[p] = "insert"
<1>1. ASSUME NEW p \in Procs, Step(p) \/ Request(p)
      PROVE  /\ versions' \subseteq versions /\ Rows' \subseteq Rows
             /\ \A q \in Procs : pc'[q] \in Moved =>
                  /\ pc[q] \in Moved /\ job'[q].row = job[q].row
                  /\ pc'[q] = "insert" => pc[q] = "insert"
  BY <1>1, StepRows, BeginRows, StepMoved, OthersStand
<1>2. CASE Environment
  BY <1>2, EnvironmentRows DEF Moved
<1>3. CASE UNCHANGED vars
  BY <1>3 DEF vars, durable, Rows, HeldBy
<1>4. QED
  BY <1>1, <1>2, <1>3 DEF Next

(* Every step keeps the owners. *)
LEMMA NextOwners ==
    ASSUME IInv, IInv', OneOwner, [Next]_vars
    PROVE  OneOwner'
<1>1. TypeOK /\ Listable \subseteq Listable'
  BY CountersGrow DEF IInv
<1>2. ASSUME NEW p \in Procs, UploadMove(p)
      PROVE  OneOwner'
  BY <1>1, <1>2, MoveOwns
<1>3. ASSUME NEW p \in Procs, UploadInsert(p)
      PROVE  OneOwner'
  BY <1>1, <1>3, InsertOwns
<1>4. CASE \A p \in Procs : ~UploadMove(p) /\ ~UploadInsert(p)
  BY <1>1, <1>4, StampsStay, RowsStay, OwnersStay
<1>5. QED
  BY <1>2, <1>3, <1>4

-----------------------------------------------------------------------------
(* Serving processes and their temporary files *)

(* A request that takes a step was under way. *)
LEMMA StepIsBusy ==
    ASSUME NEW p \in Procs, Step(p)
    PROVE  pc[p] # "idle" /\ UNCHANGED <<mode, crashes>>
<1> USE DEF budget
<1>1. pc[p] # "idle"
  BY DEF Step, UploadEnd, UploadPart, UploadReject, UploadMove, UploadInsert,
         UploadInsertFails, UploadUndo, UploadPromote, UploadBundle, PruneRead, PruneSkip,
         PruneList, PruneFiles, PruneRow, DeleteReadApp, DeleteClear, DeleteFiles, DeleteRow,
         PinWrite, AppDeleteFiles, AppDeleteRow, DownloadOpen
<1>2. UNCHANGED <<mode, crashes>>
  BY DEF Step, UploadEnd, UploadPart, UploadReject, UploadMove, UploadInsert,
         UploadInsertFails, UploadUndo, UploadPromote, UploadBundle, PruneRead, PruneSkip,
         PruneList, PruneFiles, PruneRow, DeleteReadApp, DeleteClear, DeleteFiles, DeleteRow,
         PinWrite, AppDeleteFiles, AppDeleteRow, DownloadOpen
<1>3. QED
  BY <1>1, <1>2

(* Only a serving process has requests. *)
LEMMA NextServing ==
    ASSUME TypeOK, BusyServes, [Next]_vars
    PROVE  BusyServes'
<1> SUFFICES \A q \in Procs : pc'[q] # "idle" => mode' = "serving"
  BY DEF BusyServes
<1> USE DEF durable, history, budget
<1>1. \A q \in Procs : pc[q] # "idle" => mode = "serving"
  BY DEF BusyServes
<1>2. ASSUME NEW p \in Procs, Step(p)
      PROVE  \A q \in Procs : pc'[q] # "idle" => mode' = "serving"
  BY <1>1, <1>2, StepIsBusy
<1>3. ASSUME NEW p \in Procs, Request(p)
      PROVE  \A q \in Procs : pc'[q] # "idle" => mode' = "serving"
  <2>1. mode = "serving" /\ mode' = mode
    BY <1>3 DEF Request, AppCreate, UploadBegin, AppDeleteList, DeleteBegin, PinBegin,
                DownloadRead, Start
  <2>2. QED
    BY <2>1
<1>4. CASE Environment
  <2>1. CASE Crash
    BY <2>1 DEF Crash
  <2>2. CASE Boot \/ OrphanScanEnd
    BY <1>1, <2>2 DEF Boot, OrphanScanEnd
  <2>3. CASE ~(Crash \/ Boot \/ OrphanScanEnd)
    BY <1>1, <1>4, <2>3 DEF Environment, Tick, OrphanRemove, ScanCutShort
  <2>4. QED
    BY <2>1, <2>2, <2>3
<1>5. CASE UNCHANGED vars
  BY <1>1, <1>5 DEF vars
<1>6. QED
  BY <1>2, <1>3, <1>4, <1>5 DEF Next

(* A step uses up one error at most, and no kill. *)
LEMMA BudgetGrows ==
    ASSUME NEW p \in Procs, Step(p) \/ Request(p)
    PROVE  crashes' = crashes /\ (faults' = faults \/ faults' = faults + 1)
<1> USE DEF budget, Fault, NoFault
<1>1. CASE Step(p)
  BY <1>1 DEF Step, UploadEnd, UploadPart, UploadReject, UploadMove, UploadInsert,
     UploadInsertFails, UploadUndo, UploadPromote, UploadBundle, PruneRead, PruneSkip,
     PruneList, PruneFiles, PruneRow, DeleteReadApp, DeleteClear, DeleteFiles, DeleteRow,
     PinWrite, AppDeleteFiles, AppDeleteRow, DownloadOpen, RemoveFileOf
<1>2. CASE Request(p)
  BY <1>2 DEF Request, AppCreate, UploadBegin, AppDeleteList, DeleteBegin, PinBegin,
     DownloadRead
<1>3. QED
  BY <1>1, <1>2

(* TempFilesOwned, goroutine by goroutine: what it has in uploads/.tmp     *)
(* beyond its upload grows with a kill or an ignored error only.           *)
Leftover(p) == tmp[p] - Receives(p)

LEMMA LeftoverGrows ==
    ASSUME TypeOK, TypeOK', TempFilesOwned,
           crashes + faults <= crashes' + faults',
           \A q \in Procs : \/ Leftover(q)' = Leftover(q)
                            \/ /\ Leftover(q)' = Leftover(q) + 1
                               /\ crashes + faults + 1 <= crashes' + faults'
    PROVE  TempFilesOwned'
<1> SUFFICES ASSUME NEW q \in Procs
             PROVE  tmp'[q] \in Receives(q)' .. Receives(q)' + crashes' + faults'
  BY DEF TempFilesOwned
<1>1. /\ tmp[q] \in Int /\ tmp'[q] \in Int
      /\ crashes \in Nat /\ faults \in Nat /\ crashes' \in Nat /\ faults' \in Nat
      /\ Receives(q) \in {0, 1} /\ Receives(q)' \in {0, 1}
  BY DEF TypeOK, Receives
<1>2. Leftover(q) = tmp[q] - Receives(q) /\ Leftover(q)' = tmp'[q] - Receives(q)'
  BY DEF Leftover
<1>3. Receives(q) <= tmp[q] /\ tmp[q] <= Receives(q) + crashes + faults
  BY <1>1 DEF TempFilesOwned
<1>4. QED
  BY <1>1, <1>2, <1>3

(* Every step keeps what is in uploads/.tmp accounted for.                 *)
LEMMA NextTemp ==
    ASSUME TypeOK, TypeOK', TempFilesOwned, [Next]_vars
    PROVE  TempFilesOwned'
<1> USE DEF durable, history, budget
<1>0. /\ tmp \in [Procs -> Int] /\ pc \in [Procs -> Labels]
      /\ crashes \in Nat /\ faults \in Nat
  BY DEF TypeOK
<1>1. ASSUME tmp' = tmp, crashes + faults <= crashes' + faults',
             \A q \in Procs : pc[q] = "stream" <=> pc'[q] = "stream"
      PROVE  TempFilesOwned'
  <2>1. \A q \in Procs : Receives(q)' = Receives(q)
    BY <1>1 DEF Receives
  <2>2. \A q \in Procs : Leftover(q)' = Leftover(q)
    BY <1>1, <2>1 DEF Leftover
  <2>3. QED
    BY <1>1, <2>2, LeftoverGrows
<1>2. ASSUME NEW p \in Procs, Step(p) \/ Request(p)
      PROVE  /\ crashes + faults <= crashes' + faults'
             /\ \A q \in Procs \ {p} : pc'[q] = pc[q]
  BY <1>0, <1>2, BudgetGrows, OthersStand
<1>3. ASSUME NEW p \in Procs, Step(p), \A q \in Procs \ {p} : tmp'[q] = tmp[q],
             \/ Leftover(p)' = Leftover(p)
             \/ Leftover(p)' = Leftover(p) + 1 /\ faults' = faults + 1
      PROVE  TempFilesOwned'
  <2>1. \A q \in Procs \ {p} : Leftover(q)' = Leftover(q)
    <3>1. \A q \in Procs \ {p} : Receives(q)' = Receives(q)
      BY <1>2, <1>3 DEF Receives
    <3>2. QED
      BY <1>3, <3>1 DEF Leftover
  <2>2. crashes' = crashes
    BY <1>3, BudgetGrows
  <2>3. QED
    BY <1>0, <1>2, <1>3, <2>1, <2>2, LeftoverGrows
<1>4. ASSUME NEW p \in Procs, NEW b \in Builds, UploadPart(p, b)
      PROVE  TempFilesOwned'
  <2>1. /\ pc[p] = "parts" /\ pc'[p] = "stream" /\ tmp'[p] = tmp[p] + 1 /\ Step(p)
        /\ \A q \in Procs \ {p} : tmp'[q] = tmp[q]
    BY <1>0, <1>4 DEF UploadPart, Goto, Step
  <2>2. Leftover(p)' = Leftover(p)
    BY <1>0, <2>1 DEF Leftover, Receives
  <2>3. QED
    BY <1>3, <2>1, <2>2
<1>5. ASSUME NEW p \in Procs, UploadMove(p)
      PROVE  TempFilesOwned'
  <2>1. /\ pc[p] = "stream" /\ pc'[p] = "insert" /\ tmp'[p] = tmp[p] - 1 /\ Step(p)
        /\ \A q \in Procs \ {p} : tmp'[q] = tmp[q]
    BY <1>0, <1>5 DEF UploadMove, Goto, Step
  <2>2. Leftover(p)' = Leftover(p)
    BY <1>0, <2>1 DEF Leftover, Receives
  <2>3. QED
    BY <1>3, <2>1, <2>2
<1>6. ASSUME NEW p \in Procs, UploadReject(p)
      PROVE  TempFilesOwned'
  <2>1. pc[p] = "stream" /\ pc'[p] = "idle" /\ Step(p)
    BY <1>0, <1>6 DEF UploadReject, Finish, Goto, Step
  <2>2. CASE tmp' = [tmp EXCEPT ![p] = @ - 1]
    <3>1. tmp'[p] = tmp[p] - 1 /\ \A q \in Procs \ {p} : tmp'[q] = tmp[q]
      BY <1>0, <2>2
    <3>2. Leftover(p)' = Leftover(p)
      BY <1>0, <2>1, <3>1 DEF Leftover, Receives
    <3>3. QED
      BY <1>3, <2>1, <3>1, <3>2
  <2>3. CASE UNCHANGED tmp /\ Fault
    <3>1. faults' = faults + 1
      BY <2>3 DEF Fault
    <3>2. Leftover(p)' = Leftover(p) + 1
      BY <1>0, <2>1, <2>3 DEF Leftover, Receives
    <3>3. QED
      BY <1>3, <2>1, <2>3, <3>1, <3>2
  <2>4. QED
    BY <1>6, <2>2, <2>3 DEF UploadReject
<1>7. ASSUME NEW p \in Procs, pc[p] # "stream", pc'[p] # "stream",
             Step(p) \/ Request(p), tmp' = tmp
      PROVE  TempFilesOwned'
  BY <1>1, <1>2, <1>7
<1>8. ASSUME NEW p \in Procs, Step(p)
      PROVE  TempFilesOwned'
  <2>1. CASE (\E b \in Builds : UploadPart(p, b)) \/ UploadReject(p) \/ UploadMove(p)
    BY <1>4, <1>5, <1>6, <2>1
  <2>2. CASE ~((\E b \in Builds : UploadPart(p, b)) \/ UploadReject(p) \/ UploadMove(p))
    <3>1. tmp' = tmp /\ pc[p] # "stream"
      BY <1>8, <2>2 DEF Step, UploadEnd, UploadInsert,
         UploadInsertFails, UploadUndo, UploadPromote, UploadBundle, PruneRead, PruneSkip,
         PruneList, PruneFiles, PruneRow, DeleteReadApp, DeleteClear, DeleteFiles, DeleteRow,
         PinWrite, AppDeleteFiles, AppDeleteRow, DownloadOpen
    <3>2. pc'[p] # "stream"
      <4>1. \A l : Goto(p, l) => pc'[p] = l
        BY <1>0 DEF Goto
      <4>2. CASE Finish(p) \/ NextPart(p) \/ UNCHANGED pc
        BY <3>1, <4>1, <4>2 DEF Finish, NextPart
      <4>3. CASE ~(Finish(p) \/ NextPart(p) \/ UNCHANGED pc)
        <5>1. \/ Goto(p, "undo") \/ Goto(p, "promote") \/ Goto(p, "bundle")
              \/ Goto(p, "pruneRead") \/ Goto(p, "pruneList") \/ Goto(p, "prune")
              \/ Goto(p, "pruneRow") \/ Goto(p, "clear") \/ Goto(p, "delFiles")
              \/ Goto(p, "delRow")
          BY <1>8, <2>2, <4>3 DEF Step, UploadEnd, UploadInsert,
             UploadInsertFails, UploadUndo, UploadPromote, UploadBundle, PruneRead, PruneSkip,
             PruneList, PruneFiles, PruneRow, DeleteReadApp, DeleteClear, DeleteFiles,
             DeleteRow, PinWrite, AppDeleteFiles, AppDeleteRow, DownloadOpen
        <5>2. QED
          BY <4>1, <5>1
      <4>4. QED
        BY <4>2, <4>3
    <3>3. QED
      BY <1>7, <1>8, <3>1, <3>2
  <2>3. QED
    BY <2>1, <2>2
<1>9. ASSUME NEW p \in Procs, Request(p)
      PROVE  TempFilesOwned'
  <2>1. pc[p] = "idle" /\ tmp' = tmp
    BY <1>9 DEF Request, AppCreate, UploadBegin, AppDeleteList, DeleteBegin, PinBegin,
                DownloadRead, Start
  <2>2. \/ UNCHANGED pc \/ Goto(p, "parts") \/ Goto(p, "appFiles") \/ Goto(p, "delApp")
        \/ Goto(p, "pin") \/ Goto(p, "open")
    BY <1>9 DEF Request, AppCreate, UploadBegin, AppDeleteList, DeleteBegin, PinBegin,
                DownloadRead
  <2>3. pc'[p] # "stream"
    BY <1>0, <2>1, <2>2 DEF Goto
  <2>4. QED
    BY <1>7, <1>9, <2>1, <2>3
<1>10. CASE Environment \/ UNCHANGED vars
  <2>1. CASE Crash
    <3>1. tmp' = tmp /\ crashes' = crashes + 1 /\ faults' = faults
          /\ \A q \in Procs : pc'[q] = "idle"
      BY <2>1 DEF Crash
    <3>2. \A q \in Procs : Leftover(q)' = Leftover(q) \/ Leftover(q)' = Leftover(q) + 1
      BY <1>0, <3>1 DEF Leftover, Receives
    <3>3. QED
      BY <1>0, <3>1, <3>2, LeftoverGrows
  <2>2. CASE ~Crash
    <3>1. tmp' = tmp /\ crashes' = crashes /\ pc' = pc
      BY <1>10, <2>2 DEF Environment, Tick, Boot, OrphanScanEnd, OrphanRemove, ScanCutShort, vars
    <3>2. faults' = faults \/ faults' = faults + 1
      BY <1>10, <2>2 DEF Environment, Tick, Boot, OrphanScanEnd, OrphanRemove, ScanCutShort, Fault,
                        vars
    <3>3. QED
      BY <1>0, <1>1, <3>1, <3>2
  <2>3. QED
    BY <2>1, <2>2
<1>11. QED
  BY <1>8, <1>9, <1>10 DEF Next

-----------------------------------------------------------------------------
(* Files that go *)

(* Files other than the dropped one stay as they are. *)
LEMMA DropIs ==
    ASSUME NEW f, NEW q
    PROVE  DOMAIN Drop(f, q) = DOMAIN f \ {q} /\ \A x \in DOMAIN Drop(f, q) : Drop(f, q)[x] = f[x]
BY DEF Drop, Restrict

(* An error leaves the directory unclean. *)
LEMMA FaultIsUnclean == Fault => unclean' = TRUE
BY DEF Fault

(* DeleteVersionFiles: the file of r goes, or is kept by an error, and r   *)
(* counts as half gone.                                                    *)
Removes(p, r) ==
    /\ r \in HeldBy(p)
    /\ files' = Drop(files, Path(r)) \/ (UNCHANGED files /\ unclean' = TRUE)
    /\ job'[p].row = r /\ job'[p].app = job[p].app /\ job'[p].todo \subseteq job[p].todo
    /\ job'[p].gone = job[p].gone \cup {r.id}
    /\ versions' = versions /\ pc[p] \notin Moved /\ pc'[p] \notin Moved

(* Every handler that removes a file does so, to a row it holds. *)
LEMMA StepRemoves ==
    ASSUME TypeOK, NEW p \in Procs, PruneFiles(p) \/ AppDeleteFiles(p) \/ DeleteFiles(p)
    PROVE  \E r \in HeldBy(p) :
             /\ Removes(p, r)
             /\ AppDeleteFiles(p) => r \in job[p].todo
<1>0. job \in [Procs -> Job] /\ pc \in [Procs -> Labels] /\ job[p] \in Job
  BY DEF TypeOK
<1>1. ASSUME NEW r \in HeldBy(p), NEW rest, rest \subseteq job[p].todo, RemoveFileOf(p, r, rest),
             versions' = versions, pc[p] \notin Moved, pc'[p] \notin Moved
      PROVE  Removes(p, r)
  <2> DEFINE g == job[p].gone \cup {r.id}
  <2>1. Keep(p, [job[p] EXCEPT !.row = r, !.todo = rest, !.gone = g])
    BY <1>1 DEF RemoveFileOf
  <2> HIDE DEF g
  <2>2. job'[p].row = r /\ job'[p].todo = rest /\ job'[p].gone = g /\ job'[p].app = job[p].app
    BY <1>0, <2>1 DEF Keep, Job
  <2>3. files' = Drop(files, Path(r)) \/ (UNCHANGED files /\ unclean' = TRUE)
    BY <1>1, FaultIsUnclean DEF RemoveFileOf
  <2>4. QED
    BY <1>1, <2>2, <2>3 DEF Removes, g
<1>2. CASE PruneFiles(p) \/ AppDeleteFiles(p)
  <2>1. PICK r \in job[p].todo : RemoveFileOf(p, r, job[p].todo \ {r})
    BY <1>2 DEF PruneFiles, AppDeleteFiles
  <2>2. r \in HeldBy(p)
    BY HeldByIs
  <2>3. versions' = versions /\ pc[p] \notin Moved /\ pc'[p] \notin Moved
    BY <1>0, <1>2 DEF PruneFiles, AppDeleteFiles, Goto, Moved
  <2>4. QED
    BY <1>1, <2>1, <2>2, <2>3
<1>3. CASE DeleteFiles(p)
  <2>1. job[p].row \in HeldBy(p)
    BY <1>3, HeldByIs DEF DeleteFiles, Handling
  <2>2. /\ versions' = versions /\ pc[p] \notin Moved /\ pc'[p] \notin Moved
        /\ RemoveFileOf(p, job[p].row, {}) /\ ~AppDeleteFiles(p)
    BY <1>0, <1>3 DEF DeleteFiles, AppDeleteFiles, Goto, Moved
  <2>3. QED
    BY <1>1, <2>1, <2>2
<1>4. QED
  BY <1>2, <1>3

(* Files are removed for a row that the request holds, by the undo of an   *)
(* upload, or by the scan, before any request.                             *)
LEMMA FilesThatGo ==
    ASSUME TypeOK, [Next]_vars, \A p \in Procs : ~UploadMove(p)
    PROVE  \/ UNCHANGED files
           \/ \E p \in Procs : \E r \in HeldBy(p) :
                Removes(p, r) /\ Step(p) /\ files' = Drop(files, Path(r))
           \/ \E p \in Procs : UploadUndo(p) /\ files' = Drop(files, Path(job[p].row))
           \/ \E q \in DOMAIN files : OrphanRemove(q)
           \/ \E D : ScanCutShort(D)
<1> USE DEF durable
<1>1. ASSUME NEW p \in Procs, Step(p), ~UNCHANGED files
      PROVE  \/ \E r \in HeldBy(p) : Removes(p, r) /\ files' = Drop(files, Path(r))
             \/ UploadUndo(p) /\ files' = Drop(files, Path(job[p].row))
  <2>1. PruneFiles(p) \/ AppDeleteFiles(p) \/ DeleteFiles(p) \/ UploadUndo(p)
    BY <1>1 DEF Step, UploadEnd, UploadPart, UploadReject, UploadInsert,
         UploadInsertFails, UploadPromote, UploadBundle, PruneRead, PruneSkip,
         PruneList, PruneRow, DeleteReadApp, DeleteClear, DeleteRow,
         PinWrite, AppDeleteRow, DownloadOpen
  <2>2. CASE PruneFiles(p) \/ AppDeleteFiles(p) \/ DeleteFiles(p)
    BY <1>1, <2>2, StepRemoves DEF Removes
  <2>3. CASE UploadUndo(p)
    BY <1>1, <2>3 DEF UploadUndo
  <2>4. QED
    BY <2>1, <2>2, <2>3
<1>2. ASSUME NEW p \in Procs, Request(p)
      PROVE  UNCHANGED files
  BY <1>2 DEF Request, AppCreate, UploadBegin, AppDeleteList, DeleteBegin, PinBegin,
         DownloadRead
<1>3. CASE Environment
  BY <1>3 DEF Environment, Tick, Crash, Boot, OrphanScanEnd
<1>4. CASE UNCHANGED vars
  BY <1>4 DEF vars
<1>5. QED
  BY <1>1, <1>2, <1>3, <1>4 DEF Next

(* What stays on disk keeps its bytes. *)
LEMMA FilesShrink ==
    ASSUME TypeOK, [Next]_vars, \A p \in Procs : ~UploadMove(p)
    PROVE  \A x \in DOMAIN files' : x \in DOMAIN files /\ files'[x] = files[x]
<1>1. CASE UNCHANGED files
  BY <1>1
<1>2. ASSUME NEW q, files' = Drop(files, q)
      PROVE  \A x \in DOMAIN files' : x \in DOMAIN files /\ files'[x] = files[x]
  <2>1. /\ DOMAIN Drop(files, q) = DOMAIN files \ {q}
        /\ \A x \in DOMAIN Drop(files, q) : Drop(files, q)[x] = files[x]
    BY DropIs
  <2>2. QED
    BY <1>2, <2>1
<1>3. ASSUME NEW D, ScanCutShort(D)
      PROVE  \A x \in DOMAIN files' : x \in DOMAIN files /\ files'[x] = files[x]
  BY <1>3 DEF ScanCutShort, Restrict
<1>4. QED
  BY <1>1, <1>2, <1>3, FilesThatGo DEF OrphanRemove

(* The package of an upload that is about to insert its row stays, unless  *)
(* its stamp is a reused one: nobody else owns its path, and the scan is   *)
(* over before requests are served.                                        *)
LEMMA PackageStays ==
    ASSUME TypeOK, OneOwner, BusyServes, [Next]_vars, \A p \in Procs : ~UploadMove(p),
           NEW q \in Procs, pc[q] = "insert", pc'[q] = "insert", Stamp(job[q].row) \notin reused,
           Path(job[q].row) \in DOMAIN files
    PROVE  Path(job[q].row) \in DOMAIN files'
<1>1. ASSUME NEW x, files' = Drop(files, x), x # Path(job[q].row)
      PROVE  Path(job[q].row) \in DOMAIN files'
  BY <1>1, DropIs
<1>2. ASSUME NEW p \in Procs, NEW r \in HeldBy(p), files' = Drop(files, Path(r))
      PROVE  Path(job[q].row) \in DOMAIN files'
  <2>1. r \in Rows
    BY <1>2 DEF Rows
  <2>2. Stamp(r) # Stamp(job[q].row)
    BY <2>1 DEF OneOwner, Moved
  <2>3. QED
    BY <1>1, <1>2, <2>2, SamePath
<1>3. ASSUME NEW p \in Procs, UploadUndo(p), files' = Drop(files, Path(job[p].row))
      PROVE  Path(job[q].row) \in DOMAIN files'
  <2>1. pc[p] = "undo" /\ p # q
    BY <1>3 DEF UploadUndo
  <2>2. Stamp(job[p].row) # Stamp(job[q].row)
    BY <2>1 DEF OneOwner, Moved
  <2>3. QED
    BY <1>1, <1>3, <2>2, SamePath
<1>4. ASSUME NEW x, OrphanRemove(x) \/ ScanCutShort(x)
      PROVE  FALSE
  BY <1>4 DEF OrphanRemove, ScanCutShort, BusyServes
<1>5. QED
  BY <1>2, <1>3, <1>4, FilesThatGo

(* Every step keeps what is at the path of a row its own. *)
LEMMA NextOwnBytes ==
    ASSUME TypeOK, OneOwner, BusyServes, OwnBytes, [Next]_vars
    PROVE  OwnBytes'
<1>0. /\ \A r \in Rows : Stamp(r) \in reused \/ Path(r) \notin DOMAIN files \/ Has(r)
      /\ \A q \in Procs : pc[q] = "insert" => Stamp(job[q].row) \in reused \/ Has(job[q].row)
      /\ \A r \in Rows : Stamp(r) \in minted
      /\ \A q \in Procs : pc[q] = "insert" => Stamp(job[q].row) \in minted
  BY DEF OwnBytes, OneOwner, Moved
<1> DEFINE has(r) == Path(r) \in DOMAIN files' /\ files'[Path(r)] = r.build.sha
<1>1. ASSUME \A r \in Rows' : Stamp(r) \in reused' \/ Path(r) \notin DOMAIN files' \/ has(r),
             \A q \in Procs : pc'[q] = "insert" => Stamp(job'[q].row) \in reused' \/ has(job'[q].row)
      PROVE  OwnBytes'
  <2>1. \A r : Has(r)' <=> Path(r)' \in DOMAIN files' /\ files'[Path(r)'] = r.build.sha
    BY DEF Has
  <2>2. \A r \in Rows' : Stamp(r)' = Stamp(r) /\ Path(r)' = Path(r) /\ (Has(r)' <=> has(r))
    BY DEF Stamp, Path, Has
  <2>3. \A q \in Procs : Stamp(job[q].row)' = Stamp(job'[q].row)
                         /\ (Has(job[q].row)' <=> has(job'[q].row))
    BY DEF Stamp, Path, Has
  <2> HIDE DEF has
  <2>4. QED
    BY <1>1, <2>2, <2>3 DEF OwnBytes
<1>2. ASSUME NEW p \in Procs, UploadMove(p)
      PROVE  OwnBytes'
  <2> DEFINE r == [job[p].row EXCEPT !.ts = clock]
  <2>1. /\ files' = Put(files, Path(r), r.build.sha) /\ minted' = minted \cup {Stamp(r)}
        /\ reused' = reused \cup ({Stamp(r)} \cap minted) /\ Step(p) /\ ~UploadInsert(p)
    BY <1>2 DEF UploadMove, UploadInsert, Step
  <2>2. job'[p].row = r
    BY <1>2, JobFields DEF UploadMove, Keep, Job, TypeOK
  <2> HIDE DEF r
  <2>3. \A x : x \in DOMAIN files' <=> x \in DOMAIN files \/ x = Path(r)
    BY <2>1 DEF Put
  <2>4. \A x \in DOMAIN files' : files'[x] = IF x = Path(r) THEN r.build.sha ELSE files[x]
    BY <2>1 DEF Put
  <2>5. has(r)
    BY <2>3, <2>4
  <2>6. ASSUME NEW x, Stamp(x) \in minted,
               Stamp(x) \in reused \/ Path(x) \notin DOMAIN files \/ Has(x)
        PROVE  Stamp(x) \in reused' \/ Path(x) \notin DOMAIN files' \/ has(x)
    <3>1. CASE Stamp(x) = Stamp(r)
      BY <2>1, <2>6, <3>1
    <3>2. CASE Path(x) # Path(r)
      BY <2>1, <2>3, <2>4, <2>6, <3>2 DEF Has
    <3>3. QED
      BY <3>1, <3>2, SamePath
  <2>7. ASSUME NEW x, Stamp(x) \in minted, Stamp(x) \in reused \/ Has(x)
        PROVE  Stamp(x) \in reused' \/ has(x)
    BY <2>1, <2>3, <2>6, <2>7 DEF Has
  <2>8. Rows' \subseteq Rows /\ \A q \in Procs \ {p} : pc'[q] = pc[q] /\ job'[q] = job[q]
    BY <2>1, StepRows, OthersStand
  <2> HIDE DEF has
  <2>9. \A x \in Rows' : Stamp(x) \in reused' \/ Path(x) \notin DOMAIN files' \/ has(x)
    BY <1>0, <2>6, <2>8
  <2>10. \A q \in Procs : pc'[q] = "insert" => Stamp(job'[q].row) \in reused' \/ has(job'[q].row)
    BY <1>0, <2>2, <2>5, <2>7, <2>8
  <2>11. QED
    BY <1>1, <2>9, <2>10
<1>3. ASSUME \A p \in Procs : ~UploadMove(p)
      PROVE  /\ reused' = reused
             /\ \A r : Stamp(r) \in reused \/ Path(r) \notin DOMAIN files \/ Has(r)
                      => Stamp(r) \in reused' \/ Path(r) \notin DOMAIN files' \/ has(r)
  <2>1. reused' = reused
    BY <1>3, StampsStay
  <2>2. \A x \in DOMAIN files' : x \in DOMAIN files /\ files'[x] = files[x]
    BY <1>3, FilesShrink
  <2>3. QED
    BY <2>1, <2>2 DEF Has
<1>4. ASSUME NEW p \in Procs, UploadInsert(p)
      PROVE  OwnBytes'
  <2> DEFINE r == job'[p].row
  <2>1. /\ Rows' \subseteq Rows \cup {r} /\ Path(r) = Path(job[p].row)
        /\ Stamp(r) = Stamp(job[p].row) /\ r.build = job[p].row.build /\ pc'[p] = "promote"
    BY <1>4, InsertRows
  <2>2. /\ pc[p] = "insert" /\ files' = files /\ Step(p) /\ \A q \in Procs : ~UploadMove(q)
    BY <1>4 DEF UploadInsert, UploadMove, Step, Keep, Goto, TypeOK
  <2>3. \A q \in Procs \ {p} : pc'[q] = pc[q] /\ job'[q] = job[q]
    BY <2>2, OthersStand
  <2>4. Stamp(r) \in reused \/ Has(r)
    BY <1>0, <2>1, <2>2 DEF Has
  <2> HIDE DEF r
  <2>5. reused' = reused /\ \A x : Has(x) => has(x)
    BY <1>3, <2>2 DEF Has
  <2>6. \A x \in Rows' : Stamp(x) \in reused' \/ Path(x) \notin DOMAIN files' \/ has(x)
    <3> HIDE DEF has
    <3> QED BY <1>0, <2>1, <2>2, <2>4, <2>5
  <2>7. \A q \in Procs : pc'[q] = "insert" => Stamp(job'[q].row) \in reused' \/ has(job'[q].row)
    <3> HIDE DEF has
    <3> QED BY <1>0, <2>1, <2>3, <2>5
  <2>8. QED
    BY <1>1, <2>6, <2>7
<1>5. CASE \A p \in Procs : ~UploadMove(p) /\ ~UploadInsert(p)
  <2>1. /\ Rows' \subseteq Rows
        /\ \A q \in Procs : pc'[q] = "insert" => pc[q] = "insert" /\ job'[q].row = job[q].row
    BY <1>5, RowsStay DEF Moved
  <2>2. \A x \in Rows' : Stamp(x) \in reused' \/ Path(x) \notin DOMAIN files' \/ has(x)
    BY <1>0, <1>3, <1>5, <2>1
  <2>3. ASSUME NEW q \in Procs, pc'[q] = "insert"
        PROVE  Stamp(job'[q].row) \in reused' \/ has(job'[q].row)
    <3>1. pc[q] = "insert" /\ job'[q].row = job[q].row
      BY <2>1, <2>3
    <3>2. CASE Stamp(job[q].row) \in reused
      BY <1>3, <1>5, <3>1, <3>2
    <3>3. CASE Stamp(job[q].row) \notin reused
      <4>1. Has(job[q].row)
        BY <1>0, <3>1, <3>3
      <4>2. Path(job[q].row) \in DOMAIN files'
        BY <1>5, <2>3, <3>1, <3>3, <4>1, PackageStays DEF Has
      <4>3. QED
        BY <1>5, <3>1, <4>1, <4>2, FilesShrink DEF Has
    <3>4. QED
      BY <3>2, <3>3
  <2>4. QED
    BY <1>1, <2>2, <2>3
<1>6. QED
  BY <1>2, <1>4, <1>5

-----------------------------------------------------------------------------
(* Deletions under way *)

(* What a step of a request does to the ids it remembers *)
LEMMA StepGone ==
    ASSUME TypeOK, GoneAtDeletion, NEW p \in Procs, Step(p) \/ Request(p)
    PROVE  \/ pc'[p] \notin Deleting /\ job'[p].gone = {}
           \/ UNCHANGED <<pc, job>>
           \/ \E r \in HeldBy(p) :
                /\ Removes(p, r)
                /\ pc[p] \notin Deleting /\ pc'[p] \in {"pruneRow", "delRow"}
           \/ \E r \in job[p].todo :
                Removes(p, r) /\ pc[p] = "appFiles" /\ pc'[p] = "appFiles"
           \/ \E x \in apps : AppDeleteList(p, x.id)
<1> USE DEF Deleting
<1>0. /\ job \in [Procs -> Job] /\ pc \in [Procs -> Labels] /\ job[p] \in Job
      /\ pc[p] \notin Deleting => job[p].gone = {}
  BY DEF TypeOK, GoneAtDeletion
<1> DEFINE clean == pc'[p] \notin Deleting /\ job'[p].gone = {}
<1>1. \A l : Goto(p, l) => pc'[p] = l
  BY <1>0 DEF Goto
<1>2. \A j : Keep(p, j) => job'[p] = j
  BY <1>0 DEF Keep
<1>3. CASE Finish(p) \/ NextPart(p)
  <2>1. pc'[p] \in {"idle", "parts"}
    BY <1>1, <1>3 DEF Finish, NextPart
  <2>2. job'[p].gone = {}
    BY <1>2, <1>3 DEF Finish, NextPart, Blank
  <2>3. QED
    BY <2>1, <2>2
<1>4. CASE \/ UploadInsertFails(p) \/ UploadPromote(p) \/ UploadBundle(p) \/ DeleteClear(p)
           \/ DeleteReadApp(p) /\ UNCHANGED job
  <2>1. pc[p] \notin Deleting /\ job' = job
    BY <1>4 DEF UploadInsertFails, UploadPromote, UploadBundle, DeleteClear, DeleteReadApp
  <2>2. \/ Goto(p, "undo") \/ Goto(p, "bundle") \/ Goto(p, "pruneRead") \/ Goto(p, "clear")
        \/ Goto(p, "delFiles") \/ Finish(p)
    BY <1>4 DEF UploadInsertFails, UploadPromote, UploadBundle, DeleteClear, DeleteReadApp
  <2>3. QED
    BY <1>0, <1>1, <1>3, <2>1, <2>2
<1>5. ASSUME NEW b \in Builds, UploadPart(p, b)
      PROVE  clean
  <2>1. PICK r, f : Keep(p, [job[p] EXCEPT !.row = r, !.fresh = f])
    BY <1>5 DEF UploadPart
  <2>2. job'[p].gone = job[p].gone
    BY <1>0, <2>1 DEF Keep, Job
  <2>3. QED
    BY <1>0, <1>1, <1>5, <2>2 DEF UploadPart
<1>6. CASE UploadMove(p) \/ UploadInsert(p)
  <2>1. PICK r : Keep(p, [job[p] EXCEPT !.row = r])
    BY <1>6 DEF UploadMove, UploadInsert
  <2>2. job'[p].gone = job[p].gone
    BY <1>0, <2>1 DEF Keep, Job
  <2>3. QED
    BY <1>0, <1>1, <1>6, <2>2 DEF UploadMove, UploadInsert
<1>7. CASE PruneRead(p)
  <2>1. PICK c : Keep(p, [job[p] EXCEPT !.cur = c])
    BY <1>7 DEF PruneRead
  <2>2. job'[p].gone = job[p].gone
    BY <1>0, <2>1 DEF Keep, Job
  <2>3. QED
    BY <1>0, <1>1, <1>7, <2>2 DEF PruneRead
<1>8. CASE PruneList(p) /\ ~NextPart(p)
  <2>1. PICK D : Keep(p, [job[p] EXCEPT !.todo = D]) /\ Goto(p, "prune")
    BY <1>8 DEF PruneList
  <2>2. job'[p].gone = job[p].gone /\ pc[p] = "pruneList"
    BY <1>0, <1>8, <2>1 DEF Keep, Job, PruneList
  <2>3. QED
    BY <1>0, <1>1, <2>1, <2>2
<1>9. CASE PruneFiles(p) \/ DeleteFiles(p)
  <2>1. pc[p] \notin Deleting /\ (Goto(p, "pruneRow") \/ Goto(p, "delRow"))
    BY <1>9 DEF PruneFiles, DeleteFiles
  <2>2. QED
    BY <1>1, <1>9, <2>1, StepRemoves
<1>10. CASE AppDeleteFiles(p)
  <2>1. pc[p] = "appFiles" /\ pc'[p] = "appFiles"
    BY <1>10 DEF AppDeleteFiles
  <2>2. QED
    BY <1>10, <2>1, StepRemoves
<1>11. CASE PruneRow(p) /\ ~NextPart(p)
  <2>1. Keep(p, [job[p] EXCEPT !.gone = {}]) /\ Goto(p, "prune")
    BY <1>11 DEF PruneRow
  <2>2. job'[p].gone = {}
    BY <1>0, <2>1 DEF Keep, Job
  <2>3. QED
    BY <1>1, <2>1, <2>2
<1>12. ASSUME NEW x \in apps, UploadBegin(p, x.id)
       PROVE  clean
  BY <1>1, <1>2, <1>12 DEF UploadBegin, Blank
<1>13. ASSUME NEW r \in versions, DeleteBegin(p, r) \/ PinBegin(p, r) \/ DownloadRead(p, r)
       PROVE  clean
  BY <1>1, <1>2, <1>13 DEF DeleteBegin, PinBegin, DownloadRead, Blank
<1>14. CASE Request(p)
  <2>1. CASE AppCreate(p)
    BY <2>1 DEF AppCreate
  <2>2. QED
    BY <1>12, <1>13, <1>14, <2>1 DEF Request
<1>15. CASE Step(p)
  <2>1. \/ Finish(p) \/ NextPart(p)
        \/ UploadInsertFails(p) \/ UploadPromote(p) \/ UploadBundle(p) \/ DeleteClear(p)
        \/ DeleteReadApp(p) /\ UNCHANGED job
        \/ (\E b \in Builds : UploadPart(p, b)) \/ UploadMove(p) \/ UploadInsert(p)
        \/ PruneRead(p) \/ (PruneList(p) /\ ~NextPart(p))
        \/ PruneFiles(p) \/ AppDeleteFiles(p) \/ DeleteFiles(p)
        \/ PruneRow(p) /\ ~NextPart(p)
    BY <1>15 DEF Step, UploadEnd, UploadReject, UploadUndo, PruneSkip, DeleteReadApp, DeleteRow,
           PinWrite, AppDeleteRow, DownloadOpen
  <2>2. QED
    BY <1>3, <1>4, <1>5, <1>6, <1>7, <1>8, <1>9, <1>10, <1>11, <2>1
<1>16. QED
  BY <1>14, <1>15

(* Every row, after a step, that was not one before is the one a request   *)
(* has just inserted, under a new id.                                      *)
LEMMA NewRows ==
    ASSUME TypeOK, [Next]_vars
    PROVE  \A r \in Rows' : r \in Rows \/ r.id = lastVid + 1
<1>1. ASSUME NEW p \in Procs, UploadInsert(p)
      PROVE  \A r \in Rows' : r \in Rows \/ r.id = lastVid + 1
  BY <1>1, InsertRows
<1>2. ASSUME NEW p \in Procs, Step(p), ~UploadInsert(p)
      PROVE  Rows' \subseteq Rows
  BY <1>2, StepRows
<1>3. ASSUME NEW p \in Procs, Request(p)
      PROVE  Rows' \subseteq Rows
  BY <1>3, BeginRows
<1>4. CASE Environment
  BY <1>4, EnvironmentRows
<1>5. CASE UNCHANGED vars
  BY <1>5 DEF vars, durable, Rows, HeldBy
<1>6. QED
  BY <1>1, <1>2, <1>3, <1>4, <1>5 DEF Next

(* Every step keeps what requests remember of their deletions. *)
LEMMA NextGone ==
    ASSUME TypeOK, TypeOK', OneOwner, GoneAtDeletion, [Next]_vars
    PROVE  GoneAtDeletion'
<1> DEFINE rows == Rows'
           fine(q) ==
             /\ pc'[q] \notin Deleting => job'[q].gone = {}
             /\ pc'[q] \in {"pruneRow", "delRow"} => job'[q].gone = {job'[q].row.id}
             /\ pc'[q] = "appFiles" =>
                  \A r \in rows : r \in job'[q].todo \/ r.id \in job'[q].gone => r.app = job'[q].app
<1> USE DEF Deleting
<1>0. \A r \in rows : r \in Rows \/ r.id = lastVid + 1
  BY NewRows
<1>1. ASSUME NEW q \in Procs, pc'[q] = pc[q], job'[q] = job[q]
      PROVE  fine(q)
  <2>1. \A r \in rows : r \in job[q].todo \/ r.id \in job[q].gone => r \in Rows
    <3>1. job[q].todo \subseteq Listable /\ job[q].gone \subseteq 1 .. lastVid /\ lastVid \in Nat
      BY JobFields DEF TypeOK
    <3>2. \A r \in Listable : r.id # lastVid + 1
      BY DEF Listable, TypeOK
    <3>3. QED
      BY <1>0, <3>1, <3>2
  <2> HIDE DEF rows
  <2>2. QED
    BY <1>1, <2>1 DEF GoneAtDeletion
<1>2. ASSUME NEW p \in Procs, Step(p) \/ Request(p)
      PROVE  \A q \in Procs : fine(q)
  <2>1. \A q \in Procs \ {p} : fine(q)
    BY <1>1, <1>2, OthersStand
  <2>2. fine(p)
    <3>1. CASE pc'[p] \notin Deleting /\ job'[p].gone = {}
      BY <3>1
    <3>2. CASE UNCHANGED <<pc, job>>
      BY <1>1, <3>2
    <3>3. ASSUME NEW r \in HeldBy(p), Removes(p, r), pc[p] \notin Deleting,
                 pc'[p] \in {"pruneRow", "delRow"}
          PROVE  fine(p)
      BY <3>3 DEF Removes, GoneAtDeletion
    <3>4. ASSUME NEW r \in job[p].todo, Removes(p, r), pc[p] = "appFiles", pc'[p] = "appFiles"
          PROVE  fine(p)
      <4>1. /\ job'[p].gone = job[p].gone \cup {r.id} /\ job'[p].todo \subseteq job[p].todo
            /\ job'[p].app = job[p].app /\ versions' = versions
        BY <3>4 DEF Removes
      <4>2. r \in Rows
        BY HeldByIs DEF Rows
      <4>3. rows \subseteq Rows
        <5>1. Step(p) /\ ~UploadInsert(p)
          BY <1>2, <3>4 DEF UploadInsert, Request, AppCreate, UploadBegin, AppDeleteList,
             DeleteBegin, PinBegin, DownloadRead, Start
        <5>2. QED
          BY <5>1, StepRows
      <4>4. \A x \in Rows : x.id = r.id => x = r
        BY <4>2 DEF OneOwner
      <4>5. \A x \in Rows : x \in job[p].todo \/ x.id \in job[p].gone => x.app = job[p].app
        BY <3>4 DEF GoneAtDeletion
      <4> HIDE DEF rows
      <4>6. QED
        BY <3>4, <4>1, <4>3, <4>4, <4>5
    <3>5. ASSUME NEW x \in apps, AppDeleteList(p, x.id)
          PROVE  fine(p)
      <4>1. PICK D \in SUBSET {r \in versions : r.app = x.id} :
              Keep(p, [Blank EXCEPT !.app = x.id, !.todo = D])
        BY <3>5 DEF AppDeleteList
      <4>2. job'[p].todo = D /\ job'[p].app = x.id /\ job'[p].gone = {}
        BY <4>1 DEF Keep, Blank, TypeOK
      <4>3. pc'[p] = "appFiles"
        BY <3>5 DEF AppDeleteList, Goto, TypeOK
      <4>4. QED
        BY <4>2, <4>3
    <3> HIDE DEF fine
    <3>6. QED
      BY <1>2, <3>1, <3>2, <3>3, <3>4, <3>5, StepGone DEF fine
  <2>3. QED
    BY <2>1, <2>2
<1>3. ASSUME Environment \/ UNCHANGED vars
      PROVE  \A q \in Procs : fine(q)
  <2>1. CASE Crash
    BY <2>1 DEF Crash, Blank
  <2>2. CASE ~Crash
    <3>1. UNCHANGED <<pc, job>>
      BY <1>3, <2>2 DEF Environment, Tick, Boot, OrphanScanEnd, OrphanRemove, ScanCutShort, vars
    <3> HIDE DEF fine
    <3>2. QED
      BY <1>1, <3>1
  <2>3. QED
    BY <2>1, <2>2
<1>4. \A q \in Procs : fine(q)
  <2> HIDE DEF fine
  <2> QED BY <1>2, <1>3 DEF Next
<1>5. QED
  BY <1>4 DEF GoneAtDeletion

-----------------------------------------------------------------------------
(* Listed versions and their packages *)

(* A version whose deletion was under way, or cut short, is no longer      *)
(* listed or still counts as one.                                          *)
LEMMA HalfGoneStays ==
    ASSUME TypeOK, OneOwner, GoneAtDeletion, [Next]_vars
    PROVE  \A r \in versions : r \in versions' /\ r.id \in torn \cup Gone
                              => r.id \in torn' \cup Gone'
<1> USE DEF durable, history
<1>1. torn \subseteq torn'
  <2>1. ASSUME NEW p \in Procs, Step(p)
        PROVE  torn \subseteq torn'
    BY <2>1 DEF Step, UploadEnd, UploadPart, UploadReject, UploadMove, UploadInsert,
         UploadInsertFails, UploadUndo, UploadPromote, UploadBundle, PruneRead, PruneSkip,
         PruneList, PruneFiles, PruneRow, DeleteReadApp, DeleteClear, DeleteFiles, DeleteRow,
         PinWrite, AppDeleteFiles, AppDeleteRow, DownloadOpen
  <2>2. ASSUME NEW p \in Procs, Request(p)
        PROVE  torn' = torn
    BY <2>2 DEF Request, AppCreate, UploadBegin, AppDeleteList, DeleteBegin, PinBegin,
         DownloadRead
  <2>3. CASE Environment \/ UNCHANGED vars
    BY <2>3 DEF Environment, Tick, Crash, Boot, OrphanScanEnd, OrphanRemove, ScanCutShort, vars
  <2>4. QED
    BY <2>1, <2>2, <2>3 DEF Next
<1>2. SUFFICES ASSUME NEW r \in versions, r \in versions', r.id \in Gone
               PROVE  r.id \in torn' \cup Gone'
  BY <1>1
<1> PICK q \in Procs : r.id \in job[q].gone
  BY <1>2 DEF Gone
<1>3. r.id \in job'[q].gone => r.id \in Gone'
  BY DEF Gone
<1>4. r \in Rows /\ pc[q] \in Deleting
  BY DEF Rows, GoneAtDeletion
<1>5. CASE PruneRow(q) \/ DeleteRow(q)
  <2>1. r.id = job[q].row.id
    BY <1>5 DEF PruneRow, DeleteRow, GoneAtDeletion
  <2>2. ~DeleteVersion(job[q].row.id)
    BY <1>2, <2>1 DEF DeleteVersion
  <2>3. torn' = torn \cup job[q].gone
    BY <1>5, <2>2 DEF PruneRow, DeleteRow
  <2>4. QED
    BY <2>3
<1>6. CASE AppDeleteRow(q)
  <2>1. r.app = job[q].app
    BY <1>4, <1>6 DEF AppDeleteRow, GoneAtDeletion
  <2>2. ~DeleteApp(job[q].app)
    BY <1>2, <2>1 DEF DeleteApp
  <2>3. torn' = torn \cup job[q].gone
    BY <1>6, <2>2 DEF AppDeleteRow
  <2>4. QED
    BY <2>3
<1>7. CASE Step(q) /\ ~PruneRow(q) /\ ~DeleteRow(q) /\ ~AppDeleteRow(q)
  <2>1. pc[q] \in Deleting => AppDeleteFiles(q)
    BY <1>7 DEF Deleting, Step, UploadEnd, UploadPart, UploadReject, UploadMove, UploadInsert,
         UploadInsertFails, UploadUndo, UploadPromote, UploadBundle, PruneRead, PruneSkip,
         PruneList, PruneFiles, DeleteReadApp, DeleteClear, DeleteFiles,
         PinWrite, AppDeleteFiles, DownloadOpen
  <2>2. QED
    BY <1>3, <1>4, <2>1, StepRemoves DEF Removes
<1>8. CASE Request(q)
  <2>1. pc[q] = "idle" \/ UNCHANGED job
    BY <1>8 DEF Request, AppCreate, UploadBegin, AppDeleteList, DeleteBegin, PinBegin,
                DownloadRead, Start
  <2>2. QED
    BY <1>3, <1>4, <2>1 DEF Deleting
<1>9. ASSUME NEW p \in Procs, p # q, Step(p) \/ Request(p)
      PROVE  r.id \in Gone'
  BY <1>3, <1>9, OthersStand
<1>10. CASE Environment \/ UNCHANGED vars
  <2>1. CASE Crash
    BY <2>1 DEF Crash
  <2>2. CASE ~Crash
    <3>1. UNCHANGED job
      BY <1>10, <2>2 DEF Environment, Tick, Boot, OrphanScanEnd, OrphanRemove, ScanCutShort, vars
    <3>2. QED
      BY <1>3, <3>1
  <2>3. QED
    BY <2>1, <2>2
<1>11. QED
  BY <1>5, <1>6, <1>7, <1>8, <1>9, <1>10 DEF Next

(* Every step keeps the packages of listed versions. *)
LEMMA NextBacked ==
    ASSUME TypeOK, OneOwner, OwnBytes, GoneAtDeletion, FilesBacked, [Next]_vars
    PROVE  FilesBacked'
<1> DEFINE excused(r) == Stamp(r) \in reused' \/ r.id \in torn' \cup Gone'
           has(r) == Path(r) \in DOMAIN files' /\ files'[Path(r)] = r.build.sha
<1>0. \A r \in versions : Stamp(r) \in reused \/ r.id \in torn \cup Gone \/ Has(r)
  BY DEF FilesBacked, Has, Gone
<1>1. ASSUME \A r \in versions' : excused(r) \/ has(r)
      PROVE  FilesBacked'
  <2>1. \A r \in versions' : Stamp(r)' = Stamp(r) /\ Path(r)' = Path(r)
    BY DEF Stamp, Path
  <2>2. Gone' = UNION {job'[p].gone : p \in Procs}
    BY DEF Gone
  <2>3. QED
    BY <1>1, <2>1, <2>2 DEF FilesBacked
<1>2. \A r \in versions : r \in versions' /\ r.id \in torn \cup Gone => excused(r)
  BY HalfGoneStays
<1> HIDE DEF excused
<1>3. ASSUME NEW p \in Procs, UploadMove(p)
      PROVE  \A r \in versions' : excused(r) \/ has(r)
  <2> DEFINE n == [job[p].row EXCEPT !.ts = clock]
  <2>1. /\ files' = Put(files, Path(n), n.build.sha) /\ versions' = versions
        /\ reused' = reused \cup ({Stamp(n)} \cap minted)
    BY <1>3 DEF UploadMove
  <2> HIDE DEF n
  <2>2. \A x \in DOMAIN files : x # Path(n) => x \in DOMAIN files' /\ files'[x] = files[x]
    BY <2>1 DEF Put
  <2>3. ASSUME NEW r \in versions'
        PROVE  excused(r) \/ has(r)
    <3>1. r \in versions /\ Stamp(r) \in minted
      BY <2>1, <2>3 DEF OneOwner, Rows
    <3>2. CASE Stamp(r) = Stamp(n) \/ Stamp(r) \in reused
      BY <2>1, <3>1, <3>2 DEF excused
    <3>3. CASE Path(r) # Path(n)
      BY <1>0, <1>2, <2>1, <2>2, <3>1, <3>2, <3>3 DEF Has
    <3>4. QED
      BY <3>2, <3>3, SamePath
  <2>4. QED
    BY <2>3
<1>4. ASSUME NEW p \in Procs, UploadInsert(p)
      PROVE  \A r \in versions' : excused(r) \/ has(r)
  <2> DEFINE n == job'[p].row
  <2>1. /\ versions' = versions \cup {n} /\ Path(n) = Path(job[p].row)
        /\ Stamp(n) = Stamp(job[p].row) /\ n.build = job[p].row.build
    BY <1>4, InsertRows
  <2>2. files' = files /\ reused' = reused /\ pc[p] = "insert"
    BY <1>4 DEF UploadInsert, durable
  <2>3. Stamp(job[p].row) \in reused \/ Has(job[p].row)
    BY <2>2 DEF OwnBytes
  <2> HIDE DEF n
  <2>4. excused(n) \/ has(n)
    BY <2>1, <2>2, <2>3 DEF Has, excused
  <2>5. ASSUME NEW r \in versions
        PROVE  excused(r) \/ has(r)
    <3>1. CASE Stamp(r) \in reused
      BY <2>2, <3>1 DEF excused
    <3>2. QED
      BY <1>0, <1>2, <2>1, <2>2, <3>1 DEF Has
  <2> HIDE DEF has
  <2>6. QED
    BY <2>1, <2>4, <2>5
<1>5. ASSUME \A p \in Procs : ~UploadMove(p) /\ ~UploadInsert(p)
      PROVE  \A r \in versions' : excused(r) \/ has(r)
  <2>1. /\ versions' \subseteq versions /\ reused' = reused
        /\ \A x \in DOMAIN files' : x \in DOMAIN files /\ files'[x] = files[x]
    BY <1>5, RowsStay, StampsStay, FilesShrink
  <2>2. SUFFICES ASSUME NEW r \in versions', ~excused(r)
                 PROVE  Path(r) \in DOMAIN files'
    <3>1. ASSUME NEW r \in versions'
          PROVE  excused(r) \/ has(r)
      <4>1. CASE excused(r)
        BY <4>1
      <4>2. CASE ~excused(r)
        <5>1. Path(r) \in DOMAIN files' /\ r \in versions
          BY <2>1, <2>2, <4>2
        <5>2. Has(r)
          BY <1>0, <1>2, <2>1, <4>2, <5>1 DEF excused
        <5>3. QED
          BY <2>1, <5>1, <5>2 DEF Has
      <4>3. QED
        BY <4>1, <4>2
    <3> HIDE DEF has
    <3>2. QED
      BY <3>1
  <2>3. r \in versions /\ r \in Rows /\ Stamp(r) \notin reused
    BY <2>1, <2>2 DEF Rows, excused
  <2>4. Path(r) \in DOMAIN files
    BY <1>0, <1>2, <2>2, <2>3 DEF Has
  <2>5. ASSUME NEW x, files' = Drop(files, x), x # Path(r)
        PROVE  Path(r) \in DOMAIN files'
    BY <2>4, <2>5, DropIs
  <2>6. ASSUME NEW p \in Procs, NEW s \in HeldBy(p), Removes(p, s), files' = Drop(files, Path(s))
        PROVE  Path(r) \in DOMAIN files'
    <3>1. s.id \in Gone' /\ s \in Rows
      BY <2>6 DEF Removes, Gone, Rows
    <3>2. s # r
      BY <2>2, <3>1 DEF excused
    <3>3. Stamp(s) # Stamp(r)
      BY <2>3, <3>1, <3>2 DEF OneOwner
    <3>4. QED
      BY <2>5, <2>6, <3>3, SamePath
  <2>7. ASSUME NEW p \in Procs, UploadUndo(p), files' = Drop(files, Path(job[p].row))
        PROVE  Path(r) \in DOMAIN files'
    <3>1. pc[p] \in Moved
      BY <2>7 DEF UploadUndo, Moved
    <3>2. Stamp(r) # Stamp(job[p].row)
      BY <2>3, <3>1 DEF OneOwner
    <3>3. QED
      BY <2>5, <2>7, <3>2, SamePath
  <2>8. ASSUME NEW x, OrphanRemove(x)
        PROVE  Path(r) \in DOMAIN files'
    <3>1. x # Path(r) /\ files' = Drop(files, x)
      BY <2>3, <2>8 DEF OrphanRemove, Known
    <3>2. QED
      BY <2>5, <3>1
  <2>9. ASSUME NEW D, ScanCutShort(D)
        PROVE  Path(r) \in DOMAIN files'
    <3>1. r.id \notin torn'
      BY <2>2 DEF excused
    <3>2. Path(r) \notin D
      BY <2>3, <2>9, <3>1 DEF ScanCutShort
    <3>3. QED
      BY <2>4, <2>9, <3>2 DEF ScanCutShort, Restrict
  <2>10. QED
    BY <1>5, <2>4, <2>6, <2>7, <2>8, <2>9, FilesThatGo
<1>6. QED
  BY <1>1, <1>3, <1>4, <1>5

-----------------------------------------------------------------------------
(* Files nobody refers to *)

(* No app comes back: one that exists after a step did before, or is new.  *)
LEMMA AppsStay ==
    ASSUME TypeOK, [Next]_vars
    PROVE  \A a : AppExists(a)' => AppExists(a) \/ a = lastApp + 1
<1> USE DEF durable
<1>1. ASSUME \A y \in apps' : \E x \in apps : y.id = x.id
      PROVE  \A a : AppExists(a)' => AppExists(a)
  BY <1>1 DEF AppExists
<1>2. ASSUME NEW p \in Procs, Step(p)
      PROVE  \A y \in apps' : \E x \in apps : y.id = x.id
  <2>1. ASSUME NEW a, NEW v, NEW plat, SetAppCurrentVersion(a, v, plat)
        PROVE  \A y \in apps' : \E x \in apps : y.id = x.id
    BY <2>1 DEF SetAppCurrentVersion, TypeOK, App
  <2>2. ASSUME NEW a, NEW plat, NEW b, SetAppBundleID(a, plat, b)
        PROVE  \A y \in apps' : \E x \in apps : y.id = x.id
    BY <2>2 DEF SetAppBundleID, TypeOK, App
  <2>3. CASE UploadPromote(p) \/ UploadBundle(p) \/ DeleteClear(p) \/ PinWrite(p)
    BY <2>1, <2>2, <2>3 DEF UploadPromote, UploadBundle, DeleteClear, PinWrite
  <2>4. CASE AppDeleteRow(p)
    BY <2>4 DEF AppDeleteRow, DeleteApp
  <2>5. \/ UploadPromote(p) \/ UploadBundle(p) \/ DeleteClear(p) \/ PinWrite(p)
        \/ AppDeleteRow(p) \/ apps' = apps
    BY <1>2 DEF Step, UploadEnd, UploadPart, UploadReject, UploadMove, UploadInsert,
         UploadInsertFails, UploadUndo, PruneRead, PruneSkip, PruneList, PruneFiles, PruneRow,
         DeleteReadApp, DeleteFiles, DeleteRow, AppDeleteFiles, DownloadOpen
  <2>6. QED
    BY <2>3, <2>4, <2>5
<1>3. ASSUME NEW p \in Procs, Request(p)
      PROVE  \A a : AppExists(a)' => AppExists(a) \/ a = lastApp + 1
  <2>1. CASE AppCreate(p)
    BY <2>1 DEF AppCreate, AppExists
  <2>2. CASE ~AppCreate(p)
    BY <1>1, <1>3, <2>2 DEF Request, UploadBegin, AppDeleteList, DeleteBegin, PinBegin,
       DownloadRead
  <2>3. QED
    BY <2>1, <2>2
<1>4. CASE Environment \/ UNCHANGED vars
  BY <1>1, <1>4 DEF Environment, Tick, Crash, Boot, OrphanScanEnd, OrphanRemove, ScanCutShort, vars
<1>5. QED
  BY <1>1, <1>2, <1>3, <1>4 DEF Next

(* Only a complete scan makes the directory clean again. *)
LEMMA CleanSince ==
    ASSUME [Next]_vars, ~unclean', ~OrphanScanEnd
    PROVE  ~unclean
<1> USE DEF history, Fault, NoFault
<1>1. ASSUME NEW p \in Procs, Step(p)
      PROVE  ~unclean
  BY <1>1 DEF Step, UploadEnd, UploadPart, UploadReject, UploadMove, UploadInsert,
         UploadInsertFails, UploadUndo, UploadPromote, UploadBundle, PruneRead, PruneSkip,
         PruneList, PruneFiles, PruneRow, DeleteReadApp, DeleteClear, DeleteFiles, DeleteRow,
         PinWrite, AppDeleteFiles, AppDeleteRow, DownloadOpen, RemoveFileOf
<1>2. ASSUME NEW p \in Procs, Request(p)
      PROVE  ~unclean
  BY <1>2 DEF Request, AppCreate, UploadBegin, AppDeleteList, DeleteBegin, PinBegin,
         DownloadRead
<1>3. CASE Environment \/ UNCHANGED vars
  BY <1>3 DEF Environment, Tick, Crash, Boot, OrphanRemove, ScanCutShort, vars
<1>4. QED
  BY <1>1, <1>2, <1>3 DEF Next

(* An upload whose package is at its path stays so until its row is        *)
(* inserted or its package is removed.                                     *)
LEMMA MovedStays ==
    ASSUME TypeOK, NEW p \in Procs, pc[p] \in Moved, Step(p) \/ Request(p),
           ~UploadInsert(p), ~UploadUndo(p)
    PROVE  pc'[p] \in Moved /\ job'[p] = job[p]
<1> USE DEF Moved, durable
<1>1. CASE Step(p)
  <2>1. UploadInsertFails(p)
    BY <1>1 DEF Step, UploadEnd, UploadPart, UploadReject, UploadMove, UploadPromote,
         UploadBundle, PruneRead, PruneSkip, PruneList, PruneFiles, PruneRow, DeleteReadApp,
         DeleteClear, DeleteFiles, DeleteRow, PinWrite, AppDeleteFiles, AppDeleteRow,
         DownloadOpen
  <2>2. QED
    BY <2>1 DEF UploadInsertFails, Goto, TypeOK
<1>2. CASE Request(p)
  BY <1>2 DEF Request, AppCreate, UploadBegin, AppDeleteList, DeleteBegin, PinBegin,
     DownloadRead, Start
<1>3. QED
  BY <1>1, <1>2

(* Ids are half gone when their file is removed, and were given out.       *)
LEMMA GoneGrows ==
    ASSUME TypeOK, GoneAtDeletion, NEW p \in Procs, Step(p) \/ Request(p)
    PROVE  \A v \in Gone' : v \in Gone \/ \E r \in HeldBy(p) : Removes(p, r) /\ v = r.id
<1>1. \/ job'[p].gone \subseteq job[p].gone
      \/ \E r \in HeldBy(p) : Removes(p, r)
  <2>1. job[p].todo \subseteq HeldBy(p)
    BY HeldByIs
  <2>2. ASSUME NEW x \in apps, AppDeleteList(p, x.id)
        PROVE  job'[p].gone = {}
    BY <2>2 DEF AppDeleteList, Keep, Blank, TypeOK
  <2>3. QED
    BY <2>1, <2>2, StepGone
<1>2. \A q \in Procs \ {p} : job'[q] = job[q]
  BY OthersStand
<1>3. ASSUME NEW v \in Gone', v \notin Gone
      PROVE  \E r \in HeldBy(p) : Removes(p, r) /\ v = r.id
  <2>1. v \in job'[p].gone /\ v \notin job[p].gone
    BY <1>2, <1>3 DEF Gone
  <2>2. PICK r \in HeldBy(p) : Removes(p, r)
    BY <1>1, <2>1
  <2>3. v = r.id
    BY <2>1, <2>2 DEF Removes
  <2>4. QED
    BY <2>2, <2>3
<1>4. QED
  BY <1>3

(* A listed version stays listed until a deletion deletes its row. *)
LEMMA OnlyDeletionsDelete ==
    ASSUME NEW p \in Procs, Step(p) \/ Request(p),
           ~(PruneRow(p) \/ DeleteRow(p) \/ AppDeleteRow(p))
    PROVE  versions \subseteq versions'
<1> USE DEF durable
<1>1. CASE Step(p)
  BY <1>1 DEF Step, UploadEnd, UploadPart, UploadReject, UploadMove, UploadInsert,
         UploadInsertFails, UploadUndo, UploadPromote, UploadBundle, PruneRead, PruneSkip,
         PruneList, PruneFiles, DeleteReadApp, DeleteClear, DeleteFiles,
         PinWrite, AppDeleteFiles, DownloadOpen
<1>2. CASE Request(p)
  BY <1>2 DEF Request, AppCreate, UploadBegin, AppDeleteList, DeleteBegin, PinBegin,
     DownloadRead
<1>3. QED
  BY <1>1, <1>2

(* Every step keeps every file accounted for. *)
LEMMA NextAccounted ==
    ASSUME TypeOK, TypeOK', OneOwner, GoneAtDeletion, BusyServes, Accounted, [Next]_vars
    PROVE  Accounted'
<1> DEFINE listed(q) == \E r \in versions : q = Path(r) /\ r.id \notin Gone
           moved(q) == \E p \in Procs : pc[p] \in Moved /\ q = Path(job[p].row)
           fine(q) ==
             \/ \E r \in versions' : q = Path(r) /\ r.id \notin Gone'
             \/ \E p \in Procs : pc'[p] \in Moved /\ q = Path(job'[p].row)
             \/ ~AppExists(q[1])'
<1>0. /\ unclean \/ \A q \in DOMAIN files : listed(q) \/ moved(q) \/ ~AppExists(q[1])
      /\ \A q \in DOMAIN files : q[1] \in 0 .. lastApp
      /\ lastApp \in Nat /\ lastVid \in Nat
  BY DEF Accounted, TypeOK
<1>1. ASSUME unclean' \/ \A q \in DOMAIN files' : fine(q),
             \A q \in DOMAIN files' : q[1] \in 0 .. lastApp'
      PROVE  Accounted'
  <2>1. \A r \in versions' : Path(r)' = Path(r)
    BY DEF Path
  <2>2. \A p \in Procs : Path(job[p].row)' = Path(job'[p].row)
    BY DEF Path
  <2>3. \A q : AppExists(q[1])' <=> \E x \in apps' : x.id = q[1]
    BY DEF AppExists
  <2>4. \A q : fine(q) <=> \/ \E r \in versions' : q = Path(r)' /\ r.id \notin Gone'
                           \/ \E p \in Procs : pc'[p] \in Moved /\ q = Path(job[p].row)'
                           \/ ~AppExists(q[1])'
    BY <2>1, <2>2
  <2> HIDE DEF fine
  <2>5. QED
    BY <1>1, <2>4 DEF Accounted
<1>2. ASSUME NEW q \in DOMAIN files, ~AppExists(q[1])
      PROVE  fine(q)
  <2>1. q[1] # lastApp + 1
    BY <1>0
  <2>2. QED
    BY <1>2, <2>1, AppsStay
<1>3. lastApp' \in Nat /\ 0 .. lastApp \subseteq 0 .. lastApp'
  BY <1>0, CountersGrow
<1>4. ASSUME NEW p \in Procs, UploadMove(p)
      PROVE  Accounted'
  <2> DEFINE n == [job[p].row EXCEPT !.ts = clock]
  <2>1. /\ files' = Put(files, Path(n), n.build.sha) /\ versions' = versions
        /\ unclean' = unclean /\ Step(p) /\ pc[p] = "stream"
    BY <1>4 DEF UploadMove, Step
  <2>2. job'[p].row = n /\ pc'[p] = "insert"
    BY <1>4, JobFields DEF UploadMove, Keep, Goto, Job, TypeOK
  <2>3. Path(n)[1] \in 0 .. lastApp
    BY JobFields DEF Path, Row
  <2> HIDE DEF n
  <2>4. DOMAIN files' = DOMAIN files \cup {Path(n)}
    BY <2>1 DEF Put
  <2>5. \A o \in Procs : pc[o] \in Moved => pc'[o] = pc[o] /\ job'[o] = job[o]
    BY <2>1, OthersStand DEF Moved
  <2>6. \A v \in Gone' : v \in Gone
    <3>1. \A r \in HeldBy(p) : ~Removes(p, r)
      BY <2>2 DEF Removes, Moved
    <3>2. QED
      BY <2>1, <3>1, GoneGrows
  <2>7. fine(Path(n))
    BY <2>2 DEF Moved
  <2>8. ASSUME NEW q \in DOMAIN files, ~unclean
        PROVE  fine(q)
    <3>1. CASE listed(q)
      BY <2>1, <2>6, <3>1
    <3>2. CASE moved(q)
      BY <2>5, <3>2
    <3> HIDE DEF fine, listed, moved
    <3>3. QED
      BY <1>0, <1>2, <2>8, <3>1, <3>2
  <2> HIDE DEF fine
  <2>9. QED
    BY <1>0, <1>1, <1>3, <2>1, <2>3, <2>4, <2>7, <2>8
<1>5. CASE \A p \in Procs : ~UploadMove(p)
  <2>1. \A q \in DOMAIN files' : q \in DOMAIN files
    BY <1>5, FilesShrink
  <2>2. \A q \in DOMAIN files' : q[1] \in 0 .. lastApp'
    BY <1>0, <1>3, <2>1
  <2>3. SUFFICES ASSUME ~unclean', NEW q \in DOMAIN files'
                 PROVE  fine(q)
    <3> HIDE DEF fine
    <3> QED BY <1>1, <2>2, <2>3
  <2>4. CASE OrphanScanEnd
    <3>1. mode = "scan" /\ UNCHANGED <<versions, files, pc, job>>
      BY <2>4 DEF OrphanScanEnd, durable
    <3>2. DOMAIN files \subseteq Known
      BY <2>3, <2>4 DEF OrphanScanEnd, Fault
    <3>3. \A p \in Procs : pc[p] = "idle"
      BY <3>1 DEF BusyServes
    <3>4. Gone' = {}
      BY <3>1, <3>3 DEF Gone, GoneAtDeletion, Deleting
    <3>5. QED
      BY <2>1, <3>1, <3>2, <3>4 DEF Known
  <2>5. ASSUME ~OrphanScanEnd
        PROVE  listed(q) \/ moved(q) \/ ~AppExists(q[1])
    <3> HIDE DEF listed, moved
    <3> QED BY <1>0, <2>1, <2>3, <2>5, CleanSince
  <2>6. ASSUME NEW p \in Procs, Step(p) \/ Request(p), moved(q)
        PROVE  fine(q)
    <3> PICK o \in Procs : pc[o] \in Moved /\ q = Path(job[o].row)
      BY <2>6
    <3>1. CASE o # p
      BY <2>6, <3>1, OthersStand
    <3>2. CASE o = p /\ UploadInsert(p)
      <4>1. /\ job'[p].row \in versions' /\ Path(job'[p].row) = q
            /\ job'[p].row.id = lastVid + 1 /\ job'[p].gone = job[p].gone
        BY <3>2, InsertRows
      <4>2. \A x \in Procs : job'[x].gone = job[x].gone
        BY <2>6, <4>1, OthersStand
      <4>3. \A x \in Procs : lastVid + 1 \notin job[x].gone
        BY <1>0, JobFields
      <4>4. lastVid + 1 \notin Gone'
        BY <4>2, <4>3 DEF Gone
      <4>5. QED
        BY <4>1, <4>4
    <3>3. CASE o = p /\ UploadUndo(p)
      <4>1. files' = Drop(files, Path(job[p].row)) \/ unclean' = TRUE
        BY <3>3, FaultIsUnclean DEF UploadUndo
      <4>2. unclean' # TRUE
        BY <2>3, Zenon
      <4>3. files' = Drop(files, q)
        BY <3>3, <4>1, <4>2
      <4>4. q \notin DOMAIN files'
        BY <4>3, DropIs
      <4>5. QED
        BY <2>3, <4>4
    <3>4. CASE o = p /\ ~UploadInsert(p) /\ ~UploadUndo(p)
      BY <2>6, <3>4, MovedStays
    <3>5. QED
      BY <3>1, <3>2, <3>3, <3>4
  <2>7. ASSUME NEW p \in Procs, Step(p) \/ Request(p), listed(q)
        PROVE  fine(q)
    <3> PICK r \in versions : q = Path(r) /\ r.id \notin Gone
      BY <2>7
    <3>1. r.id \notin Gone'
      <4> SUFFICES ASSUME NEW s \in HeldBy(p), Removes(p, s), r.id = s.id
                   PROVE  FALSE
        BY <2>7, GoneGrows
      <4>1. r \in Rows /\ s \in Rows
        BY DEF Rows
      <4>2. r = s
        BY <4>1 DEF OneOwner
      <4>3. files' = Drop(files, q)
        <5>1. unclean' # TRUE
          BY <2>3, Zenon
        <5>2. QED
          BY <4>2, <5>1 DEF Removes
      <4>4. QED
        BY <2>3, <4>3, DropIs
    <3>2. CASE r \in versions'
      BY <3>1, <3>2
    <3>3. CASE r \notin versions'
      <4>1. PruneRow(p) \/ DeleteRow(p) \/ AppDeleteRow(p)
        BY <2>7, <3>3, OnlyDeletionsDelete
      <4>2. CASE PruneRow(p) \/ DeleteRow(p)
        <5>1. r.id = job[p].row.id
          BY <3>3, <4>2 DEF PruneRow, DeleteRow, DeleteVersion
        <5>2. job[p].gone = {job[p].row.id}
          BY <4>2 DEF PruneRow, DeleteRow, GoneAtDeletion
        <5>3. QED
          BY <5>1, <5>2 DEF Gone
      <4>3. CASE AppDeleteRow(p)
        <5>1. DeleteApp(job[p].app) /\ r.app = job[p].app
          BY <3>3, <4>3 DEF AppDeleteRow, DeleteApp
        <5>2. q[1] = job[p].app
          BY <5>1 DEF Path
        <5>3. ~AppExists(q[1])'
          BY <5>1, <5>2 DEF DeleteApp, AppExists
        <5>4. QED
          BY <5>3
      <4>4. QED
        BY <4>1, <4>2, <4>3
    <3>4. QED
      BY <3>2, <3>3
  <2>8. CASE (Environment \/ UNCHANGED vars) /\ ~OrphanScanEnd
    <3>1. ~Crash
      BY <2>3 DEF Crash
    <3>2. UNCHANGED <<versions, pc, job>>
      BY <2>8, <3>1 DEF Environment, Tick, Boot, OrphanRemove, ScanCutShort, vars, durable
    <3>3. Gone' = Gone
      BY <3>2 DEF Gone
    <3>4. listed(q) \/ moved(q) => fine(q)
      BY <3>2, <3>3
    <3> HIDE DEF listed, moved, fine
    <3>5. QED
      BY <1>2, <2>1, <2>3, <2>5, <2>8, <3>4
  <2>9. ASSUME NEW p \in Procs, Step(p) \/ Request(p)
        PROVE  fine(q)
    <3>1. mode' = mode
      BY <2>9, StepIsBusy DEF Request, AppCreate, UploadBegin, AppDeleteList, DeleteBegin,
         PinBegin, DownloadRead
    <3>2. ~OrphanScanEnd
      BY <3>1 DEF OrphanScanEnd
    <3> HIDE DEF listed, moved, fine
    <3>3. QED
      BY <1>2, <2>1, <2>3, <2>5, <2>6, <2>7, <2>9, <3>2
  <2>10. QED
    BY <2>4, <2>8, <2>9 DEF Next
<1>6. QED
  BY <1>4, <1>5

-----------------------------------------------------------------------------
(* The inductive invariant and what follows from it *)

(* It holds initially, *)
LEMMA InitFiles == Init => FilesIInv
<1> SUFFICES ASSUME Init PROVE FilesIInv
  OBVIOUS
<1>1. IInv
  BY InitIInv
<1>2. \A p \in Procs : HeldBy(p) = {} /\ job[p].gone = {} /\ pc[p] = "idle"
  BY DEF Init, HeldBy, Blank, Handling
<1>3. Rows = {} /\ Gone = {} /\ DOMAIN files = {}
  BY <1>2 DEF Init, Rows, Gone
<1>4. OneOwner /\ OwnBytes /\ GoneAtDeletion
  BY <1>2, <1>3 DEF OneOwner, OwnBytes, GoneAtDeletion, Deleting, Moved
<1>5. Accounted /\ BusyServes /\ FilesBacked /\ TempFilesOwned
  BY <1>2, <1>3 DEF Init, Accounted, BusyServes, FilesBacked, TempFilesOwned, Receives
<1>6. QED
  BY <1>1, <1>4, <1>5 DEF FilesIInv

(* and every step, stuttering included, keeps it. *)
LEMMA NextFiles == FilesIInv /\ [Next]_vars => FilesIInv'
<1> SUFFICES ASSUME FilesIInv, [Next]_vars PROVE FilesIInv'
  OBVIOUS
<1>1. /\ IInv /\ OneOwner /\ OwnBytes /\ GoneAtDeletion /\ Accounted /\ BusyServes
      /\ FilesBacked /\ TempFilesOwned /\ TypeOK
  BY DEF FilesIInv, IInv
<1>2. IInv' /\ TypeOK'
  BY <1>1, NextIInv DEF IInv
<1>3. OneOwner' /\ OwnBytes'
  BY <1>1, <1>2, NextOwners, NextOwnBytes
<1>4. GoneAtDeletion' /\ FilesBacked'
  BY <1>1, <1>2, NextGone, NextBacked
<1>5. Accounted' /\ BusyServes' /\ TempFilesOwned'
  BY <1>1, <1>2, NextAccounted, NextServing, NextTemp
<1>6. QED
  BY <1>2, <1>3, <1>4, <1>5 DEF FilesIInv

(* Stamps used once have one owner, whose bytes are at its path; what a    *)
(* deletion removes is what it remembers; every file is accounted for.     *)
THEOREM FilesInvariance == Spec => []FilesIInv
BY InitFiles, NextFiles, PTL DEF Spec

(* A listed version has its own package on disk, whatever uploads, prunes, *)
(* deletions, kills and ignored errors overlap, unless its deletion has    *)
(* begun or its path was used twice in a second.                           *)
THEOREM ListedHasPackage == Spec => []FilesBacked
<1>1. FilesIInv => FilesBacked
  BY DEF FilesIInv
<1>2. QED
  BY <1>1, FilesInvariance, PTL

(* A download serves the bytes of the version it read, however long ago.   *)
THEOREM ServesOwnBytes == Spec => []DownloadsServeOwnBytes
<1>1. ASSUME FilesIInv PROVE DownloadsServeOwnBytes
  <2>1. \A p \in Procs : pc[p] = "open" => job[p].row \in Rows
    BY HeldByIs DEF Rows, Handling
  <2>2. QED
    BY <1>1, <2>1 DEF FilesIInv, OwnBytes, Has, DownloadsServeOwnBytes
<1>2. QED
  BY <1>1, FilesInvariance, PTL

(* Undone uploads, pruning and deletions leave no file behind.             *)
THEOREM NothingLeftBehind == Spec => []NoOrphans
<1>1. ASSUME FilesIInv PROVE NoOrphans
  BY <1>1 DEF FilesIInv, Accounted, NoOrphans, Known, Moved
<1>2. QED
  BY <1>1, FilesInvariance, PTL

(* A goroutine has one temporary file for the upload it is receiving, and  *)
(* what is left beyond that is one for each kill and each ignored error.   *)
THEOREM TempFilesAreOwned == Spec => []TempFilesOwned
<1>1. FilesIInv => TempFilesOwned
  BY DEF FilesIInv
<1>2. QED
  BY <1>1, FilesInvariance, PTL

=============================================================================
