--------------------------- MODULE VisitorsProofs ---------------------------
(* Theorems about Visitors, for every value of its constants. *)
EXTENDS Visitors, TLAPS

-----------------------------------------------------------------------------
(* Type correctness *)

(* What a request starts from, reads or keeps has its type. *)
LEMMA JobTypes ==
    ASSUME TypeOK, NEW p \in Procs, NEW j \in Job, Keep(p, j)
    PROVE  job' \in [Procs -> Job]
BY DEF TypeOK, Keep

LEMMA LabelTypes ==
    ASSUME TypeOK, NEW p \in Procs, NEW l \in Labels, Goto(p, l)
    PROVE  pc' \in [Procs -> Labels] /\ pc'[p] = l /\ \A q \in Procs \ {p} : pc'[q] = pc[q]
BY DEF TypeOK, Goto

LEMMA BlankType == TypeOK => Blank \in Job
BY DEF TypeOK, Blank, Job

LEMMA FinishTypes ==
    ASSUME TypeOK, NEW p \in Procs, Finish(p)
    PROVE  /\ job' \in [Procs -> Job] /\ pc' \in [Procs -> Labels]
           /\ pc'[p] = "idle" /\ job'[p] = Blank
           /\ \A q \in Procs \ {p} : pc'[q] = pc[q] /\ job'[q] = job[q]
<1>1. Blank \in Job
  BY BlankType
<1>2. "idle" \in Labels
  BY DEF Labels
<1>3. job' \in [Procs -> Job] /\ job'[p] = Blank /\ \A q \in Procs \ {p} : job'[q] = job[q]
  BY <1>1 DEF Finish, Keep, TypeOK
<1>4. QED
  BY <1>2, <1>3, LabelTypes DEF Finish

(* Only the marks of the requests change when short ids do. *)
LEMMA HandsTypes ==
    ASSUME TypeOK, NEW S, ChangeHands(S)
    PROVE  /\ job' \in [Procs -> Job]
           /\ \A q \in Procs :
                /\ job'[q].short = job[q].short /\ job'[q].app = job[q].app
                /\ job'[q].dev = job[q].dev
                /\ job'[q].ver = job[q].ver /\ job'[q].data = job[q].data
                /\ job'[q].fd = job[q].fd /\ job'[q].todo = job[q].todo
                /\ job'[q].astray = (job[q].astray \/ job[q].short \in S)
<1>1. \A q \in Procs : job[q] \in Job
  BY DEF TypeOK
<1>2. \A q \in Procs : job'[q] = [job[q] EXCEPT !.astray = @ \/ job[q].short \in S]
  BY DEF ChangeHands
<1>3. job' = [q \in Procs |-> [job[q] EXCEPT !.astray = @ \/ job[q].short \in S]]
  BY DEF ChangeHands
<1>4. \A q \in Procs : [job[q] EXCEPT !.astray = @ \/ job[q].short \in S] \in Job
  BY <1>1 DEF Job
<1>5. job' \in [Procs -> Job]
  BY <1>3, <1>4
<1>6. QED
  BY <1>1, <1>2, <1>5 DEF Job

(* Icon files are put and removed one at a time. *)
LEMMA IconTypes ==
    ASSUME TypeOK, NEW i \in Icons, NEW c \in Contents, NEW S
    PROVE  /\ DOMAIN Put(icons, i, c) = DOMAIN icons \cup {i}
           /\ Put(icons, i, c) \in [DOMAIN icons \cup {i} -> Contents]
           /\ Put(icons, i, c)[i] = c
           /\ \A x \in DOMAIN icons \ {i} : Put(icons, i, c)[x] = icons[x]
           /\ S \subseteq DOMAIN icons =>
                /\ DOMAIN Restrict(icons, S) = S
                /\ Restrict(icons, S) \in [S -> Contents]
                /\ \A x \in S : Restrict(icons, S)[x] = icons[x]
BY DEF TypeOK, Put, Restrict

(* Every step of every action keeps the types. *)
LEMMA NextTypes == TypeOK /\ Rewriters /\ Addressed /\ [Next]_vars => TypeOK'
<1> SUFFICES ASSUME TypeOK, Rewriters, Addressed, [Next]_vars PROVE TypeOK'
  OBVIOUS
<1>a. ASSUME lastApp' = lastApp PROVE Job' = Job
  BY <1>a DEF Job
<1>b. ASSUME UNCHANGED <<tables, icons, shown, harm>>, mode' \in {"down", "serving"},
             mishaps' \in Nat, job' \in [Procs -> Job], pc' \in [Procs -> Labels]
      PROVE  TypeOK'
  <2>1. Job' = Job
    BY <1>b, <1>a DEF tables
  <2>2. QED
    BY <1>b, <2>1 DEF TypeOK, tables, harm
<1>c. ASSUME NEW p \in Procs PROVE job[p] \in Job
  BY <1>c DEF TypeOK
<1>d. Blank \in Job
  BY BlankType
<1>e. UNCHANGED mishaps \/ Mishap => mishaps' \in Nat
  BY VisitorsAssumption DEF TypeOK, Mishap
<1>1. ASSUME NEW s \in ShortIDs, CreateApp(s) PROVE TypeOK'
  <2>1. job' \in [Procs -> Job]
    BY <1>1, HandsTypes DEF CreateApp
  <2>2. lastApp' = lastApp + 1 /\ lastApp \in Nat /\ lastApp' \in Nat
    BY <1>1 DEF CreateApp, TypeOK
  <2>3. 0 .. lastApp \subseteq 0 .. lastApp' /\ 1 .. lastApp \subseteq 1 .. lastApp'
        /\ lastApp + 1 \in 1 .. lastApp'
    BY <2>2
  <2>4. Job \subseteq Job'
    BY <2>3 DEF Job
  <2> DEFINE n == [id |-> lastApp + 1, short |-> s]
  <2>5. apps' = apps \cup {n} /\ n \in [id : 1 .. lastApp', short : ShortIDs]
        /\ n.id = lastApp + 1 /\ n.short = s
    BY <1>1, <2>3 DEF CreateApp
  <2>6. \A x \in apps : x.id # lastApp + 1 /\ x.short # s
    BY <1>1, <2>2 DEF CreateApp, Taken, TypeOK
  <2> HIDE DEF n
  <2>7. /\ apps' \subseteq [id : 1 .. lastApp', short : ShortIDs]
        /\ \A x, y \in apps' : x.id = y.id \/ x.short = y.short => x = y
    BY <2>3, <2>5, <2>6 DEF TypeOK
  <2>8. QED
    BY <1>1, <2>1, <2>2, <2>3, <2>4, <2>7 DEF CreateApp, TypeOK, harm
<1>2. ASSUME NEW s \in ShortIDs, NEW x \in apps, UpdateApp(x, s) PROVE TypeOK'
  <2>1. job' \in [Procs -> Job]
    BY <1>2, HandsTypes DEF UpdateApp
  <2> DEFINE n == [x EXCEPT !.short = s]
  <2>2. apps' = (apps \ {x}) \cup {n} /\ n \in [id : 1 .. lastApp, short : ShortIDs]
        /\ n.id = x.id /\ n.short = s
    BY <1>2 DEF UpdateApp, TypeOK
  <2>3. \A y \in apps \ {x} : y.id # x.id /\ y.short # s
    BY <1>2 DEF UpdateApp, Taken, TypeOK
  <2> HIDE DEF n
  <2>4. /\ apps' \subseteq [id : 1 .. lastApp, short : ShortIDs]
        /\ \A y, z \in apps' : y.id = z.id \/ y.short = z.short => y = z
    BY <2>2, <2>3 DEF TypeOK
  <2>5. QED
    BY <1>2, <1>a, <2>1, <2>4 DEF UpdateApp, TypeOK, harm
<1>3. ASSUME NEW p \in Procs, DeleteAppFails(p) PROVE TypeOK'
  <2>1. job' \in [Procs -> Job] /\ pc' \in [Procs -> Labels] /\ mishaps' \in Nat
    BY <1>3, <1>e, FinishTypes DEF DeleteAppFails
  <2>2. UNCHANGED <<tables, icons, mode, shown, harm>>
    BY <1>3 DEF DeleteAppFails
  <2>3. QED
    BY <2>1, <2>2, <1>b DEF TypeOK
<1>4. ASSUME Crash PROVE TypeOK'
  <2>1. /\ job' \in [Procs -> Job] /\ pc' \in [Procs -> Labels]
        /\ Job' = Job
    BY <1>4, <1>d, <1>a DEF Crash, Labels, tables
  <2>2. cut' \subseteq Icons
    BY <1>4, <1>c DEF Crash, TypeOK, Job
  <2>3. QED
    BY <1>4, <1>e, <2>1, <2>2 DEF Crash, TypeOK, tables
<1>5. ASSUME Boot PROVE TypeOK'
  <2>1. PICK S \in SUBSET DOMAIN icons : icons' = Restrict(icons, S)
    <3>1. CASE icons' = Restrict(icons, DOMAIN icons \cap Listed)
      BY <3>1
    <3>2. QED
      BY <1>5, <3>1 DEF Boot
  <2>2. icons' \in [DOMAIN icons' -> Contents] /\ DOMAIN icons' \subseteq Icons
    BY <2>1 DEF TypeOK, Restrict
  <2>3. UNCHANGED mishaps \/ Mishap
    BY <1>5 DEF Boot
  <2>4. mishaps' \in Nat
    BY <1>e, <2>3
  <2>5. cut' \subseteq cut /\ ghosts' \subseteq ghosts /\ mode' = "serving"
        /\ UNCHANGED <<tables, pc, job, shown>>
    BY <1>5 DEF Boot
  <2>6. QED
    BY <1>a, <2>2, <2>4, <2>5 DEF TypeOK, tables
<1>6. ASSUME NEW p \in Procs, NEW v \in vers, IconRow(p, v) \/ VersionDeleteBegin(p, v) PROVE TypeOK'
  <2>1. v.id \in Icons /\ "iconRead" \in Labels /\ "remove" \in Labels
    BY DEF TypeOK, Labels
  <2>2. /\ [Blank EXCEPT !.ver = v.id] \in Job
        /\ [Blank EXCEPT !.ver = v.id, !.todo = {v.id}] \in Job
    BY <1>d, <2>1 DEF Job
  <2>3. job' \in [Procs -> Job] /\ pc' \in [Procs -> Labels]
    BY <1>6, <2>1, <2>2, JobTypes, LabelTypes DEF IconRow, VersionDeleteBegin
  <2>4. mode' = mode /\ mishaps' = mishaps /\ UNCHANGED <<tables, icons, shown, harm>>
    BY <1>6 DEF IconRow, VersionDeleteBegin
  <2>5. QED
    BY <2>3, <2>4, <1>b DEF TypeOK
<1>7. ASSUME NEW p \in Procs, NEW x \in apps, AppDeleteBegin(p, x) PROVE TypeOK'
  <2> DEFINE all == {v.id : v \in {w \in vers : w.app = x.id}}
  <2>1. x.id \in 0 .. lastApp /\ all \subseteq Icons /\ "remove" \in Labels
    BY DEF TypeOK, Labels
  <2>2. PICK D \in SUBSET all :
          /\ Keep(p, [Blank EXCEPT !.app = x.id, !.todo = D])
          /\ ghosts' = ghosts \cup (all \ D)
          /\ UNCHANGED mishaps \/ Mishap
    BY <1>7 DEF AppDeleteBegin
  <2> HIDE DEF all
  <2>3. [Blank EXCEPT !.app = x.id, !.todo = D] \in Job
    BY <1>d, <2>1 DEF Job
  <2>4. job' \in [Procs -> Job] /\ pc' \in [Procs -> Labels]
    BY <1>7, <2>1, <2>2, <2>3, JobTypes, LabelTypes DEF AppDeleteBegin
  <2>5. ghosts' \subseteq Icons /\ mishaps' \in Nat
    BY <1>e, <2>1, <2>2 DEF TypeOK
  <2>6. UNCHANGED <<tables, icons, mode, shown, cut>>
    BY <1>7 DEF AppDeleteBegin
  <2>7. QED
    BY <1>a, <2>4, <2>5, <2>6 DEF TypeOK, tables
<1>8. ASSUME NEW p \in Procs, NEW d \in Devices, NEW x \in apps, UDIDSubmit(p, d, x) PROVE TypeOK'
  <2>1. /\ x.id \in 0 .. lastApp
        /\ x.short \in ShortIDs /\ "upsert" \in Labels
    BY DEF TypeOK, Labels
  <2>2. [Blank EXCEPT !.short = x.short, !.app = x.id, !.dev = d] \in Job
    BY <1>d, <2>1 DEF Job
  <2>3. job' \in [Procs -> Job] /\ pc' \in [Procs -> Labels]
    BY <1>8, <2>1, <2>2, JobTypes, LabelTypes DEF UDIDSubmit
  <2>4. QED
    BY <1>8, <2>3, <1>b DEF UDIDSubmit, TypeOK
<1>9. ASSUME NEW p \in Procs, NEW d \in Devices, NEW s \in ShortIDs, UDIDCallback(p, d, s)
      PROVE  TypeOK'
  <2> DEFINE j == [Blank EXCEPT !.short = s, !.dev = d]
  <2>1. "upsert" \in Labels /\ "page" \in Labels
    BY DEF Labels
  <2>2. j \in Job
    BY <1>d DEF Job
  <2>3. \A x \in apps : [j EXCEPT !.app = x.id] \in Job
    <3>1. \A x \in apps : x.id \in 0 .. lastApp
      BY DEF TypeOK
    <3> HIDE DEF j
    <3>2. QED
      BY <2>2, <3>1 DEF Job
  <2>4. \/ Keep(p, j) /\ Goto(p, "page")
        \/ (\E x \in apps : Keep(p, [j EXCEPT !.app = x.id])) /\ Goto(p, "upsert")
    BY <1>9 DEF UDIDCallback
  <2> HIDE DEF j
  <2>5. job' \in [Procs -> Job] /\ pc' \in [Procs -> Labels]
    BY <2>1, <2>2, <2>3, <2>4, JobTypes, LabelTypes
  <2>6. UNCHANGED <<tables, icons, mode, mishaps, shown, harm>>
    BY <1>9 DEF UDIDCallback
  <2>7. QED
    BY <2>5, <2>6, <1>b DEF TypeOK
<1>10. ASSUME NEW p \in Procs, RemoveIcon(p) PROVE TypeOK'
  <2>1. PICK i \in job[p].todo :
          \/ /\ icons' = Restrict(icons, DOMAIN icons \ {i})
             /\ job' = [q \in Procs |->
                          IF q = p THEN [job[p] EXCEPT !.todo = @ \ {i}]
                          ELSE IF job[q].fd = i THEN [job[q] EXCEPT !.fd = 0] ELSE job[q]]
             /\ cut' = cut \ {i} /\ ghosts' = ghosts \ {i} /\ UNCHANGED mishaps
          \/ /\ Keep(p, [job[p] EXCEPT !.todo = @ \ {i}])
             /\ ghosts' = ghosts \cup {i} /\ Mishap /\ UNCHANGED <<icons, cut>>
    BY <1>10 DEF RemoveIcon
  <2>2. icons' \in [DOMAIN icons' -> Contents] /\ DOMAIN icons' \subseteq Icons
    BY <2>1 DEF TypeOK, Restrict
  <2>3. \A q \in Procs : [job[q] EXCEPT !.todo = @ \ {i}] \in Job /\ [job[q] EXCEPT !.fd = 0] \in Job
    BY <1>c DEF Job
  <2>4. job' \in [Procs -> Job]
    BY <2>1, <2>3, <1>c, JobTypes
  <2>5. i \in Icons
    BY <1>c DEF Job
  <2>6. cut' \subseteq Icons /\ ghosts' \subseteq Icons
    BY <2>1, <2>5 DEF TypeOK
  <2>7. mishaps' \in Nat
    BY <2>1, <1>e
  <2>8. UNCHANGED <<tables, mode, pc, shown>>
    BY <1>10 DEF RemoveIcon
  <2>9. QED
    BY <1>a, <2>2, <2>4, <2>6, <2>7, <2>8 DEF TypeOK, tables
<1>11. ASSUME NEW p \in Procs, DeleteVersionRow(p) PROVE TypeOK'
  <2>1. job' \in [Procs -> Job] /\ pc' \in [Procs -> Labels]
    BY <1>11, FinishTypes DEF DeleteVersionRow
  <2>2. mishaps' \in Nat /\ vers' \subseteq vers
    BY <1>11, <1>e DEF DeleteVersionRow
  <2>3. UNCHANGED <<apps, lastApp, udids, icons, mode, shown, harm>>
    BY <1>11 DEF DeleteVersionRow
  <2>4. QED
    BY <1>a, <2>1, <2>2, <2>3 DEF TypeOK, harm
<1>12. ASSUME NEW p \in Procs, DeleteApp(p) PROVE TypeOK'
  <2> DEFINE names == {x.short : x \in {y \in apps : y.id = job[p].app}}
  <2>1. /\ apps' \subseteq apps /\ vers' \subseteq vers /\ udids' \subseteq udids
        /\ shown' \subseteq shown
        /\ UNCHANGED <<lastApp, icons, mode, mishaps, harm>>
        /\ job' = [q \in Procs |->
                     IF q = p THEN Blank
                     ELSE [job[q] EXCEPT !.astray = @ \/ job[q].short \in names]]
    BY <1>12 DEF DeleteApp
  <2> HIDE DEF names
  <2>2. \A q \in Procs : [job[q] EXCEPT !.astray = @ \/ job[q].short \in names] \in Job
    BY <1>c DEF Job
  <2>3. job' \in [Procs -> Job]
    BY <2>1, <2>2, <1>d
  <2>4. pc' \in [Procs -> Labels]
    BY <1>12, LabelTypes DEF DeleteApp, Labels
  <2>5. QED
    BY <1>a, <2>1, <2>3, <2>4 DEF TypeOK, harm
<1>13. ASSUME NEW p \in Procs, UpsertUDID(p) PROVE TypeOK'
  <2>1. job' \in [Procs -> Job]
    <3>1. [job[p] EXCEPT !.astray = TRUE] \in Job
      BY <1>c DEF Job
    <3>2. QED
      BY <1>13, <3>1, JobTypes DEF UpsertUDID, TypeOK
  <2>2. mishaps' \in Nat /\ pc' \in [Procs -> Labels]
    BY <1>13, <1>e, LabelTypes DEF UpsertUDID, Labels
  <2>3. Row(p) \in [app : 0 .. lastApp, dev : Devices]
    BY <1>c, <1>13 DEF Row, Job, UpsertUDID, Addressed
  <2>4. job[p].app # 0
    BY <1>13 DEF UpsertUDID, Addressed
  <2>5. Row(p) \in [app : 1 .. lastApp, dev : Devices]
    BY <2>3, <2>4 DEF Row, TypeOK
  <2>6. udids' \subseteq udids \cup {Row(p)}
    BY <1>13 DEF UpsertUDID, Upsert
  <2>7. QED
    BY <1>13, <1>a, <2>1, <2>2, <2>5, <2>6 DEF UpsertUDID, TypeOK, harm
<1>14. ASSUME NEW p \in Procs, ShowRecorded(p) PROVE TypeOK'
  <2>1. job' \in [Procs -> Job] /\ pc' \in [Procs -> Labels]
    BY <1>14, FinishTypes DEF ShowRecorded
  <2>2. job[p].dev \in Devices /\ \A x \in apps : x.id \in 1 .. lastApp
    BY <1>14 DEF ShowRecorded, Addressed, TypeOK
  <2>3. shown' \subseteq [dev : Devices, app : 1 .. lastApp]
    BY <1>14, <2>2 DEF ShowRecorded, TypeOK
  <2>4. QED
    BY <1>14, <1>a, <2>1, <2>3 DEF ShowRecorded, TypeOK, tables, harm
<1>15. ASSUME NEW p \in Procs, NotFollowed(p) \/ IconServe(p) PROVE TypeOK'
  <2>1. job' \in [Procs -> Job] /\ pc' \in [Procs -> Labels]
    BY <1>15, FinishTypes DEF NotFollowed, IconServe
  <2>2. mode' = mode /\ mishaps' = mishaps /\ UNCHANGED <<tables, icons, shown, harm>>
    BY <1>15 DEF NotFollowed, IconServe
  <2>3. QED
    BY <2>1, <2>2, <1>b DEF TypeOK
<1>16. ASSUME NEW p \in Procs, IconRead(p) PROVE TypeOK'
  <2>1. Content(job[p].ver) \in Contents \cup {"none"}
    BY DEF Content, TypeOK
  <2>2. [job[p] EXCEPT !.data = Content(job[p].ver)] \in Job
    BY <2>1, <1>c DEF Job
  <2>3. job' \in [Procs -> Job] /\ pc' \in [Procs -> Labels]
    BY <1>16, <2>2, JobTypes, LabelTypes DEF IconRead, Labels
  <2>4. QED
    BY <1>16, <2>3, <1>b DEF IconRead, TypeOK
<1>17. ASSUME NEW p \in Procs, IconOpen(p) PROVE TypeOK'
  <2>1. job[p].ver \in Icons /\ "empty" \in Contents /\ "iconWrite" \in Labels
    BY <1>17, <1>c DEF IconOpen, Rewriters, Job, Contents, Labels
  <2>2. [job[p] EXCEPT !.fd = job[p].ver] \in Job
    BY <2>1, <1>c DEF Job
  <2>3. job' \in [Procs -> Job] /\ pc' \in [Procs -> Labels]
    BY <1>17, <2>1, <2>2, JobTypes, LabelTypes DEF IconOpen
  <2>4. icons' \in [DOMAIN icons' -> Contents] /\ DOMAIN icons' \subseteq Icons /\ ghosts' \subseteq Icons
    <3>1. icons' = Put(icons, job[p].ver, "empty") /\ ghosts' \subseteq ghosts \cup {job[p].ver}
      BY <1>17 DEF IconOpen
    <3>2. /\ DOMAIN icons' = DOMAIN icons \cup {job[p].ver}
          /\ icons' \in [DOMAIN icons \cup {job[p].ver} -> Contents]
      BY <3>1, <2>1, IconTypes
    <3>3. QED
      BY <3>1, <3>2, <2>1 DEF TypeOK
  <2>5. UNCHANGED <<tables, mode, mishaps, shown, cut>>
    BY <1>17 DEF IconOpen
  <2>6. QED
    BY <1>a, <2>3, <2>4, <2>5 DEF TypeOK, tables
<1>18. ASSUME NEW p \in Procs, IconWrite(p) PROVE TypeOK'
  <2>1. Converted(job[p].data) \in Contents /\ "iconServe" \in Labels
    BY <1>18 DEF IconWrite, Rewriters, Contents, Labels, Converted
  <2>2. [job[p] EXCEPT !.fd = 0] \in Job
    BY <1>c DEF Job
  <2>3. job' \in [Procs -> Job] /\ pc' \in [Procs -> Labels]
    BY <1>18, <2>1, <2>2, JobTypes, LabelTypes DEF IconWrite
  <2>4. icons' \in [DOMAIN icons' -> Contents] /\ DOMAIN icons' \subseteq Icons
    <3>1. CASE job[p].fd = 0
      BY <1>18, <3>1 DEF IconWrite, TypeOK
    <3>2. CASE job[p].fd # 0
      <4>1. job[p].fd \in Icons
        BY <3>2, <1>c DEF Job
      <4>2. icons' = Put(icons, job[p].fd, Converted(job[p].data))
        BY <1>18, <3>2 DEF IconWrite
      <4>3. /\ DOMAIN icons' = DOMAIN icons \cup {job[p].fd}
            /\ icons' \in [DOMAIN icons \cup {job[p].fd} -> Contents]
        BY <4>1, <4>2, <2>1, IconTypes
      <4>4. QED
        BY <4>1, <4>3 DEF TypeOK
    <3>3. QED
      BY <3>1, <3>2
  <2>5. UNCHANGED <<tables, mode, mishaps, shown, ghosts>> /\ cut' \subseteq cut
    BY <1>18 DEF IconWrite
  <2>6. QED
    BY <1>a, <2>3, <2>4, <2>5 DEF TypeOK, tables
<1>19. ASSUME NEW p \in Procs, IconFails(p) PROVE TypeOK'
  <2>1. [job[p] EXCEPT !.fd = 0] \in Job /\ "iconServe" \in Labels
    BY <1>c DEF Job, Labels
  <2>2. job' \in [Procs -> Job] /\ pc' \in [Procs -> Labels]
    BY <1>19, <2>1, JobTypes, LabelTypes DEF IconFails
  <2>3. cut' \subseteq Icons /\ mishaps' \in Nat
    BY <1>19, <1>e DEF IconFails, TypeOK
  <2>4. UNCHANGED <<tables, icons, mode, shown, ghosts>>
    BY <1>19 DEF IconFails
  <2>5. QED
    BY <1>a, <2>2, <2>3, <2>4 DEF TypeOK, tables
<1>20. CASE UNCHANGED vars
  BY <1>20, <1>b DEF vars, TypeOK
<1>21. QED
  BY <1>1, <1>2, <1>3, <1>4, <1>5, <1>6, <1>7, <1>8, <1>9, <1>10, <1>11, <1>12, <1>13,
     <1>14, <1>15, <1>16, <1>17, <1>18, <1>19, <1>20
  DEF Next, Step, Request, Environment

-----------------------------------------------------------------------------
(* Device identifiers: requests designate the apps their visitors meant,   *)
(* and the rows they announce are there. *)

Recorded == Addressed /\ BannerTruthful

(* What p has to write, and of whom, is what it was.  *)
Same(p) ==
    /\ pc'[p] = pc[p]
    /\ job'[p].short = job[p].short /\ job'[p].app = job[p].app
    /\ job'[p].dev = job[p].dev

(* It holds however short ids change hands and apps go, as long as what    *)
(* names them is marked and what refers to them goes too: S are the short  *)
(* ids that changed hands, gone the apps that went. *)
LEMMA HandsRecorded ==
    ASSUME TypeOK, Recorded, NEW S, NEW gone,
           \A s, a : Designates(s, a) /\ s \notin S => Designates(s, a)',
           \A s : Taken(s)' /\ s \notin S => Taken(s),
           \A s, a : a \in gone /\ Designates(s, a) => s \in S,
           udids' = {u \in udids : u.app \notin gone},
           shown' \subseteq {b \in shown : b.app \notin gone},
           \A p \in Procs : pc'[p] \in {"upsert", "page"} =>
               Same(p) /\ job'[p].astray = (job[p].astray \/ job[p].short \in S)
    PROVE  Recorded'
<1>1. ASSUME NEW p \in Procs, pc'[p] \in {"upsert", "page"}
      PROVE  /\ job'[p].dev \in Devices
             /\ pc'[p] = "upsert" => job'[p].app # 0
             /\ ~job'[p].astray =>
                  IF job'[p].app = 0 THEN ~Taken(job[p].short)'
                  ELSE /\ Designates(job[p].short, job[p].app)'
                       /\ pc'[p] = "page" => HasRow(job[p].app, job[p].dev)'
  <2>1. pc[p] = pc'[p] /\ Same(p) /\ job'[p].astray = (job[p].astray \/ job[p].short \in S)
    BY <1>1 DEF Same
  <2>2. job'[p].dev \in Devices /\ (pc'[p] = "upsert" => job'[p].app # 0)
    BY <1>1, <2>1 DEF Same, Recorded, Addressed
  <2>3. ASSUME ~job'[p].astray, job'[p].app = 0 PROVE ~Taken(job[p].short)'
    <3>1. ~Taken(job[p].short) /\ job[p].short \notin S /\ job'[p].short = job[p].short
      BY <1>1, <2>1, <2>3 DEF Same, Recorded, Addressed
    <3>2. \A s : s = job[p].short => ~Taken(s)'
      BY <3>1
    <3>3. QED
      BY <3>1, <3>2 DEF Taken
  <2>4. ASSUME ~job'[p].astray, job'[p].app # 0
        PROVE  /\ Designates(job[p].short, job[p].app)'
               /\ pc'[p] = "page" => HasRow(job[p].app, job[p].dev)'
    <3>1. ~job[p].astray /\ job[p].short \notin S
      BY <2>1, <2>4
    <3>2. /\ Designates(job[p].short, job[p].app)
          /\ pc[p] = "page" => HasRow(job[p].app, job[p].dev)
      BY <1>1, <2>1, <2>4, <3>1 DEF Recorded, Addressed, Same
    <3>3. job[p].app \notin gone /\ [id |-> job[p].app, short |-> job[p].short] \in apps'
      BY <3>1, <3>2 DEF Designates
    <3>4. Designates(job[p].short, job[p].app)'
      BY <3>3, <2>1 DEF Same, Designates
    <3>5. ASSUME pc'[p] = "page" PROVE HasRow(job[p].app, job[p].dev)'
      <4>1. PICK u \in udids : u.app = job[p].app /\ u.dev = job[p].dev
        BY <3>2, <3>5, <2>1 DEF HasRow
      <4>2. u \in udids'
        BY <3>3, <4>1
      <4>3. QED
        BY <2>1, <4>1, <4>2 DEF HasRow, Same
    <3>6. QED
      BY <3>4, <3>5
  <2>5. QED
    BY <2>2, <2>3, <2>4
<1>2. BannerTruthful'
  <2> SUFFICES ASSUME NEW b \in shown, b.app \notin gone PROVE HasRow(b.app, b.dev)'
    BY DEF BannerTruthful
  <2>1. PICK u \in udids : u.app = b.app /\ u.dev = b.dev
    BY DEF Recorded, BannerTruthful, HasRow
  <2>2. QED
    BY <2>1 DEF HasRow
<1>3. Addressed'
  BY <1>1 DEF Addressed
<1>4. QED
  BY <1>2, <1>3 DEF Recorded

(* The same where no app goes.  *)
LEMMA KeptRecorded ==
    ASSUME TypeOK, Recorded, NEW S, UNCHANGED <<udids, shown>>,
           \A s, a : Designates(s, a) /\ s \notin S => Designates(s, a)',
           \A s : Taken(s)' /\ s \notin S => Taken(s),
           \A p \in Procs : Same(p) /\ job'[p].astray = (job[p].astray \/ job[p].short \in S)
    PROVE  Recorded'
<1> DEFINE none == {}
<1>1. /\ \A s, a : a \in none /\ Designates(s, a) => s \in S
      /\ udids' = {u \in udids : u.app \notin none}
      /\ shown' \subseteq {b \in shown : b.app \notin none}
  OBVIOUS
<1>2. \A p \in Procs : pc'[p] \in {"upsert", "page"} =>
        Same(p) /\ job'[p].astray = (job[p].astray \/ job[p].short \in S)
  OBVIOUS
<1> HIDE DEF none
<1>3. QED
  BY <1>1, <1>2, HandsRecorded

(* What Addressed says of one request *)
Meant(p) ==
    /\ pc[p] \in {"upsert", "page"} => job[p].dev \in Devices
    /\ pc[p] = "upsert" => job[p].app # 0
    /\ pc[p] \in {"upsert", "page"} /\ ~job[p].astray =>
         IF job[p].app = 0 THEN ~Taken(job[p].short)
         ELSE /\ Designates(job[p].short, job[p].app)
              /\ pc[p] = "page" => HasRow(job[p].app, job[p].dev)

(* While the apps stay, it is enough to look at what is new. *)
LEMMA MoreRecorded ==
    ASSUME TypeOK, Recorded, UNCHANGED apps,
           \A a, d : HasRow(a, d) => HasRow(a, d)',
           \A b \in shown' : b \in shown \/ \E u \in udids' : u.app = b.app /\ u.dev = b.dev,
           \A p \in Procs :
               (pc'[p] = pc[p] /\ job'[p] = job[p]) \/ pc'[p] \notin {"upsert", "page"} \/ Meant(p)'
    PROVE  Recorded'
<1>1. ASSUME NEW p \in Procs PROVE Meant(p)'
  <2>1. CASE pc'[p] = pc[p] /\ job'[p] = job[p]
    <3>1. Meant(p)
      BY DEF Recorded, Addressed, Meant
    <3>2. HasRow(job[p].app, job[p].dev) => HasRow(job[p].app, job[p].dev)'
      <4>1. ASSUME NEW a, NEW d, a = job[p].app, d = job[p].dev, HasRow(a, d)
            PROVE  HasRow(job[p].app, job[p].dev)'
        <5>1. HasRow(a, d)'
          BY <4>1
        <5>2. QED
          BY <2>1, <4>1, <5>1 DEF HasRow
      <4>2. QED
        BY <4>1
    <3>3. Designates(job[p].short, job[p].app)' <=> Designates(job[p].short, job[p].app)
      BY <2>1 DEF Designates
    <3>4. Taken(job[p].short)' <=> Taken(job[p].short)
      BY <2>1 DEF Taken
    <3>5. QED
      BY <2>1, <3>1, <3>2, <3>3, <3>4 DEF Meant
  <2>2. CASE pc'[p] \notin {"upsert", "page"}
    BY <2>2 DEF Meant
  <2>3. QED
    BY <2>1, <2>2
<1>2. Addressed'
  BY <1>1 DEF Addressed, Meant
<1>3. BannerTruthful'
  BY DEF Recorded, BannerTruthful, HasRow
<1>4. QED
  BY <1>2, <1>3 DEF Recorded

(* A short id designates one app. *)
LEMMA OneApp ==
    ASSUME TypeOK, NEW x \in apps, NEW a, Designates(x.short, a)
    PROVE  x.id = a
<1>1. [id |-> a, short |-> x.short] \in apps
  BY DEF Designates
<1>2. [id |-> a, short |-> x.short].short = x.short
  OBVIOUS
<1>3. x = [id |-> a, short |-> x.short]
  BY <1>1, <1>2 DEF TypeOK
<1>4. QED
  BY <1>3

LEMMA KnownApp ==
    ASSUME TypeOK, NEW x \in apps PROVE Designates(x.short, x.id) /\ x.id \in 1 .. lastApp
BY DEF TypeOK, Designates

(* The form: the request resolved the short id to the app it designates. *)
LEMMA SubmitRecorded ==
    ASSUME TypeOK, Recorded, NEW p \in Procs, NEW d \in Devices, NEW x \in apps, UDIDSubmit(p, d, x)
    PROVE  Recorded'
<1>1. pc'[p] = "upsert" /\ \A q \in Procs \ {p} : pc'[q] = pc[q]
  BY LabelTypes DEF UDIDSubmit, Labels
<1>2. /\ \A q \in Procs \ {p} : job'[q] = job[q]
      /\ job'[p] = [Blank EXCEPT !.short = x.short, !.app = x.id, !.dev = d]
  BY DEF UDIDSubmit, Keep, TypeOK
<1>3. job'[p].short = x.short /\ job'[p].app = x.id /\ job'[p].dev = d
  BY <1>2 DEF Blank
<1>4. UNCHANGED <<apps, udids, shown>>
  BY DEF UDIDSubmit, tables
<1>5. Designates(x.short, x.id) /\ x.id # 0
  BY KnownApp
<1>6. Designates(job[p].short, job[p].app)'
  BY <1>3, <1>4, <1>5 DEF Designates
<1>7. Meant(p)'
  BY <1>1, <1>3, <1>5, <1>6 DEF Meant
<1>8. \A a, e : HasRow(a, e) => HasRow(a, e)'
  BY <1>4 DEF HasRow
<1>9. \A b \in shown' : b \in shown
  BY <1>4
<1>10. QED
  BY <1>1, <1>2, <1>4, <1>7, <1>8, <1>9, MoreRecorded

(* The callback: it resolves the short id, or finds it names no app. *)
LEMMA CallbackRecorded ==
    ASSUME TypeOK, Recorded, NEW p \in Procs, NEW d \in Devices, NEW s \in ShortIDs,
           UDIDCallback(p, d, s)
    PROVE  Recorded'
<1> DEFINE j == [Blank EXCEPT !.short = s, !.dev = d]
<1>1. /\ UNCHANGED <<apps, udids, shown>>
      /\ \A q \in Procs \ {p} : pc'[q] = pc[q] /\ job'[q] = job[q]
  BY DEF UDIDCallback, tables, Keep, Goto, TypeOK
<1>2. \A a, e : HasRow(a, e) => HasRow(a, e)'
  BY <1>1 DEF HasRow
<1>3. \A b \in shown' : b \in shown
  BY <1>1
<1>4. Meant(p)'
  <2>1. CASE ~Taken(s)
    <3>1. pc'[p] = "page" /\ job'[p] = j
      BY <2>1 DEF UDIDCallback, Keep, Goto, TypeOK
    <3>2. job'[p].dev = d /\ job'[p].short = s /\ job'[p].app = 0
      BY <3>1 DEF Blank
    <3>3. ~Taken(job[p].short)'
      BY <1>1, <2>1, <3>2 DEF Taken
    <3>4. QED
      BY <3>1, <3>2, <3>3 DEF Meant
  <2>2. CASE Taken(s)
    <3>1. PICK x \in apps : x.short = s /\ Keep(p, [j EXCEPT !.app = x.id])
      BY <2>2 DEF UDIDCallback
    <3>2. pc'[p] = "upsert"
      BY <2>2 DEF UDIDCallback, Goto, TypeOK
    <3>3. job'[p].dev = d /\ job'[p].app = x.id /\ job'[p].short = s
      BY <3>1 DEF Keep, TypeOK, Blank
    <3>4. Designates(s, x.id) /\ x.id # 0
      BY <3>1, KnownApp
    <3>5. Designates(job[p].short, job[p].app)'
      BY <1>1, <3>3, <3>4 DEF Designates
    <3>6. QED
      BY <3>2, <3>3, <3>4, <3>5 DEF Meant
  <2>3. QED
    BY <2>1, <2>2
<1>5. QED
  BY <1>1, <1>2, <1>3, <1>4, MoreRecorded

(* The row: where the short id is still the visitor's, the app is there,   *)
(* and its row is written, or the request is marked. *)
LEMMA UpsertRecorded ==
    ASSUME TypeOK, Recorded, NEW p \in Procs, UpsertUDID(p)
    PROVE  Recorded'
<1>1. /\ UNCHANGED <<apps, shown>>
      /\ \A q \in Procs \ {p} : pc'[q] = pc[q] /\ job'[q] = job[q]
      /\ pc[p] = "upsert" /\ pc'[p] = "page"
  BY DEF UpsertUDID, Keep, Goto, TypeOK
<1>2. job[p].app # 0 /\ Meant(p)
  BY <1>1 DEF Recorded, Addressed, Meant
<1>3. Row(p).app = job[p].app /\ Row(p).dev = job[p].dev
  BY DEF Row
<1>4. \A a, d : HasRow(a, d) => HasRow(a, d)'
  <2>1. udids \subseteq udids'
    BY DEF UpsertUDID, Upsert
  <2>2. QED
    BY <2>1 DEF HasRow
<1>5. Meant(p)'
  <2>1. CASE job' = job
    <3>1. ASSUME ~job[p].astray
          PROVE  Designates(job[p].short, job[p].app)' /\ HasRow(job[p].app, job[p].dev)'
      <4>1. Designates(job[p].short, job[p].app)
        BY <1>1, <1>2, <3>1 DEF Meant
      <4>2. [id |-> job[p].app, short |-> job[p].short].id = job[p].app
        OBVIOUS
      <4>3. AppExists(job[p].app)
        BY <4>1, <4>2 DEF Designates, AppExists
      <4>4. udids' = Upsert(p) \/ (udids' = udids /\ Keep(p, [job[p] EXCEPT !.astray = TRUE]))
        BY <4>3 DEF UpsertUDID
      <4>5. ~Keep(p, [job[p] EXCEPT !.astray = TRUE])
        <5>1. job[p] \in Job
          BY DEF TypeOK
        <5>2. [job[p] EXCEPT !.astray = TRUE].astray
          BY <5>1 DEF Job
        <5>3. QED
          BY <2>1, <3>1, <5>2 DEF Keep, TypeOK
      <4>6. Row(p) \in udids'
        BY <4>4, <4>5 DEF Upsert
      <4>7. QED
        BY <1>1, <1>3, <2>1, <4>1, <4>6 DEF HasRow, Designates
    <3>2. QED
      BY <1>1, <1>2, <2>1, <3>1 DEF Meant
  <2>2. CASE Keep(p, [job[p] EXCEPT !.astray = TRUE])
    <3>1. job[p] \in Job
      BY DEF TypeOK
    <3>2. job'[p].astray /\ job'[p].dev = job[p].dev
      BY <2>2, <3>1 DEF Keep, Job, TypeOK
    <3>3. QED
      BY <1>1, <1>2, <3>2 DEF Meant
  <2>3. QED
    BY <2>1, <2>2 DEF UpsertUDID
<1>6. \A b \in shown' : b \in shown
  BY <1>1
<1>7. QED
  BY <1>1, <1>4, <1>5, <1>6, MoreRecorded

(* The page says "recorded" of the app the short id designates. *)
LEMMA PageRecorded ==
    ASSUME TypeOK, Recorded, NEW p \in Procs, ShowRecorded(p)
    PROVE  Recorded'
<1>1. /\ UNCHANGED <<apps, udids>>
      /\ pc'[p] = "idle" /\ \A q \in Procs \ {p} : pc'[q] = pc[q] /\ job'[q] = job[q]
      /\ pc[p] = "page"
  BY FinishTypes DEF ShowRecorded, tables
<1>2. ASSUME NEW x \in apps, x.short = job[p].short, ~job[p].astray
      PROVE  \E u \in udids : u.app = x.id /\ u.dev = job[p].dev
  <2>1. job[p].app # 0
    BY <1>1, <1>2 DEF Recorded, Addressed, Taken
  <2>2. Designates(x.short, job[p].app) /\ HasRow(job[p].app, job[p].dev)
    BY <1>1, <1>2, <2>1 DEF Recorded, Addressed
  <2>3. x.id = job[p].app
    BY <2>2, OneApp
  <2>4. QED
    BY <2>2, <2>3 DEF HasRow
<1>3. \A b \in shown' : b \in shown \/ \E u \in udids' : u.app = b.app /\ u.dev = b.dev
  BY <1>1, <1>2 DEF ShowRecorded
<1>4. \A a, d : HasRow(a, d) => HasRow(a, d)'
  BY <1>1 DEF HasRow
<1>5. QED
  BY <1>1, <1>3, <1>4, MoreRecorded

(* Icons, starts and kills have no part in it.  *)
LEMMA QuietRecorded ==
    ASSUME TypeOK, Recorded, UNCHANGED <<apps, udids, shown>>,
           \A p \in Procs :
               (pc'[p] = pc[p] /\ job'[p] = job[p]) \/ pc'[p] \notin {"upsert", "page"}
    PROVE  Recorded'
<1>1. \A a, d : HasRow(a, d) => HasRow(a, d)'
  BY DEF HasRow
<1>2. QED
  BY <1>1, MoreRecorded

(* The administrators' three operations on apps *)
LEMMA CreateRecorded ==
    ASSUME TypeOK, Recorded, NEW s \in ShortIDs, CreateApp(s)
    PROVE  Recorded'
<1>1. /\ apps' = apps \cup {[id |-> lastApp + 1, short |-> s]}
      /\ UNCHANGED <<udids, shown, pc>> /\ ChangeHands({s})
  BY DEF CreateApp
<1>2. \A p \in Procs : Same(p) /\ job'[p].astray = (job[p].astray \/ job[p].short \in {s})
  BY <1>1, HandsTypes DEF Same
<1>3. \A t, a : Designates(t, a) => Designates(t, a)'
  BY <1>1 DEF Designates
<1>4. \A t : Taken(t)' /\ t \notin {s} => Taken(t)
  <2>1. \A x \in apps' : x \in apps \/ x.short = s
    BY <1>1
  <2>2. QED
    BY <2>1 DEF Taken
<1>5. QED
  BY <1>1, <1>2, <1>3, <1>4, KeptRecorded

LEMMA UpdateRecorded ==
    ASSUME TypeOK, Recorded, NEW s \in ShortIDs, NEW x \in apps, UpdateApp(x, s)
    PROVE  Recorded'
<1> DEFINE S == {x.short, s}
           n == [x EXCEPT !.short = s]
<1>1. /\ UNCHANGED <<udids, shown, pc>> /\ ChangeHands(S)
      /\ apps' = (apps \ {x}) \cup {n}
      /\ n.short = s
  BY DEF UpdateApp, TypeOK
<1>2. \A t : Taken(t)' /\ t \notin S => Taken(t)
  <2>1. \A y \in apps' : y \in apps \/ y.short = s
    BY <1>1
  <2>2. QED
    BY <2>1 DEF Taken
<1>3. \A t, a : Designates(t, a) /\ t \notin S => Designates(t, a)'
  <2> SUFFICES ASSUME NEW t, NEW a, Designates(t, a), t \notin S PROVE Designates(t, a)'
    OBVIOUS
  <2> DEFINE y == [id |-> a, short |-> t]
  <2>1. y \in apps /\ y.short = t
    BY DEF Designates
  <2>2. y # x
    BY <2>1
  <2> HIDE DEF y
  <2>3. y \in apps'
    BY <1>1, <2>1, <2>2
  <2>4. QED
    BY <2>3 DEF Designates, y
<1> HIDE DEF n, S
<1>4. \A p \in Procs : Same(p) /\ job'[p].astray = (job[p].astray \/ job[p].short \in S)
  BY <1>1, HandsTypes DEF Same
<1>5. QED
  BY <1>1, <1>2, <1>3, <1>4, KeptRecorded

LEMMA DeleteRecorded ==
    ASSUME TypeOK, Recorded, NEW p \in Procs, DeleteApp(p)
    PROVE  Recorded'
<1> DEFINE a == job[p].app
           S == {x.short : x \in {y \in apps : y.id = a}}
           gone == {a}
<1>1. /\ apps' = {x \in apps : x.id # a}
      /\ udids' = {u \in udids : u.app # a} /\ shown' = {b \in shown : b.app # a}
      /\ job' = [q \in Procs |->
                   IF q = p THEN Blank ELSE [job[q] EXCEPT !.astray = @ \/ job[q].short \in S]]
      /\ pc'[p] = "idle" /\ \A q \in Procs \ {p} : pc'[q] = pc[q]
  BY DEF DeleteApp, Goto, TypeOK
<1>2. \A s, b : b \in gone /\ Designates(s, b) => s \in S
  <2> SUFFICES ASSUME NEW s, Designates(s, a) PROVE s \in S
    OBVIOUS
  <2> DEFINE x == [id |-> a, short |-> s]
  <2>1. x \in apps /\ x.id = a /\ x.short = s
    BY DEF Designates
  <2> HIDE DEF x
  <2>2. QED
    BY <2>1
<1>3. \A s, b : Designates(s, b) /\ s \notin S => Designates(s, b)'
  <2> SUFFICES ASSUME NEW s, NEW b, Designates(s, b), s \notin S PROVE Designates(s, b)'
    OBVIOUS
  <2> DEFINE x == [id |-> b, short |-> s]
  <2>1. x \in apps /\ x.id = b
    BY DEF Designates
  <2>2. b # a
    BY <1>2
  <2> HIDE DEF x
  <2>3. x \in apps'
    BY <1>1, <2>1, <2>2
  <2>4. QED
    BY <2>3 DEF Designates, x
<1> HIDE DEF S
<1>4. ASSUME NEW q \in Procs, pc'[q] \in {"upsert", "page"}
      PROVE  Same(q) /\ job'[q].astray = (job[q].astray \/ job[q].short \in S)
  <2>1. q # p /\ job[q] \in Job
    BY <1>1, <1>4 DEF TypeOK
  <2>2. QED
    BY <1>1, <2>1 DEF Same, Job
<1>5. \A s : Taken(s)' => Taken(s)
  BY <1>1 DEF Taken
<1>6. udids' = {u \in udids : u.app \notin gone} /\ shown' \subseteq {b \in shown : b.app \notin gone}
  BY <1>1
<1> HIDE DEF gone, a
<1>7. QED
  BY <1>2, <1>3, <1>4, <1>5, <1>6, HandsRecorded

LEMMA NextRecorded == TypeOK /\ Recorded /\ [Next]_vars => Recorded'
<1> SUFFICES ASSUME TypeOK, Recorded, [Next]_vars PROVE Recorded'
  OBVIOUS
<1>1. ASSUME NEW p \in Procs, NEW l \in Labels \ {"upsert", "page"}, Goto(p, l),
             UNCHANGED <<apps, udids, shown>>,
             \A q \in Procs \ {p} : job'[q] = job[q]
      PROVE  Recorded'
  <2>1. pc'[p] = l /\ \A q \in Procs \ {p} : pc'[q] = pc[q]
    BY <1>1, LabelTypes
  <2>2. QED
    BY <1>1, <2>1, QuietRecorded
<1>2. ASSUME NEW p \in Procs,
             \/ \E v \in vers : IconRow(p, v) \/ VersionDeleteBegin(p, v)
             \/ \E x \in apps : AppDeleteBegin(p, x)
             \/ DeleteVersionRow(p) \/ DeleteAppFails(p) \/ NotFollowed(p) \/ IconRead(p)
             \/ IconOpen(p) \/ IconWrite(p) \/ IconFails(p) \/ IconServe(p)
      PROVE  Recorded'
  <2>1. UNCHANGED <<apps, udids, shown>>
    BY <1>2 DEF IconRow, VersionDeleteBegin, AppDeleteBegin, DeleteVersionRow, DeleteAppFails, NotFollowed,
                IconRead, IconOpen, IconWrite, IconFails, IconServe, tables
  <2>2. \E j : Keep(p, j)
    BY <1>2 DEF IconRow, VersionDeleteBegin, AppDeleteBegin, DeleteVersionRow, DeleteAppFails, NotFollowed,
                IconRead, IconOpen, IconWrite, IconFails, IconServe, Finish
  <2>3. \E l \in Labels \ {"upsert", "page"} : Goto(p, l)
    BY <1>2 DEF IconRow, VersionDeleteBegin, AppDeleteBegin, DeleteVersionRow, DeleteAppFails, NotFollowed,
                IconRead, IconOpen, IconWrite, IconFails, IconServe, Finish, Labels
  <2>4. \A q \in Procs \ {p} : job'[q] = job[q]
    BY <2>2 DEF Keep, TypeOK
  <2>5. QED
    BY <2>1, <2>3, <2>4, <1>1
<1>3. ASSUME NEW p \in Procs, RemoveIcon(p) PROVE Recorded'
  <2>1. pc[p] = "remove" /\ UNCHANGED <<apps, udids, shown, pc>>
    BY <1>3 DEF RemoveIcon, tables
  <2>2. PICK i \in job[p].todo :
          \/ job' = [q \in Procs |->
                       IF q = p THEN [job[p] EXCEPT !.todo = @ \ {i}]
                       ELSE IF job[q].fd = i THEN [job[q] EXCEPT !.fd = 0] ELSE job[q]]
          \/ job' = [job EXCEPT ![p] = [job[p] EXCEPT !.todo = @ \ {i}]]
    BY <1>3 DEF RemoveIcon, Keep
  <2>3. \A q \in Procs : Same(q) /\ job'[q].astray = job[q].astray
    <3>1. job \in [Procs -> Job] /\ \A q \in Procs : job[q] \in Job
      BY DEF TypeOK
    <3>2. QED
      BY <2>1, <2>2, <3>1 DEF Same, Job
  <2> DEFINE none == {}
  <2>4. /\ \A s, a : Designates(s, a) => Designates(s, a)'
        /\ \A s : Taken(s)' => Taken(s)
    BY <2>1 DEF Designates, Taken
  <2>5. \A q \in Procs : Same(q) /\ job'[q].astray = (job[q].astray \/ job[q].short \in none)
    <3>1. \A q \in Procs : job[q].astray \in BOOLEAN
      BY DEF TypeOK, Job
    <3>2. QED
      BY <2>3, <3>1
  <2> HIDE DEF none
  <2>6. QED
    BY <2>1, <2>4, <2>5, KeptRecorded
<1>4. ASSUME Crash \/ Boot PROVE Recorded'
  <2>1. CASE Crash
    BY <2>1, QuietRecorded DEF Crash, tables
  <2>2. CASE Boot
    <3>1. UNCHANGED <<apps, udids, shown, pc, job>>
      BY <2>2 DEF Boot, tables
    <3>2. QED
      BY <3>1, QuietRecorded
  <2>3. QED
    BY <1>4, <2>1, <2>2
<1>5. CASE UNCHANGED vars
  BY <1>5, QuietRecorded DEF vars, tables
<1>6. QED
  BY <1>2, <1>3, <1>4, <1>5, SubmitRecorded, CallbackRecorded, UpsertRecorded,
     PageRecorded, CreateRecorded, UpdateRecorded, DeleteRecorded
  DEF Next, Step, Request, Environment

-----------------------------------------------------------------------------
(* Icons: rewritings and deletions leave every icon whole and listed. *)

Whole == Removing /\ Rewriters /\ IconsIntact /\ ServedRepaired /\ NoOrphanIcons

(* What Whole says of one request *)
Sound(p) ==
    /\ pc[p] = "remove" => \A v \in vers :
         (IF job[p].ver = 0 THEN v.app = job[p].app ELSE v.id = job[p].ver) =>
             v.id \in job[p].todo \cup ghosts \/ v.id \notin DOMAIN icons
    /\ pc[p] \in {"iconOpen", "iconWrite"} => job[p].data = "apple"
    /\ pc[p] \in {"iconRead", "iconOpen", "iconWrite"} => job[p].ver # 0
    /\ pc[p] = "iconWrite" => Content(job[p].ver) # "apple"
    /\ job[p].fd # 0 => /\ pc[p] = "iconWrite" /\ job[p].fd = job[p].ver
                        /\ job[p].fd \in DOMAIN icons
    /\ pc[p] = "iconServe" /\ job[p].ver \in DOMAIN icons =>
         \/ icons[job[p].ver] \in {"png", "odd"}
         \/ job[p].ver \in cut \/ Rewriting(job[p].ver)

(* It keeps its place, and its open file if that is still the icon. *)
Stays(p) ==
    /\ pc'[p] = pc[p]
    /\ job'[p].app = job[p].app /\ job'[p].ver = job[p].ver
    /\ job'[p].data = job[p].data /\ job'[p].todo = job[p].todo
    /\ job'[p].fd \in {0, job[p].fd}
    /\ job'[p].fd # 0 => job'[p].fd \in DOMAIN icons'

(* An icon that was as it is, or is one that may be there.  *)
Kept(i) ==
    /\ i \in DOMAIN icons /\ icons'[i] = icons[i]
    /\ i \in cut' \/ ((i \in cut => i \in cut') /\ (Rewriting(i) => Rewriting(i)'))

Fresh(i) ==
    \/ icons'[i] = "png"
    \/ icons'[i] = "empty" /\ (i \in cut' \/ Rewriting(i)')

(* What every step has to show *)
LEMMA StepWhole ==
    ASSUME TypeOK, Whole, vers' \subseteq vers,
           \A i \in DOMAIN icons' : /\ i \in DOMAIN icons \/ i \in ghosts'
                                    /\ Kept(i) \/ Fresh(i)
                                    /\ i \in ghosts => i \in ghosts',
           \A v \in vers \ vers' : v.id \in ghosts' \/ v.id \notin DOMAIN icons',
           \A p \in Procs : pc'[p] # "idle" => mode' = "serving",
           \A p \in Procs : Stays(p) \/ Sound(p)'
    PROVE  Whole'
<1>1. ASSUME NEW p \in Procs PROVE Sound(p)'
  <2>1. CASE Sound(p)'
    BY <2>1
  <2>2. CASE Stays(p)
    <3>1. Sound(p)
      BY DEF Whole, Removing, Rewriters, ServedRepaired, Sound
    <3>2. ASSUME pc[p] = "remove", NEW v \in vers',
                 IF job[p].ver = 0 THEN v.app = job[p].app ELSE v.id = job[p].ver
          PROVE  v.id \in job[p].todo \cup ghosts' \/ v.id \notin DOMAIN icons'
      BY <3>1, <3>2 DEF Sound
    <3>3. ASSUME pc[p] = "iconWrite", job[p].ver \in DOMAIN icons'
          PROVE  icons'[job[p].ver] # "apple"
      BY <3>1, <3>3 DEF Sound, Content, Kept, Fresh
    <3>4. ASSUME pc[p] = "iconServe", NEW i \in DOMAIN icons', i = job[p].ver
          PROVE  icons'[i] \in {"png", "odd"} \/ i \in cut' \/ Rewriting(i)'
      <4>1. CASE Fresh(i)
        BY <4>1 DEF Fresh
      <4>2. CASE Kept(i)
        <5>1. icons[i] \in {"png", "odd"} \/ i \in cut \/ Rewriting(i)
          BY <3>1, <3>4, <4>2 DEF Sound, Kept, Rewriting
        <5>2. QED
          BY <4>2, <5>1 DEF Kept
      <4>3. QED
        BY <4>1, <4>2
    <3>5. Content(job[p].ver)' # "apple" \/ pc'[p] # "iconWrite"
      BY <2>2, <3>3 DEF Stays, Content
    <3>6. /\ pc'[p] = pc[p] /\ job'[p].app = job[p].app /\ job'[p].ver = job[p].ver
          /\ job'[p].data = job[p].data /\ job'[p].todo = job[p].todo
          /\ job'[p].fd # 0 => job'[p].fd = job[p].fd /\ job'[p].fd \in DOMAIN icons'
      BY <2>2 DEF Stays
    <3>7. pc'[p] = "remove" => \A v \in vers' :
            (IF job'[p].ver = 0 THEN v.app = job'[p].app ELSE v.id = job'[p].ver) =>
                v.id \in job'[p].todo \cup ghosts' \/ v.id \notin DOMAIN icons'
      BY <3>2, <3>6
    <3>8. pc'[p] = "iconServe" /\ job'[p].ver \in DOMAIN icons' =>
            icons'[job'[p].ver] \in {"png", "odd"} \/ job'[p].ver \in cut' \/ Rewriting(job[p].ver)'
      <4> SUFFICES ASSUME pc'[p] = "iconServe", NEW i \in DOMAIN icons', i = job'[p].ver
                   PROVE  icons'[i] \in {"png", "odd"} \/ i \in cut' \/ Rewriting(i)'
        BY DEF Rewriting
      <4>1. QED
        BY <3>4, <3>6
    <3>9. QED
      BY <3>1, <3>5, <3>6, <3>7, <3>8 DEF Sound
  <2>3. QED
    BY <2>1, <2>2
<1>2. Removing'
  BY <1>1 DEF Removing, Sound
<1>3. Rewriters'
  BY <1>1 DEF Rewriters, Sound
<1>4. ServedRepaired'
  BY <1>1 DEF ServedRepaired, Sound
<1>5. IconsIntact'
  <2> SUFFICES ASSUME NEW i \in DOMAIN icons', icons'[i] = "empty"
               PROVE  i \in cut' \/ Rewriting(i)'
    BY DEF IconsIntact
  <2>1. QED
    BY DEF Whole, IconsIntact, Kept, Fresh
<1>6. NoOrphanIcons'
  <2> SUFFICES ASSUME NEW i \in DOMAIN icons', i \notin ghosts'
               PROVE  \E v \in vers' : v.id = i
    BY DEF NoOrphanIcons, Listed
  <2>1. PICK v \in vers : v.id = i
    BY DEF Whole, NoOrphanIcons, Listed
  <2>2. QED
    BY <2>1
<1>7. QED
  BY <1>2, <1>3, <1>4, <1>5, <1>6 DEF Whole

(* While versions and icons stay: no rewriting ends, and the request that  *)
(* moves is sound. *)
LEMMA CalmWhole ==
    ASSUME TypeOK, Whole, UNCHANGED <<vers, icons, harm>>,
           \A p \in Procs : pc'[p] # "idle" => mode' = "serving",
           \A p \in Procs : \/ Stays(p) /\ job'[p].fd = job[p].fd
                            \/ pc[p] # "iconWrite" /\ Sound(p)'
    PROVE  Whole'
<1>1. cut' = cut /\ ghosts' = ghosts
  BY DEF harm
<1>2. ASSUME NEW i \in DOMAIN icons' PROVE Kept(i)
  <2>1. Rewriting(i) => Rewriting(i)'
    BY DEF Rewriting, Stays
  <2>2. QED
    BY <1>1, <2>1 DEF Kept
<1>3. QED
  BY <1>1, <1>2, StepWhole

(* Whoever does not move stays. *)
LEMMA Unmoved ==
    ASSUME Whole, NEW p \in Procs, pc'[p] = pc[p], job'[p] = job[p],
           DOMAIN icons \subseteq DOMAIN icons'
    PROVE  Stays(p)
BY DEF Whole, Rewriters, Stays

(* Whoever serves or waits for nothing of an icon is sound. *)
LEMMA Uninvolved ==
    ASSUME NEW p \in Procs, pc'[p] \in {"idle", "upsert", "page"}, job'[p].fd = 0
    PROVE  Sound(p)'
BY DEF Sound

(* A request that does not end a rewriting of i leaves them all.  *)
LEMMA RewritingStays ==
    ASSUME NEW p \in Procs, \A q \in Procs \ {p} : pc'[q] = pc[q] /\ job'[q] = job[q],
           NEW i, pc[p] # "iconWrite" \/ job[p].fd # i, Rewriting(i)
    PROVE  Rewriting(i)'
BY DEF Rewriting

LEMMA RemoveWhole ==
    ASSUME TypeOK, Whole, NEW p \in Procs, RemoveIcon(p) PROVE Whole'
<1>1. pc[p] = "remove" /\ mode = "serving" /\ UNCHANGED <<vers, mode, pc>>
  BY DEF RemoveIcon, tables, Whole, Rewriters
<1>2. PICK i \in job[p].todo :
        \/ /\ icons' = Restrict(icons, DOMAIN icons \ {i})
           /\ job' = [q \in Procs |->
                        IF q = p THEN [job[p] EXCEPT !.todo = @ \ {i}]
                        ELSE IF job[q].fd = i THEN [job[q] EXCEPT !.fd = 0] ELSE job[q]]
           /\ cut' = cut \ {i} /\ ghosts' = ghosts \ {i}
        \/ /\ Keep(p, [job[p] EXCEPT !.todo = @ \ {i}])
           /\ ghosts' = ghosts \cup {i} /\ UNCHANGED <<icons, cut>>
  BY DEF RemoveIcon
<1>3. /\ \A x \in DOMAIN icons' : x \in DOMAIN icons /\ icons'[x] = icons[x]
      /\ \A x \in DOMAIN icons' : /\ x \in cut => x \in cut'
                                  /\ x \in ghosts => x \in ghosts'
      /\ i \in ghosts' \/ i \notin DOMAIN icons'
  <2>1. CASE icons' = Restrict(icons, DOMAIN icons \ {i}) /\ cut' = cut \ {i} /\ ghosts' = ghosts \ {i}
    BY <2>1 DEF Restrict
  <2>2. QED
    BY <1>2, <2>1
<1>4. ASSUME NEW q \in Procs
      PROVE  /\ job'[q].app = job[q].app /\ job'[q].ver = job[q].ver /\ job'[q].data = job[q].data
             /\ q = p => job'[q].todo = job[q].todo \ {i} /\ job'[q].fd = job[q].fd
             /\ q # p => job'[q].todo = job[q].todo
             /\ q # p => \/ job'[q].fd = job[q].fd /\ (job[q].fd # i \/ icons' = icons)
                         \/ job'[q].fd = 0 /\ job[q].fd = i /\ i \notin DOMAIN icons'
  <2>1. job[q] \in Job /\ job \in [Procs -> Job]
    BY DEF TypeOK
  <2>2. CASE /\ icons' = Restrict(icons, DOMAIN icons \ {i})
             /\ job' = [r \in Procs |->
                          IF r = p THEN [job[p] EXCEPT !.todo = @ \ {i}]
                          ELSE IF job[r].fd = i THEN [job[r] EXCEPT !.fd = 0] ELSE job[r]]
    <3>1. i \notin DOMAIN icons'
      BY <2>2 DEF Restrict
    <3>2. job'[q] = IF q = p THEN [job[p] EXCEPT !.todo = @ \ {i}]
                    ELSE IF job[q].fd = i THEN [job[q] EXCEPT !.fd = 0] ELSE job[q]
      BY <2>2
    <3>3. QED
      BY <2>1, <3>1, <3>2 DEF Job
  <2>3. CASE Keep(p, [job[p] EXCEPT !.todo = @ \ {i}]) /\ icons' = icons
    <3>1. job'[q] = IF q = p THEN [job[p] EXCEPT !.todo = @ \ {i}] ELSE job[q]
      BY <2>1, <2>3 DEF Keep
    <3>2. QED
      BY <2>1, <2>3, <3>1 DEF Job
  <2>4. QED
    BY <1>2, <2>2, <2>3
<1>5. \A q \in Procs : job[q].fd # 0 => pc[q] = "iconWrite" /\ job[q].fd \in DOMAIN icons
  BY DEF Whole, Rewriters
<1>a. \A x \in DOMAIN icons : x # i => x \in DOMAIN icons'
  BY <1>2 DEF Restrict
<1>6. \A q \in Procs \ {p} : Stays(q)
  BY <1>1, <1>a, <1>4, <1>5 DEF Stays
<1>7. Sound(p)'
  <2>1. \A v \in vers : (IF job[p].ver = 0 THEN v.app = job[p].app ELSE v.id = job[p].ver) =>
          v.id \in job[p].todo \cup ghosts \/ v.id \notin DOMAIN icons
    BY <1>1 DEF Whole, Removing
  <2>2. \A v \in vers' : (IF job'[p].ver = 0 THEN v.app = job'[p].app ELSE v.id = job'[p].ver) =>
          v.id \in job'[p].todo \cup ghosts' \/ v.id \notin DOMAIN icons'
    BY <1>1, <1>3, <1>4, <2>1
  <2>3. pc'[p] = "remove" /\ job'[p].fd = 0
    BY <1>1, <1>4, <1>5
  <2>4. QED
    BY <2>2, <2>3 DEF Sound
<1>8. ASSUME NEW x \in DOMAIN icons' PROVE Kept(x)
  <2>1. Rewriting(x) => Rewriting(x)'
    BY <1>1, <1>4 DEF Rewriting
  <2>2. QED
    BY <1>3, <2>1 DEF Kept
<1>9. \A x \in DOMAIN icons' : /\ x \in DOMAIN icons \/ x \in ghosts'
                               /\ Kept(x) \/ Fresh(x)
                               /\ x \in ghosts => x \in ghosts'
  BY <1>3, <1>8
<1>10. QED
  BY <1>1, <1>6, <1>7, <1>9, StepWhole

LEMMA OpenWhole ==
    ASSUME TypeOK, Whole, NEW p \in Procs, IconOpen(p) PROVE Whole'
<1>0. PICK i : i = job[p].ver
  OBVIOUS
<1>1. /\ pc[p] = "iconOpen" /\ UNCHANGED <<vers, mode, cut>>
      /\ icons' = Put(icons, i, "empty")
      /\ Keep(p, [job[p] EXCEPT !.fd = i]) /\ Goto(p, "iconWrite")
      /\ ghosts' = IF i \in DOMAIN icons THEN ghosts ELSE ghosts \cup {i}
  BY <1>0 DEF IconOpen, tables
<1>2. job[p] \in Job /\ i # 0 /\ job[p].data = "apple" /\ mode = "serving"
  BY <1>0, <1>1 DEF TypeOK, Whole, Rewriters
<1>3. i \in Icons /\ "empty" \in Contents /\ "iconWrite" \in Labels
  BY <1>0, <1>2 DEF Job, Contents, Labels
<1>4. /\ DOMAIN icons' = DOMAIN icons \cup {i} /\ icons'[i] = "empty"
      /\ \A x \in DOMAIN icons \ {i} : icons'[x] = icons[x]
  BY <1>1 DEF Put
<1>5. pc'[p] = "iconWrite" /\ \A q \in Procs \ {p} : pc'[q] = pc[q] /\ job'[q] = job[q]
  BY <1>1, <1>3, LabelTypes DEF Keep, TypeOK
<1>6. job'[p].fd = i /\ job'[p].ver = i /\ job'[p].data = "apple"
  BY <1>0, <1>1, <1>2 DEF Keep, TypeOK, Job
<1>7. Rewriting(i)'
  BY <1>5, <1>6 DEF Rewriting
<1>8. Sound(p)'
  BY <1>2, <1>4, <1>5, <1>6 DEF Sound, Content
<1>9. \A q \in Procs \ {p} : Stays(q)
  BY <1>4, <1>5, Unmoved
<1>10. ASSUME NEW x \in DOMAIN icons' PROVE Kept(x) \/ Fresh(x)
  <2>1. CASE x = i
    BY <1>4, <1>7, <2>1 DEF Fresh
  <2>2. CASE x # i
    <3>1. Rewriting(x) => Rewriting(x)'
      BY <1>1, <1>5, RewritingStays
    <3>2. QED
      BY <1>1, <1>4, <2>2, <3>1 DEF Kept
  <2>3. QED
    BY <2>1, <2>2
<1>11. \A x \in DOMAIN icons' : /\ x \in DOMAIN icons \/ x \in ghosts'
                                /\ Kept(x) \/ Fresh(x)
                                /\ x \in ghosts => x \in ghosts'
  BY <1>1, <1>4, <1>10
<1>12. QED
  BY <1>1, <1>2, <1>8, <1>9, <1>11, StepWhole

LEMMA WriteWhole ==
    ASSUME TypeOK, Whole, NEW p \in Procs, IconWrite(p) PROVE Whole'
<1> DEFINE i == job[p].fd
<1>1. /\ pc[p] = "iconWrite" /\ UNCHANGED <<vers, mode, ghosts>>
      /\ icons' = IF i = 0 THEN icons ELSE Put(icons, i, Converted(job[p].data))
      /\ cut' = cut \ {i}
      /\ Keep(p, [job[p] EXCEPT !.fd = 0]) /\ Goto(p, "iconServe")
  BY DEF IconWrite, tables
<1>2. /\ job[p] \in Job /\ job[p].data = "apple" /\ mode = "serving"
      /\ Content(job[p].ver) # "apple"
      /\ i # 0 => i = job[p].ver /\ i \in DOMAIN icons
  BY <1>1 DEF TypeOK, Whole, Rewriters
<1>3. pc'[p] = "iconServe" /\ \A q \in Procs \ {p} : pc'[q] = pc[q] /\ job'[q] = job[q]
  BY <1>1, LabelTypes DEF Keep, TypeOK, Labels
<1>4. job'[p].fd = 0 /\ job'[p].ver = job[p].ver
  BY <1>1, <1>2 DEF Keep, TypeOK, Job
<1>5. 0 \notin DOMAIN icons
  BY VisitorsAssumption DEF TypeOK
<1>a. DOMAIN icons' = DOMAIN icons /\ \A x \in DOMAIN icons \ {i} : icons'[x] = icons[x]
  BY <1>1, <1>2 DEF Put
<1>b. i # 0 => icons'[i] = "png"
  BY <1>1, <1>2 DEF Put, Converted
<1> HIDE DEF i
<1>6. ASSUME NEW x \in DOMAIN icons' PROVE Kept(x) \/ Fresh(x)
  <2>1. CASE x = i
    BY <1>a, <1>b, <1>5, <2>1 DEF Fresh
  <2>2. CASE x # i
    <3>1. Rewriting(x) => Rewriting(x)'
      BY <2>2, <1>3, RewritingStays DEF i
    <3>2. QED
      BY <1>1, <1>a, <2>2, <3>1 DEF Kept
  <2>3. QED
    BY <2>1, <2>2
<1>7. Sound(p)'
  <2>1. ASSUME NEW x \in DOMAIN icons', x = job[p].ver
        PROVE  icons'[x] \in {"png", "odd"} \/ x \in cut' \/ Rewriting(x)'
    <3>1. CASE i # 0
      BY <1>2, <1>b, <2>1, <3>1
    <3>2. CASE i = 0
      <4>1. x \in DOMAIN icons /\ x # i /\ icons'[x] = icons[x]
        BY <1>a, <1>5, <2>1, <3>2
      <4>2. icons[x] \in Contents /\ icons[x] # "apple"
        BY <1>2, <2>1, <4>1 DEF TypeOK, Content
      <4>3. icons[x] \in {"png", "odd"} \/ x \in cut \/ Rewriting(x)
        BY <4>1, <4>2 DEF Contents, Whole, IconsIntact
      <4>4. Rewriting(x) => Rewriting(x)'
        BY <4>1, <1>3, RewritingStays DEF i
      <4>5. QED
        BY <1>1, <4>1, <4>3, <4>4
    <3>3. QED
      BY <3>1, <3>2
  <2>2. job'[p].ver \in DOMAIN icons' =>
          icons'[job'[p].ver] \in {"png", "odd"} \/ job'[p].ver \in cut' \/ Rewriting(job[p].ver)'
    <3>1. ASSUME NEW x, x = job'[p].ver, x \in DOMAIN icons'
          PROVE  icons'[x] \in {"png", "odd"} \/ x \in cut' \/ Rewriting(job[p].ver)'
      <4>1. Rewriting(x)' => Rewriting(job[p].ver)'
        BY <3>1 DEF Rewriting
      <4>2. QED
        BY <1>4, <2>1, <3>1, <4>1
    <3>2. QED
      BY <3>1
  <2>3. QED
    BY <1>3, <1>4, <2>2 DEF Sound
<1>8. \A q \in Procs \ {p} : Stays(q)
  BY <1>a, <1>3, Unmoved
<1>9. \A x \in DOMAIN icons' : /\ x \in DOMAIN icons \/ x \in ghosts'
                               /\ Kept(x) \/ Fresh(x)
                               /\ x \in ghosts => x \in ghosts'
  BY <1>1, <1>a, <1>6
<1>10. QED
  BY <1>1, <1>2, <1>7, <1>8, <1>9, StepWhole

LEMMA FailsWhole ==
    ASSUME TypeOK, Whole, NEW p \in Procs, IconFails(p) PROVE Whole'
<1>1. /\ pc[p] \in {"iconOpen", "iconWrite"} /\ UNCHANGED <<vers, icons, mode, ghosts>>
      /\ cut' = cut \cup ({job[p].fd, job[p].ver} \cap DOMAIN icons)
      /\ Keep(p, [job[p] EXCEPT !.fd = 0]) /\ Goto(p, "iconServe")
  BY DEF IconFails, tables
<1>2. job[p] \in Job /\ mode = "serving"
  BY <1>1 DEF TypeOK, Whole, Rewriters
<1>3. pc'[p] = "iconServe" /\ \A q \in Procs \ {p} : pc'[q] = pc[q] /\ job'[q] = job[q]
  BY <1>1, LabelTypes DEF Keep, TypeOK, Labels
<1>4. job'[p].fd = 0 /\ job'[p].ver = job[p].ver
  BY <1>1, <1>2 DEF Keep, TypeOK, Job
<1>5. ASSUME NEW x \in DOMAIN icons' PROVE Kept(x)
  <2>1. CASE x = job[p].fd
    BY <1>1, <2>1 DEF Kept
  <2>2. CASE x # job[p].fd
    <3>1. Rewriting(x) => Rewriting(x)'
      BY <2>2, <1>3, RewritingStays
    <3>2. QED
      BY <1>1, <3>1 DEF Kept
  <2>3. QED
    BY <2>1, <2>2
<1>6. Sound(p)'
  BY <1>1, <1>3, <1>4 DEF Sound
<1>7. \A q \in Procs \ {p} : Stays(q)
  BY <1>1, <1>3, Unmoved
<1>8. QED
  BY <1>1, <1>2, <1>5, <1>6, <1>7, StepWhole

LEMMA DeletionWhole ==
    ASSUME TypeOK, Whole, NEW p \in Procs, DeleteVersionRow(p) \/ DeleteApp(p) \/ DeleteAppFails(p)
    PROVE  Whole'
<1>1. /\ UNCHANGED <<icons, mode, cut, ghosts>> /\ vers' \subseteq vers
      /\ pc[p] = "remove" /\ job[p].todo = {}
      /\ \A v \in vers \ vers' :
           IF job[p].ver = 0 THEN v.app = job[p].app ELSE v.id = job[p].ver
  BY DEF DeleteVersionRow, DeleteApp, DeleteAppFails, tables, harm
<1>2. \A v \in vers \ vers' : v.id \in ghosts' \/ v.id \notin DOMAIN icons'
  BY <1>1 DEF Whole, Removing
<1>3. /\ pc'[p] = "idle" /\ job'[p].fd = 0
      /\ \A q \in Procs \ {p} : /\ pc'[q] = pc[q] /\ job'[q].app = job[q].app
                                /\ job'[q].ver = job[q].ver /\ job'[q].data = job[q].data
                                /\ job'[q].todo = job[q].todo /\ job'[q].fd = job[q].fd
  <2>1. CASE DeleteVersionRow(p) \/ DeleteAppFails(p)
    BY <2>1, FinishTypes DEF DeleteVersionRow, DeleteAppFails, Blank
  <2>2. CASE DeleteApp(p)
    <3>1. pc'[p] = "idle" /\ \A q \in Procs \ {p} : pc'[q] = pc[q]
      BY <2>2, LabelTypes DEF DeleteApp, Labels
    <3>2. \A q \in Procs : job[q] \in Job
      BY DEF TypeOK
    <3>3. \E names : job' = [q \in Procs |-> IF q = p THEN Blank
                              ELSE [job[q] EXCEPT !.astray = @ \/ job[q].short \in names]]
      BY <2>2 DEF DeleteApp
    <3>4. QED
      BY <3>1, <3>2, <3>3 DEF Job, Blank
  <2>3. QED
    BY <2>1, <2>2
<1>4. Sound(p)'
  BY <1>3, Uninvolved
<1>5. \A q \in Procs \ {p} : Stays(q)
  BY <1>1, <1>3 DEF Stays, Whole, Rewriters
<1>6. ASSUME NEW x \in DOMAIN icons' PROVE Kept(x)
  <2>1. Rewriting(x) => Rewriting(x)'
    BY <1>1, <1>3 DEF Rewriting
  <2>2. QED
    BY <1>1, <2>1 DEF Kept
<1>7. \A q \in Procs : pc'[q] # "idle" => mode' = "serving"
  BY <1>1, <1>3 DEF Whole, Rewriters
<1>8. QED
  BY <1>1, <1>2, <1>4, <1>5, <1>6, <1>7, StepWhole

LEMMA RestartWhole ==
    ASSUME TypeOK, Whole, Crash \/ Boot PROVE Whole'
<1>1. CASE Crash
  <2>1. /\ UNCHANGED <<vers, icons, ghosts>> /\ cut' = cut \cup ({job[p].fd : p \in Procs} \ {0})
        /\ \A p \in Procs : pc'[p] = "idle" /\ job'[p].fd = 0
    BY <1>1 DEF Crash, tables, Blank
  <2>2. 0 \notin DOMAIN icons
    BY VisitorsAssumption DEF TypeOK
  <2>3. ASSUME NEW x \in DOMAIN icons' PROVE Kept(x)
    BY <2>1, <2>2 DEF Kept, Rewriting
  <2>4. \A p \in Procs : Sound(p)'
    BY <2>1, Uninvolved
  <2>5. QED
    BY <2>1, <2>3, <2>4, StepWhole
<1>2. CASE Boot
  <2>1. /\ UNCHANGED <<vers, pc, job>> /\ mode = "down" /\ mode' = "serving"
        /\ cut' = cut \cap DOMAIN icons' /\ ghosts' = ghosts \cap DOMAIN icons'
    BY <1>2 DEF Boot, tables
  <2>a. \A x \in DOMAIN icons' : x \in DOMAIN icons /\ icons'[x] = icons[x]
    BY <1>2 DEF Boot, Restrict
  <2>2. \A p \in Procs : pc[p] = "idle" /\ job[p].fd = 0
    BY <2>1 DEF Whole, Rewriters
  <2>3. ASSUME NEW x \in DOMAIN icons' PROVE Kept(x)
    BY <2>1, <2>a, <2>2 DEF Kept, Rewriting
  <2>4. \A p \in Procs : Sound(p)'
    BY <2>1, <2>2, Uninvolved
  <2>5. QED
    BY <2>1, <2>a, <2>3, <2>4, StepWhole
<1>3. QED
  BY <1>1, <1>2

(* One request moves, and no icon does. *)
LEMMA OneWhole ==
    ASSUME TypeOK, Whole, UNCHANGED <<vers, icons, harm, mode>>, mode = "serving",
           NEW p \in Procs, \A q \in Procs \ {p} : pc'[q] = pc[q] /\ job'[q] = job[q],
           pc[p] # "iconWrite", Sound(p)'
    PROVE  Whole'
<1>1. \A q \in Procs \ {p} : Stays(q) /\ job'[q].fd = job[q].fd
  BY Unmoved
<1>2. QED
  BY <1>1, CalmWhole

LEMMA RequestWhole ==
    ASSUME TypeOK, Whole, NEW p \in Procs, NEW v \in vers, IconRow(p, v) \/ VersionDeleteBegin(p, v)
    PROVE  Whole'
<1>1. /\ UNCHANGED <<vers, icons, harm, mode>> /\ mode = "serving" /\ pc[p] = "idle"
      /\ \E j : Keep(p, j)
  BY DEF IconRow, VersionDeleteBegin, tables, Start
<1>2. \A q \in Procs \ {p} : pc'[q] = pc[q] /\ job'[q] = job[q]
  BY <1>1 DEF IconRow, VersionDeleteBegin, Goto, Keep, TypeOK
<1>3. Sound(p)'
  <2>1. v.id # 0
    BY VisitorsAssumption DEF TypeOK
  <2>2. CASE IconRow(p, v)
    <3>1. pc'[p] = "iconRead" /\ job'[p].ver = v.id /\ job'[p].fd = 0
      BY <2>2 DEF IconRow, Goto, Keep, TypeOK, Blank
    <3>2. QED
      BY <2>1, <3>1 DEF Sound
  <2>3. CASE VersionDeleteBegin(p, v)
    <3>1. pc'[p] = "remove" /\ job'[p].ver = v.id /\ job'[p].fd = 0 /\ job'[p].todo = {v.id}
      BY <2>3 DEF VersionDeleteBegin, Goto, Keep, TypeOK, Blank
    <3>2. QED
      BY <2>1, <3>1 DEF Sound
  <2>4. QED
    BY <2>2, <2>3
<1>4. QED
  BY <1>1, <1>2, <1>3, OneWhole

(* A version of the app is to be removed, or its icon is spared. *)
LEMMA AppDeleteWhole ==
    ASSUME TypeOK, Whole, NEW p \in Procs, NEW x \in apps, AppDeleteBegin(p, x)
    PROVE  Whole'
<1> DEFINE all == {v.id : v \in {w \in vers : w.app = x.id}}
<1>1. /\ UNCHANGED <<vers, icons, cut, mode>> /\ mode = "serving" /\ pc[p] = "idle"
      /\ pc'[p] = "remove" /\ \A q \in Procs \ {p} : pc'[q] = pc[q]
  BY LabelTypes DEF AppDeleteBegin, tables, Start, Labels
<1>2. PICK D \in SUBSET all : /\ Keep(p, [Blank EXCEPT !.app = x.id, !.todo = D])
                             /\ ghosts' = ghosts \cup (all \ D)
  BY DEF AppDeleteBegin
<1>3. \A v \in vers : v.app = x.id => v.id \in all
  OBVIOUS
<1> HIDE DEF all
<1>4. /\ \A q \in Procs \ {p} : job'[q] = job[q]
      /\ job'[p].ver = 0 /\ job'[p].app = x.id /\ job'[p].todo = D /\ job'[p].fd = 0
  BY <1>2 DEF Keep, TypeOK, Blank
<1>5. Sound(p)'
  <2>1. \A v \in vers' : v.app = job'[p].app => v.id \in job'[p].todo \cup ghosts'
    BY <1>1, <1>2, <1>3, <1>4
  <2>2. QED
    BY <1>1, <1>4, <2>1 DEF Sound
<1>6. \A q \in Procs \ {p} : Stays(q)
  BY <1>1, <1>4, Unmoved
<1>7. ASSUME NEW i \in DOMAIN icons' PROVE Kept(i)
  <2>1. Rewriting(i) => Rewriting(i)'
    BY <1>1, <1>4, RewritingStays
  <2>2. QED
    BY <1>1, <2>1 DEF Kept
<1>8. QED
  BY <1>1, <1>2, <1>5, <1>6, <1>7, StepWhole

LEMMA ReadWhole ==
    ASSUME TypeOK, Whole, NEW p \in Procs, IconRead(p) PROVE Whole'
<1>1. PICK i : i = job[p].ver
  OBVIOUS
<1>2. /\ UNCHANGED <<vers, icons, harm, mode>> /\ pc[p] = "iconRead"
      /\ job[p] \in Job /\ mode = "serving" /\ i # 0 /\ job[p].fd = 0
  BY <1>1 DEF IconRead, tables, TypeOK, Whole, Rewriters
<1>3. /\ \A q \in Procs \ {p} : pc'[q] = pc[q] /\ job'[q] = job[q]
      /\ job'[p].ver = i /\ job'[p].fd = 0 /\ job'[p].data = Content(i)
      /\ pc'[p] = IF Content(i) = "apple" THEN "iconOpen" ELSE "iconServe"
  <2>1. IsCgBI(Content(i)) /\ Converted(Content(i)) # Content(i) <=> Content(i) = "apple"
    BY DEF IsCgBI, Converted
  <2>2. QED
    BY <1>1, <1>2, <2>1 DEF IconRead, Keep, Goto, TypeOK, Job
<1>4. ASSUME i \in DOMAIN icons, Content(i) # "apple"
      PROVE  icons[i] \in {"png", "odd"} \/ i \in cut \/ Rewriting(i)'
  <2>1. icons[i] \in {"png", "odd"} \/ i \in cut \/ Rewriting(i)
    BY <1>4 DEF Whole, IconsIntact, Content, TypeOK, Contents
  <2>2. Rewriting(i) => Rewriting(i)'
    BY <1>2, <1>3, RewritingStays
  <2>3. QED
    BY <2>1, <2>2
<1>5. Rewriting(i)' => Rewriting(job[p].ver)'
  BY <1>3 DEF Rewriting
<1>6. Sound(p)'
  BY <1>2, <1>3, <1>4, <1>5 DEF Sound, harm
<1>7. QED
  BY <1>2, <1>3, <1>6, OneWhole

LEMMA VisitorWhole ==
    ASSUME TypeOK, Whole, NEW p \in Procs,
           \/ \E d \in Devices, x \in apps : UDIDSubmit(p, d, x)
           \/ \E d \in Devices, s \in ShortIDs : UDIDCallback(p, d, s)
           \/ UpsertUDID(p) \/ ShowRecorded(p) \/ NotFollowed(p) \/ IconServe(p)
    PROVE  Whole'
<1>1. UNCHANGED <<vers, icons, harm, mode>> /\ pc[p] # "iconWrite"
  BY DEF UDIDSubmit, UDIDCallback, UpsertUDID, ShowRecorded, NotFollowed, IconServe, tables, Start
<1>2. mode = "serving"
  BY DEF UDIDSubmit, UDIDCallback, UpsertUDID, ShowRecorded, NotFollowed, IconServe, Start, Whole, Rewriters
<1>3. (\E j : Keep(p, j)) \/ UNCHANGED job
  BY DEF UDIDSubmit, UDIDCallback, UpsertUDID, ShowRecorded, NotFollowed, IconServe, Finish
<1>4. \E l \in {"idle", "upsert", "page"} : Goto(p, l)
  BY DEF UDIDSubmit, UDIDCallback, UpsertUDID, ShowRecorded, NotFollowed, IconServe, Finish
<1>5. /\ pc'[p] \in {"idle", "upsert", "page"}
      /\ \A q \in Procs \ {p} : pc'[q] = pc[q] /\ job'[q] = job[q]
  BY <1>3, <1>4 DEF Goto, Keep, TypeOK
<1>6. job'[p].fd = 0
  <2>1. CASE UpsertUDID(p)
    <3>1. job[p] \in Job /\ job[p].fd = 0
      BY <2>1 DEF UpsertUDID, TypeOK, Whole, Rewriters
    <3>2. QED
      BY <2>1, <3>1 DEF UpsertUDID, Keep, Job, TypeOK
  <2>2. CASE \E d \in Devices, x \in apps : UDIDSubmit(p, d, x)
    <3>1. PICK d \in Devices, x \in apps : Keep(p, [Blank EXCEPT !.short = x.short, !.app = x.id, !.dev = d])
      BY <2>2 DEF UDIDSubmit
    <3>2. [Blank EXCEPT !.short = x.short, !.app = x.id, !.dev = d].fd = 0
      BY DEF Blank
    <3>3. QED
      BY <3>1, <3>2 DEF Keep, TypeOK
  <2>3. CASE \E d \in Devices, s \in ShortIDs : UDIDCallback(p, d, s)
    <3>1. PICK d \in Devices, s \in ShortIDs : UDIDCallback(p, d, s)
      BY <2>3
    <3> DEFINE j == [Blank EXCEPT !.short = s, !.dev = d]
    <3>2. j.fd = 0 /\ \A a : [j EXCEPT !.app = a].fd = 0
      BY DEF Blank
    <3>3. Keep(p, j) \/ \E x \in apps : Keep(p, [j EXCEPT !.app = x.id])
      BY <3>1 DEF UDIDCallback
    <3> HIDE DEF j
    <3>4. QED
      BY <3>2, <3>3 DEF Keep, TypeOK
  <2>4. CASE ShowRecorded(p) \/ NotFollowed(p) \/ IconServe(p)
    BY <2>4 DEF ShowRecorded, NotFollowed, IconServe, Finish, Keep, TypeOK, Blank
  <2>5. QED
    BY <2>1, <2>2, <2>3, <2>4
<1>7. QED
  BY <1>1, <1>2, <1>5, <1>6, Uninvolved, OneWhole

LEMMA NextWhole == TypeOK /\ Whole /\ [Next]_vars => Whole'
<1> SUFFICES ASSUME TypeOK, Whole, [Next]_vars PROVE Whole'
  OBVIOUS
<1>1. ASSUME \A p \in Procs : Stays(p) /\ job'[p].fd = job[p].fd,
             UNCHANGED <<vers, icons, harm, mode>>
      PROVE  Whole'
  <2>1. \A p \in Procs : pc'[p] # "idle" => mode' = "serving"
    BY <1>1 DEF Stays, Whole, Rewriters
  <2>2. QED
    BY <1>1, <2>1, CalmWhole
<1>2. ASSUME NEW S, ChangeHands(S), UNCHANGED <<vers, icons, harm, mode, pc>> PROVE Whole'
  <2>1. \A p \in Procs : Stays(p) /\ job'[p].fd = job[p].fd
    BY <1>2, HandsTypes DEF Stays, Whole, Rewriters
  <2>2. QED
    BY <1>2, <2>1, <1>1
<1>3. ASSUME NEW s \in ShortIDs, CreateApp(s) \/ \E x \in apps : UpdateApp(x, s) PROVE Whole'
  BY <1>3, <1>2 DEF CreateApp, UpdateApp
<1>4. ASSUME UNCHANGED <<vers, icons, harm, mode, pc, job>> PROVE Whole'
  BY <1>4, <1>1, Unmoved
<1>5. CASE UNCHANGED vars
  BY <1>5, <1>4 DEF vars, tables
<1>6. QED
  BY <1>3, <1>5, RequestWhole, AppDeleteWhole, ReadWhole, VisitorWhole, RemoveWhole, OpenWhole,
     WriteWhole, FailsWhole, DeletionWhole, RestartWhole
  DEF Next, Step, Request, Environment

-----------------------------------------------------------------------------
(* The invariant and what follows from it *)

LEMMA InitIInv == Init => IInv
<1> SUFFICES ASSUME Init PROVE IInv
  OBVIOUS
<1>1. PICK s \in ShortIDs : apps = {[id |-> 1, short |-> s]}
  BY DEF Init
<1>2. Blank \in Job
  BY DEF Init, Blank, Job
<1>3. TypeOK
  <2>1. apps \subseteq [id : 1 .. lastApp, short : ShortIDs] /\ lastApp \in Nat
        /\ \A x, y \in apps : x = y
    BY <1>1 DEF Init
  <2>2. vers \subseteq [id : Icons, app : 1 .. lastApp]
    BY DEF Init
  <2>3. icons \in [Icons -> Contents] /\ DOMAIN icons = Icons
    BY DEF Init, Contents
  <2>4. pc \in [Procs -> Labels] /\ job \in [Procs -> Job]
    BY <1>2 DEF Init, Labels
  <2>5. QED
    BY <2>1, <2>2, <2>3, <2>4 DEF Init, TypeOK
<1>4. Addressed /\ BannerTruthful
  BY DEF Init, Addressed, BannerTruthful
<1>5. Removing /\ Rewriters /\ IconsIntact /\ ServedRepaired
  BY DEF Init, Removing, Rewriters, IconsIntact, ServedRepaired, Blank
<1>6. NoOrphanIcons
  <2>1. \A i \in Icons : [id |-> i, app |-> 1].id = i
    OBVIOUS
  <2>2. Icons \subseteq Listed
    BY <2>1 DEF Init, Listed
  <2>3. QED
    BY <2>2 DEF Init, NoOrphanIcons
<1>7. QED
  BY <1>3, <1>4, <1>5, <1>6 DEF IInv

LEMMA NextIInv == IInv /\ [Next]_vars => IInv'
<1>1. IInv <=> TypeOK /\ Recorded /\ Whole
  BY DEF IInv, Recorded, Whole
<1>2. IInv' <=> TypeOK' /\ Recorded' /\ Whole'
  BY DEF IInv, Recorded, Whole
<1>3. Recorded /\ Whole => Addressed /\ Rewriters
  BY DEF Recorded, Whole
<1>4. QED
  BY <1>1, <1>2, <1>3, NextTypes, NextRecorded, NextWhole

(* The types, what visitors were told, and the icons with whoever rewrites *)
(* or removes them, agree at every step. *)
THEOREM Invariance == Spec => []IInv
<1>1. QED
  BY InitIInv, NextIInv, PTL DEF Spec

(* The page that says a device is recorded tells the truth, unless the     *)
(* short id changed hands before it was shown or the row was refused. *)
THEOREM PageTellsTruth == Spec => []BannerTruthful
<1>1. IInv => BannerTruthful
  BY DEF IInv
<1>2. QED
  BY <1>1, Invariance, PTL

(* Icons that requests rewrite over each other are whole or being written. *)
THEOREM RewritingKeepsIcons == Spec => []IconsIntact
<1>1. IInv => IconsIntact
  BY DEF IInv
<1>2. QED
  BY <1>1, Invariance, PTL

(* What is served is not what the conversion would change, nor truncated,  *)
(* unless another request is rewriting it or was cut short. *)
THEOREM RepairedWhenServed == Spec => []ServedRepaired
<1>1. IInv => ServedRepaired
  BY DEF IInv
<1>2. QED
  BY <1>1, Invariance, PTL

(* No deletion leaves an icon, unless a rewriting opened it again after or *)
(* an error that was ignored spared it. *)
THEOREM DeletionTakesIcons == Spec => []NoOrphanIcons
<1>1. IInv => NoOrphanIcons
  BY DEF IInv
<1>2. QED
  BY <1>1, Invariance, PTL

=============================================================================
