-------------------------- MODULE CliUploadProofs --------------------------
(* Theorems about the upload command, for any number of clients, requests, *)
(* kills and lost answers: what Catalog promises holds beside it, and what *)
(* an answer, or none, tells of what was published.                        *)
EXTENDS CliUpload, CatalogProofs, FiniteSetTheorems

-----------------------------------------------------------------------------
(* Its steps are Catalog's steps, or none. *)
LEMMA ServerIsCatalog == [CliNext]_allVars => [Next]_vars
<1> SUFFICES ASSUME [CliNext]_allVars PROVE [Next]_vars
  OBVIOUS
<1>1. ASSUME NEW p \in Procs, ServerStep(p) \/ OtherRequest(p)
      PROVE  Next
  BY <1>1 DEF ServerStep, OtherRequest, Next
<1>2. ASSUME NEW c \in Clients, NEW p \in Procs, NEW x \in apps, NEW b \in Builds,
             CliSend(c, p, x.id, b)
      PROVE  Next
  BY <1>2 DEF CliSend, Request, Next
<1>3. ASSUME NEW c \in Clients, CliLost(c)
      PROVE  UNCHANGED vars
  BY <1>3 DEF CliLost
<1>4. CASE ServerCrash \/ OtherEvent
  BY <1>4 DEF ServerCrash, OtherEvent, Environment, Next
<1>5. CASE UNCHANGED allVars
  BY <1>5 DEF allVars
<1>6. QED
  BY <1>1, <1>2, <1>3, <1>4, <1>5 DEF CliNext

(* Whatever the command does, the server behaves as Catalog says, so that  *)
(* every theorem about Catalog holds of CliUpload.                         *)
THEOREM ServesAsCatalog == CliSpec => Spec
<1>1. CliInit => Init
  BY DEF CliInit
<1>2. QED
  BY <1>1, ServerIsCatalog, PTL DEF CliSpec, Spec

(* Below the command, too, ids and pointers are as Shelf says. *)
THEOREM CommandKeepsShelf == CliSpec => ImplementsShelf
BY ServesAsCatalog, Refinement

-----------------------------------------------------------------------------
(* A step of a request that is receiving or has saved an upload *)

Uploading == Receiving \cup Saved \cup {"parts"}

(* The part is taken, *)
Takes(p) ==
    /\ pc[p] = "parts" /\ pc'[p] = "stream"
    /\ job'[p].app = job[p].app
    /\ UNCHANGED <<lastVid, published>>

(* the request is over without a row, or after the body's end,             *)
Ends(p) ==
    /\ pc[p] \in {"parts", "stream", "undo"} /\ pc'[p] = "idle"
    /\ UNCHANGED <<lastVid, published>>

(* the package is moved, or its INSERT refused,                            *)
StillReceives(p) ==
    /\ pc[p] \in Receiving /\ pc'[p] \in Receiving
    /\ job'[p].app = job[p].app /\ job'[p].row.build = job[p].row.build
    /\ UNCHANGED <<lastVid, published>>

(* the row is inserted,                                                    *)
Inserts(p) ==
    /\ pc[p] = "insert" /\ pc'[p] = "promote"
    /\ job'[p].app = job[p].app /\ job'[p].row.id = lastVid + 1 /\ lastVid' = lastVid + 1
    /\ published' = published \cup {[id |-> lastVid + 1, app |-> job[p].row.app,
                                     plat |-> job[p].row.build.plat]}

(* or what follows the INSERT goes on, or gives way to the next part.      *)
GoesOn(p) ==
    /\ pc[p] \in Saved /\ pc'[p] \in Saved \cup {"parts"}
    /\ pc'[p] = "promote" => pc[p] = "promote"
    /\ job'[p].app = job[p].app
    /\ UNCHANGED <<lastVid, published>>

(* These are all the steps such a request takes. *)
LEMMA UploadSteps ==
    ASSUME TypeOK, NEW p \in Procs, Step(p), pc[p] \in Uploading
    PROVE  Takes(p) \/ Ends(p) \/ StillReceives(p) \/ Inserts(p) \/ GoesOn(p)
<1> USE DEF durable, history, Receiving, Saved
<1>0. job \in [Procs -> Job] /\ pc \in [Procs -> Labels] /\ job[p] \in Job
  BY DEF TypeOK
<1>1. ASSUME NEW j, Keep(p, j), NEW l, Goto(p, l)
      PROVE  job'[p] = j /\ pc'[p] = l
  BY <1>0, <1>1 DEF Keep, Goto
<1>2. CASE UploadEnd(p) \/ UploadReject(p) \/ UploadUndo(p)
  BY <1>1, <1>2 DEF UploadEnd, UploadReject, UploadUndo, Finish, Ends
<1>3. ASSUME NEW b \in Builds, UploadPart(p, b)
      PROVE  Takes(p)
  <2>1. PICK f : Keep(p, [job[p] EXCEPT
                     !.row = [Nobody EXCEPT !.app = job[p].app, !.build = b], !.fresh = f])
    BY <1>3 DEF UploadPart
  <2>2. Goto(p, "stream")
    BY <1>3 DEF UploadPart
  <2> DEFINE r == [Nobody EXCEPT !.app = job[p].app, !.build = b]
             j == [job[p] EXCEPT !.row = r, !.fresh = f]
  <2>3. j.app = job[p].app
    BY <1>0 DEF Job
  <2>4. Keep(p, j)
    BY <2>1
  <2> HIDE DEF j, r
  <2>5. job'[p].app = job[p].app /\ pc'[p] = "stream"
    BY <1>1, <2>2, <2>3, <2>4
  <2>6. QED
    BY <1>3, <2>5 DEF UploadPart, Takes
<1>4. CASE UploadMove(p)
  <2>1. Keep(p, [job[p] EXCEPT !.row = [job[p].row EXCEPT !.ts = clock]]) /\ Goto(p, "insert")
    BY <1>4 DEF UploadMove
  <2>2. job'[p].app = job[p].app /\ job'[p].row.build = job[p].row.build /\ pc'[p] = "insert"
    BY <1>0, <1>1, <2>1 DEF Job, Row
  <2>3. QED
    BY <1>4, <2>2 DEF UploadMove, StillReceives
<1>5. CASE UploadInsertFails(p)
  <2>1. job'[p] = job[p] /\ pc'[p] = "undo"
    BY <1>0, <1>5 DEF UploadInsertFails, Goto
  <2>2. QED
    BY <1>5, <2>1 DEF UploadInsertFails, StillReceives
<1>6. CASE UploadInsert(p)
  <2> DEFINE r == [job[p].row EXCEPT !.id = NextVid, !.at = clock]
  <2>1. Keep(p, [job[p] EXCEPT !.row = r]) /\ Goto(p, "promote")
    BY <1>6 DEF UploadInsert
  <2>2. r.id = lastVid + 1 /\ r.app = job[p].row.app /\ r.build = job[p].row.build
    BY <1>0 DEF NextVid, Job, Row
  <2>3. published' = published \cup {[id |-> r.id, app |-> r.app, plat |-> r.build.plat]}
    BY <1>6 DEF UploadInsert
  <2> HIDE DEF r
  <2>4. job'[p].app = job[p].app /\ job'[p].row = r /\ pc'[p] = "promote"
    BY <1>0, <1>1, <2>1 DEF Job
  <2>5. QED
    BY <1>6, <2>2, <2>3, <2>4 DEF UploadInsert, Inserts
<1>7. CASE UploadPromote(p) \/ UploadBundle(p)
  <2>1. job'[p] = job[p] /\ pc'[p] \in {"bundle", "pruneRead"}
    BY <1>0, <1>7 DEF UploadPromote, UploadBundle, Goto
  <2>2. QED
    BY <1>7, <2>1 DEF UploadPromote, UploadBundle, GoesOn
<1>8. ASSUME NextPart(p), UNCHANGED <<lastVid, published>>, pc[p] \in Saved
      PROVE  GoesOn(p)
  <2>1. job'[p] = [Blank EXCEPT !.app = job[p].app] /\ pc'[p] = "parts"
    BY <1>1, <1>8 DEF NextPart
  <2>2. QED
    BY <1>8, <2>1 DEF GoesOn, Blank
<1>9. ASSUME NEW j, Keep(p, j), j.app = job[p].app, NEW l \in Saved \ {"promote"}, Goto(p, l),
             UNCHANGED <<lastVid, published>>, pc[p] \in Saved
      PROVE  GoesOn(p)
  BY <1>1, <1>9 DEF GoesOn
<1>10. CASE PruneRead(p)
  <2>1. PICK v : Keep(p, [job[p] EXCEPT !.cur = v])
    BY <1>10 DEF PruneRead
  <2>2. [job[p] EXCEPT !.cur = v].app = job[p].app
    BY <1>0 DEF Job
  <2>3. QED
    BY <1>9, <1>10, <2>1, <2>2 DEF PruneRead
<1>11. CASE PruneSkip(p)
  BY <1>8, <1>11 DEF PruneSkip
<1>12. CASE PruneList(p)
  <2>1. CASE NextPart(p)
    BY <1>8, <1>12, <2>1 DEF PruneList
  <2>2. ASSUME NEW D, Goto(p, "prune"), Keep(p, [job[p] EXCEPT !.todo = D])
        PROVE  GoesOn(p)
    <3>1. [job[p] EXCEPT !.todo = D].app = job[p].app
      BY <1>0 DEF Job
    <3>2. QED
      BY <1>9, <1>12, <2>2, <3>1 DEF PruneList
  <2>3. QED
    BY <1>12, <2>1, <2>2 DEF PruneList
<1>13. CASE PruneFiles(p)
  <2>1. PICK r, rest, g : Keep(p, [job[p] EXCEPT !.row = r, !.todo = rest, !.gone = g])
    BY <1>13 DEF PruneFiles, RemoveFileOf
  <2>2. [job[p] EXCEPT !.row = r, !.todo = rest, !.gone = g].app = job[p].app
    BY <1>0 DEF Job
  <2>3. QED
    BY <1>9, <1>13, <2>1, <2>2 DEF PruneFiles
<1>14. CASE PruneRow(p)
  <2>1. CASE NextPart(p)
    BY <1>8, <1>14, <2>1 DEF PruneRow
  <2>2. CASE Goto(p, "prune") /\ Keep(p, [job[p] EXCEPT !.gone = {}])
    <3>1. [job[p] EXCEPT !.gone = {}].app = job[p].app
      BY <1>0 DEF Job
    <3>2. QED
      BY <1>9, <1>14, <2>2, <3>1 DEF PruneRow
  <2>3. QED
    BY <1>14, <2>1, <2>2 DEF PruneRow
<1>15. ~(\/ DeleteReadApp(p) \/ DeleteClear(p) \/ DeleteFiles(p) \/ DeleteRow(p)
         \/ PinWrite(p) \/ AppDeleteFiles(p) \/ AppDeleteRow(p) \/ DownloadOpen(p))
  BY DEF Uploading, DeleteReadApp, DeleteClear, DeleteFiles, DeleteRow, PinWrite,
         AppDeleteFiles, AppDeleteRow, DownloadOpen
<1>16. QED
  BY <1>2, <1>3, <1>4, <1>5, <1>6, <1>7, <1>10, <1>11, <1>12, <1>13, <1>14, <1>15 DEF Step

-----------------------------------------------------------------------------
(* What every step preserves *)

(* The parts of CliIInv that are about the command *)
CommandOK == CliTypeOK /\ Attended /\ OneFile /\ AccountedFor /\ CreatedMeansPublished

(* What a client may be answered for: an answer that was lost or spoiled,  *)
(* or the last command                                                     *)
Due(c) == lost[c] + spoiled[c] + Answered(c)

(* AccountedFor by what is due, now *)
LEMMA AccountedIs ==
    AccountedFor <=> \A c \in Clients :
        /\ IsFiniteSet(made[c]) /\ IsFiniteSet(Pending(c))
        /\ Cardinality(made[c]) + Cardinality(Pending(c)) <= Due(c)
BY DEF AccountedFor, Due

(* and after a step *)
LEMMA AccountedThen ==
    ASSUME \A c \in Clients :
             /\ IsFiniteSet(made'[c]) /\ IsFiniteSet(Pending(c)')
             /\ Cardinality(made'[c]) + Cardinality(Pending(c)') <= Due(c)'
    PROVE  AccountedFor'
BY DEF AccountedFor, Due

(* What is due is a number. *)
LEMMA DueIs ==
    ASSUME CliTypeOK, NEW c \in Clients
    PROVE  /\ Due(c) \in Nat /\ lost[c] \in Nat /\ spoiled[c] \in Nat
           /\ Due(c) = IF cli[c].at \in {"waiting", "created"} THEN lost[c] + spoiled[c] + 1
                       ELSE lost[c] + spoiled[c]
BY DEF CliTypeOK, Due, Answered

(* A finite set with one more element, *)
LEMMA OneMore ==
    ASSUME NEW A, IsFiniteSet(A), NEW x
    PROVE  /\ IsFiniteSet(A \cup {x}) /\ Cardinality(A \cup {x}) \in Nat
           /\ Cardinality(A \cup {x}) <= Cardinality(A) + 1
<1>1. IsFiniteSet(A \cup {x})
      /\ Cardinality(A \cup {x}) = IF x \in A THEN Cardinality(A) ELSE Cardinality(A) + 1
  BY FS_AddElement
<1>2. Cardinality(A) \in Nat /\ Cardinality(A \cup {x}) \in Nat
  BY <1>1, FS_CardinalityType
<1>3. QED
  BY <1>1, <1>2

(* or one less *)
LEMMA OneLess ==
    ASSUME NEW A, IsFiniteSet(A), NEW x
    PROVE  /\ IsFiniteSet(A \ {x}) /\ Cardinality(A \ {x}) \in Nat
           /\ Cardinality(A \ {x}) = IF x \in A THEN Cardinality(A) - 1 ELSE Cardinality(A)
<1>1. IsFiniteSet(A \ {x})
      /\ Cardinality(A \ {x}) = IF x \in A THEN Cardinality(A) - 1 ELSE Cardinality(A)
  BY FS_RemoveElement
<1>2. Cardinality(A \ {x}) \in Nat
  BY <1>1, FS_CardinalityType
<1>3. QED
  BY <1>1, <1>2

(* Ids and published versions only grow. *)
LEMMA ServerGrows ==
    ASSUME TypeOK, [Next]_vars
    PROVE  /\ published \subseteq published'
           /\ 0 .. lastApp \subseteq 0 .. lastApp' /\ 0 .. lastVid \subseteq 0 .. lastVid'
           /\ 1 .. lastVid \subseteq 1 .. lastVid'
           /\ Command \subseteq Command' /\ Service \subseteq Service'
<1> USE DEF durable, history
<1>1. /\ lastVid \in Nat /\ lastVid' \in Nat /\ lastVid <= lastVid'
      /\ lastApp \in Nat /\ lastApp' \in Nat /\ lastApp <= lastApp'
  BY CountersGrow DEF TypeOK
<1>2. ASSUME NEW p \in Procs, Step(p)
      PROVE  published \subseteq published'
  BY <1>2 DEF Step, UploadEnd, UploadPart, UploadReject, UploadMove, UploadInsert,
         UploadInsertFails, UploadUndo, UploadPromote, UploadBundle, PruneRead, PruneSkip,
         PruneList, PruneFiles, PruneRow, DeleteReadApp, DeleteClear, DeleteFiles, DeleteRow,
         PinWrite, AppDeleteFiles, AppDeleteRow, DownloadOpen
<1>3. ASSUME NEW p \in Procs, Request(p)
      PROVE  published \subseteq published'
  BY <1>3 DEF Request, AppCreate, UploadBegin, AppDeleteList, DeleteBegin, PinBegin,
         DownloadRead
<1>4. ASSUME Environment \/ UNCHANGED vars
      PROVE  published' = published
  <2>1. CASE UNCHANGED vars
    BY <2>1 DEF vars
  <2>2. CASE Environment
    BY <2>2 DEF Environment, Tick, Crash, Boot, OrphanScanEnd, OrphanRemove, ScanCutShort
  <2>3. QED
    BY <1>4, <2>1, <2>2
<1>5. published \subseteq published'
  BY <1>2, <1>3, <1>4 DEF Next
<1>6. 0 .. lastApp \subseteq 0 .. lastApp' /\ 0 .. lastVid \subseteq 0 .. lastVid'
      /\ 1 .. lastVid \subseteq 1 .. lastVid'
  BY <1>1
<1>7. Command \subseteq Command' /\ Service \subseteq Service'
  BY <1>6 DEF Command, Service
<1>8. QED
  BY <1>5, <1>6, <1>7

(* A step of the server or of others that no command takes part in *)
LEMMA AsideKeeps ==
    ASSUME TypeOK, CommandOK, [Next]_vars,
           UNCHANGED <<cli, runs, serves, made, lost, spoiled>>, others' \in Nat,
           \A p \in Procs : serves[p].client # NoClient => pc'[p] = pc[p] /\ job'[p] = job[p]
    PROVE  CommandOK'
<1>1. CliTypeOK'
  BY ServerGrows DEF CommandOK, CliTypeOK
<1>2. Attended'
  <2>1. ASSUME NEW c \in Clients, cli[c].at = "waiting"
        PROVE  /\ cli[c].on \in Procs /\ serves[cli[c].on].client = c
               /\ serves[cli[c].on].file = cli[c].file
               /\ job'[cli[c].on].app = cli[c].app
    BY <2>1, CliAssumption DEF CommandOK, Attended
  <2>2. ASSUME NEW c \in Clients, cli[c].at # "waiting"
        PROVE  cli[c].on = NoRequest
    BY <2>2 DEF CommandOK, Attended
  <2>3. QED
    BY <2>1, <2>2 DEF Attended
<1>3. OneFile'
  BY ServerGrows DEF CommandOK, OneFile, TakesOneFile
<1>4. AccountedFor'
  BY DEF CommandOK, AccountedFor, Pending, Answered
<1>5. CreatedMeansPublished'
  BY ServerGrows DEF CommandOK, CreatedMeansPublished
<1>6. QED
  BY <1>1, <1>2, <1>3, <1>4, <1>5 DEF CommandOK

(* Nobody serves a command while idle. *)
LEMMA IdleServesNone ==
    ASSUME OneFile, NEW p \in Procs, pc[p] = "idle"
    PROVE  serves[p] = NotServing
BY DEF OneFile, TakesOneFile, Receiving, Saved

(* A command that begins waits for a request that has published nothing. *)
LEMMA SendKeeps ==
    ASSUME TypeOK, CommandOK, NEW c \in Clients, NEW p \in Procs, NEW x \in apps,
           NEW b \in Builds, CliSend(c, p, x.id, b)
    PROVE  CommandOK'
<1> DEFINE s == [NotServing EXCEPT !.client = c, !.file = b]
           k == [at |-> "waiting", on |-> p, app |-> x.id, file |-> b, id |-> 0]
<1>1. UploadBegin(p, x.id) /\ cli[c].at \in {"ready", "refused", "lost"}
      /\ cli' = [cli EXCEPT ![c] = k] /\ runs' = [runs EXCEPT ![c] = @ + 1]
      /\ serves' = [serves EXCEPT ![p] = s] /\ UNCHANGED <<others, made, lost, spoiled>>
  BY DEF CliSend
<1>2. /\ pc[p] = "idle" /\ pc'[p] = "parts" /\ job'[p].app = x.id
      /\ UNCHANGED <<lastVid, lastApp, published>>
  <2>1. pc[p] = "idle" /\ UNCHANGED <<lastVid, lastApp, published>>
    BY <1>1 DEF UploadBegin, Start, durable, history
  <2>2. Goto(p, "parts") /\ Keep(p, [Blank EXCEPT !.app = x.id])
    BY <1>1 DEF UploadBegin
  <2>3. QED
    BY <2>1, <2>2 DEF Goto, Keep, Blank, TypeOK
<1>3. \A q \in Procs \ {p} : pc'[q] = pc[q] /\ job'[q] = job[q]
  BY <1>1, OthersStand DEF Request
<1>4. serves[p] = NotServing
  BY <1>2, IdleServesNone DEF CommandOK
<1>5. /\ s.client = c /\ s.file = b /\ s.sent = FALSE /\ s.id = 0
      /\ s \in Service /\ k \in Command /\ c # NoClient /\ p # NoRequest
  <2>1. x.id \in 0 .. lastApp /\ 0 \in 0 .. lastVid
    BY DEF TypeOK, App
  <2>2. QED
    BY <2>1, CliAssumption DEF NotServing, Service, Command, Answers
<1>6. /\ cli'[c] = k /\ \A d \in Clients \ {c} : cli'[d] = cli[d]
      /\ serves'[p] = s /\ \A q \in Procs \ {p} : serves'[q] = serves[q]
  BY <1>1 DEF CommandOK, CliTypeOK
<1>7. k.at = "waiting" /\ k.on = p /\ k.app = x.id /\ k.file = b
  OBVIOUS
<1> HIDE DEF s, k
<1>8. CliTypeOK'
  BY <1>1, <1>2, <1>5 DEF CommandOK, CliTypeOK, Command, Service
<1>9. \A d \in Clients : cli[d].on # p
  BY <1>4, CliAssumption DEF CommandOK, Attended, NotServing
<1>10. Attended'
  BY <1>2, <1>3, <1>5, <1>6, <1>7, <1>9 DEF CommandOK, Attended
<1>11. OneFile'
  <2>1. ASSUME NEW q \in Procs \ {p}
        PROVE  serves'[q] = serves[q] /\ pc'[q] = pc[q] /\ job'[q] = job[q]
    BY <1>3, <1>6
  <2>2. serves'[p].client = c /\ serves'[p].id = 0 /\ serves'[p].sent = FALSE
    BY <1>5, <1>6
  <2>3. QED
    BY <1>2, <1>5, <2>1, <2>2 DEF CommandOK, OneFile, TakesOneFile, Receiving, Saved
<1>12. AccountedFor'
  <2> SUFFICES ASSUME NEW d \in Clients
               PROVE  /\ IsFiniteSet(made'[d]) /\ IsFiniteSet(Pending(d)')
                      /\ Cardinality(made'[d]) + Cardinality(Pending(d)') <= Due(d)'
    BY AccountedThen
  <2>1. /\ IsFiniteSet(made[d]) /\ IsFiniteSet(Pending(d))
        /\ Cardinality(made[d]) + Cardinality(Pending(d)) <= Due(d)
    BY AccountedIs DEF CommandOK
  <2>2. Cardinality(made[d]) \in Nat /\ Cardinality(Pending(d)) \in Nat
    BY <2>1, FS_CardinalityType
  <2>3. CASE d # c
    <3>1. Pending(d)' = Pending(d)
      BY <1>4, <1>5, <1>6, <2>3, CliAssumption DEF Pending, NotServing
    <3>2. Due(d)' = Due(d)
      BY <1>1, <1>6, <2>3 DEF Due, Answered
    <3>3. QED
      BY <1>1, <2>1, <3>1, <3>2
  <2>4. CASE d = c
    <3>1. Pending(c)' = Pending(c) \cup {p}
      BY <1>4, <1>5, <1>6 DEF Pending
    <3>2. Due(c)' = Due(c) + 1 /\ Due(c) \in Nat
      BY <1>1, <1>6, <1>7, DueIs DEF Due, Answered, CommandOK
    <3>3. IsFiniteSet(Pending(c)') /\ Cardinality(Pending(c)') <= Cardinality(Pending(c)) + 1
          /\ Cardinality(Pending(c)') \in Nat
      BY <2>1, <2>4, <3>1, OneMore
    <3>4. QED
      BY <1>1, <2>1, <2>2, <2>4, <3>2, <3>3
  <2>5. QED
    BY <2>3, <2>4
<1>13. CreatedMeansPublished'
  BY <1>2, <1>6, <1>7 DEF CommandOK, CreatedMeansPublished
<1>14. QED
  BY <1>8, <1>10, <1>11, <1>12, <1>13 DEF CommandOK

(* Whoever is no longer answered accounts for what may yet be published. *)
LEMMA DueWhenLost ==
    ASSUME TypeOK, CliTypeOK, UNCHANGED spoiled, NEW losers, Lose(losers),
           losers \subseteq {d \in Clients : cli[d].at = "waiting"}
    PROVE  /\ cli' \in [Clients -> Command] /\ lost' \in [Clients -> Nat]
           /\ \A c \in Clients : cli'[c] = IF c \in losers THEN Ended("lost") ELSE cli[c]
           /\ \A c \in Clients : Due(c)' = Due(c)
<1>1. Ended("lost") \in Command
  <2>1. Nobody.build \in Builds /\ 0 \in 0 .. lastVid /\ 0 \in 0 .. lastApp
    BY BuildsAssumption DEF Nobody, TypeOK
  <2>2. QED
    BY <2>1 DEF Ended, Command, Answers, CliTypeOK
<1>2. /\ \A c \in Clients : cli'[c] = IF c \in losers THEN Ended("lost") ELSE cli[c]
      /\ \A c \in Clients : lost'[c] = IF c \in losers THEN lost[c] + 1 ELSE lost[c]
  BY DEF Lose
<1>3. cli' \in [Clients -> Command] /\ lost' \in [Clients -> Nat]
  BY <1>1 DEF Lose, CliTypeOK
<1>4. ASSUME NEW c \in Clients
      PROVE  Due(c)' = Due(c)
  BY <1>2 DEF Due, Answered, Ended, CliTypeOK
<1>5. QED
  BY <1>2, <1>3, <1>4

(* A command that ends before its answer *)
LEMMA LostKeeps ==
    ASSUME TypeOK, CommandOK, NEW c \in Clients, CliLost(c)
    PROVE  CommandOK'
<1>1. /\ Lose({c}) /\ cli[c].at = "waiting" /\ UNCHANGED <<vars, runs, others, serves, made, spoiled>>
      /\ UNCHANGED <<lastVid, lastApp, published, pc, job>>
  BY DEF CliLost, vars, durable, history
<1>2. /\ cli' \in [Clients -> Command] /\ lost' \in [Clients -> Nat]
      /\ \A d \in Clients : cli'[d] = IF d \in {c} THEN Ended("lost") ELSE cli[d]
      /\ \A d \in Clients : Due(d)' = Due(d)
  BY <1>1, DueWhenLost DEF CommandOK
<1>3. CliTypeOK'
  BY <1>1, <1>2 DEF CommandOK, CliTypeOK, Command, Service
<1>4. Attended'
  BY <1>1, <1>2 DEF CommandOK, Attended, Ended
<1>5. OneFile'
  BY <1>1 DEF CommandOK, OneFile, TakesOneFile
<1>6. AccountedFor'
  <2>1. \A d \in Clients : made'[d] = made[d] /\ Pending(d)' = Pending(d)
    BY <1>1 DEF Pending
  <2>2. QED
    BY <1>1, <1>2, <2>1, AccountedIs, AccountedThen DEF CommandOK
<1>7. CreatedMeansPublished'
  BY <1>1, <1>2 DEF CommandOK, CreatedMeansPublished, Ended
<1>8. QED
  BY <1>3, <1>4, <1>5, <1>6, <1>7 DEF CommandOK

(* A kill: every request is gone, and every command that waited with it. *)
LEMMA CrashKeeps ==
    ASSUME TypeOK, CommandOK, ServerCrash
    PROVE  CommandOK'
<1> DEFINE losers == {c \in Clients : cli[c].at = "waiting"}
<1>1. /\ Lose(losers) /\ UNCHANGED <<runs, others, made, spoiled>>
      /\ serves' = [p \in Procs |-> NotServing]
      /\ UNCHANGED <<lastVid, lastApp, published>>
  BY DEF ServerCrash, Crash, durable
<1>2. /\ cli' \in [Clients -> Command] /\ lost' \in [Clients -> Nat]
      /\ \A d \in Clients : cli'[d] = IF d \in losers THEN Ended("lost") ELSE cli[d]
      /\ \A d \in Clients : Due(d)' = Due(d)
  BY <1>1, DueWhenLost DEF CommandOK
<1>3. CliTypeOK'
  <2>1. NotServing \in Service
    BY BlankType, BuildsAssumption DEF NotServing, Nobody, Service, TypeOK
  <2>2. QED
    BY <1>1, <1>2, <2>1 DEF CommandOK, CliTypeOK, Command, Service
<1>4. Attended'
  BY <1>1, <1>2 DEF CommandOK, Attended, Ended
<1>5. OneFile'
  BY <1>1 DEF OneFile, TakesOneFile, NotServing
<1>6. AccountedFor'
  <2> SUFFICES ASSUME NEW d \in Clients
               PROVE  /\ IsFiniteSet(made'[d]) /\ IsFiniteSet(Pending(d)')
                      /\ Cardinality(made'[d]) + Cardinality(Pending(d)') <= Due(d)'
    BY AccountedThen
  <2>1. Pending(d)' = {}
    BY <1>1, CliAssumption DEF Pending, NotServing
  <2>2. /\ IsFiniteSet(made[d]) /\ IsFiniteSet(Pending(d))
        /\ Cardinality(made[d]) + Cardinality(Pending(d)) <= Due(d)
        /\ Due(d)' = Due(d) /\ Due(d) \in Nat
    BY <1>2, AccountedIs, DueIs DEF CommandOK, CliTypeOK
  <2>3. Cardinality(made[d]) \in Nat /\ Cardinality(Pending(d)) \in Nat
    BY <2>2, FS_CardinalityType
  <2>4. IsFiniteSet(Pending(d)') /\ Cardinality(Pending(d)') = 0
    BY <2>1, FS_EmptySet
  <2>5. QED
    BY <1>1, <2>2, <2>3, <2>4
<1>7. CreatedMeansPublished'
  BY <1>1, <1>2 DEF CommandOK, CreatedMeansPublished, Ended
<1>8. QED
  BY <1>3, <1>4, <1>5, <1>6, <1>7 DEF CommandOK

(* What Served says, client by client and request by request *)
LEMMA ServedIs ==
    ASSUME CliTypeOK, NEW p \in Procs, serves[p].client # NoClient, Served(p)
    PROVE  LET s == serves[p]
               takes == pc[p] = "parts" /\ pc'[p] = "stream"
               inserts == pc[p] = "insert" /\ pc'[p] = "promote"
           IN  /\ s.client \in Clients /\ s \in Service
               /\ takes => s.sent = FALSE /\ job'[p].row.build = s.file
               /\ \A d \in Clients :
                    made'[d] = IF d = s.client /\ inserts
                               THEN made[d] \cup {job'[p].row.id} ELSE made[d]
               /\ \A q \in Procs \ {p} : serves'[q] = serves[q]
               /\ pc'[p] = "idle" => serves'[p] = NotServing
               /\ pc'[p] # "idle" =>
                    /\ serves'[p].client = s.client /\ serves'[p].file = s.file
                    /\ serves'[p].sent = (s.sent \/ takes)
                    /\ serves'[p].id = IF inserts THEN job'[p].row.id ELSE s.id
                    /\ UNCHANGED <<cli, spoiled>>
               /\ UNCHANGED <<runs, others, lost>>
<1> DEFINE s == serves[p]
           takes == pc[p] = "parts" /\ pc'[p] = "stream"
           inserts == pc[p] = "insert" /\ pc'[p] = "promote"
           t == IF pc'[p] = "idle" THEN NotServing
                ELSE [s EXCEPT !.sent = @ \/ takes, !.id = IF inserts THEN job'[p].row.id ELSE @]
<1>1. /\ takes => ~s.sent /\ job'[p].row.build = s.file
      /\ made' = IF inserts THEN [made EXCEPT ![s.client] = @ \cup {job'[p].row.id}] ELSE made
      /\ serves' = [serves EXCEPT ![p] = t]
      /\ pc'[p] # "idle" => UNCHANGED <<cli, spoiled>>
      /\ UNCHANGED <<runs, others, lost>>
  BY DEF Served
<1>2. /\ serves \in [Procs -> Service] /\ made \in [Clients -> SUBSET (1 .. lastVid)]
      /\ s \in Service /\ s.client \in Clients /\ s.sent \in BOOLEAN
  BY DEF CliTypeOK, Service
<1>3. serves'[p] = t /\ \A q \in Procs \ {p} : serves'[q] = serves[q]
  BY <1>1, <1>2
<1>4. pc'[p] # "idle" =>
        /\ t.client = s.client /\ t.file = s.file
        /\ t.sent = (s.sent \/ takes)
        /\ t.id = IF inserts THEN job'[p].row.id ELSE s.id
  BY <1>2 DEF Service
<1>5. \A d \in Clients :
        made'[d] = IF d = s.client /\ inserts THEN made[d] \cup {job'[p].row.id} ELSE made[d]
  BY <1>1, <1>2
<1>6. ~s.sent => s.sent = FALSE
  BY <1>2
<1> HIDE DEF t
<1>7. QED
  BY <1>1, <1>2, <1>3, <1>4, <1>5, <1>6 DEF t

(* A command's request that goes on: its client still waits, and has been  *)
(* published one more version if the row was inserted.                     *)
LEMMA ServedOnKeeps ==
    ASSUME TypeOK, Carried, CommandOK, [Next]_vars, NEW p \in Procs, Step(p),
           serves[p].client # NoClient, Served(p),
           Takes(p) \/ StillReceives(p) \/ Inserts(p) \/ GoesOn(p)
    PROVE  CommandOK'
<1> DEFINE s == serves[p]
           inserts == pc[p] = "insert" /\ pc'[p] = "promote"
<1>1. pc'[p] # "idle" /\ pc[p] \in Uploading /\ job'[p].app = job[p].app
  BY DEF Takes, StillReceives, Inserts, GoesOn, Uploading, Receiving, Saved
<1>2. /\ s.client \in Clients /\ s \in Service
      /\ \A q \in Procs \ {p} : serves'[q] = serves[q]
      /\ serves'[p].client = s.client /\ serves'[p].file = s.file
      /\ UNCHANGED <<cli, runs, others, lost, spoiled>>
      /\ serves'[p].id = IF inserts THEN job'[p].row.id ELSE s.id
      /\ \A d \in Clients :
           made'[d] = IF d = s.client /\ inserts THEN made[d] \cup {job'[p].row.id} ELSE made[d]
  BY <1>1, ServedIs DEF CommandOK
<1>3. \A q \in Procs \ {p} : pc'[q] = pc[q] /\ job'[q] = job[q]
  BY OthersStand
<1>4. inserts => /\ Inserts(p) /\ s.id = 0 /\ job'[p].row.id = lastVid + 1
                 /\ lastVid' = lastVid + 1 /\ lastVid \in Nat
  <2> SUFFICES ASSUME inserts PROVE /\ Inserts(p) /\ s.id = 0 /\ job'[p].row.id = lastVid + 1
                                    /\ lastVid' = lastVid + 1 /\ lastVid \in Nat
    OBVIOUS
  <2>1. Inserts(p)
    BY DEF Takes, StillReceives, GoesOn, Receiving, Saved
  <2>2. s.id = 0
    BY DEF CommandOK, OneFile, TakesOneFile, Receiving
  <2>3. QED
    BY <2>1, <2>2 DEF Inserts, TypeOK
<1>5. CliTypeOK'
  <2>1. serves'[p].id \in 0 .. lastVid'
    BY <1>2, <1>4, ServerGrows DEF Service
  <2>2. serves'[p] \in Service'
    <3>1. serves' = [serves EXCEPT ![p] = [s EXCEPT
                        !.sent = @ \/ (pc[p] = "parts" /\ pc'[p] = "stream"),
                        !.id = IF inserts THEN job'[p].row.id ELSE @]]
      BY <1>1 DEF Served
    <3> DEFINE b == s.sent \/ (pc[p] = "parts" /\ pc'[p] = "stream")
               i == IF inserts THEN job'[p].row.id ELSE s.id
    <3>2. serves'[p] = [s EXCEPT !.sent = b, !.id = i]
      BY <3>1 DEF CommandOK, CliTypeOK
    <3>3. b \in BOOLEAN /\ i \in 0 .. lastVid'
      BY <1>2, <2>1
    <3> HIDE DEF b, i
    <3>4. QED
      BY <1>2, <3>2, <3>3 DEF Service
  <2>3. serves' \in [Procs -> Service']
    <3>1. DOMAIN serves' = Procs /\ serves' = [q \in Procs |-> serves'[q]]
      BY DEF Served, CommandOK, CliTypeOK
    <3>2. \A q \in Procs : serves'[q] \in Service'
      BY <1>2, <2>2, ServerGrows DEF CommandOK, CliTypeOK
    <3>3. QED
      BY <3>1, <3>2
  <2>4. made' \in [Clients -> SUBSET (1 .. lastVid')]
    <3>1. made' = [d \in Clients |-> made'[d]]
      BY DEF Served, CommandOK, CliTypeOK
    <3>2. ASSUME NEW d \in Clients
          PROVE  made'[d] \in SUBSET (1 .. lastVid')
      <4>1. made[d] \subseteq 1 .. lastVid'
        BY ServerGrows DEF CommandOK, CliTypeOK
      <4>2. inserts => job'[p].row.id \in 1 .. lastVid'
        BY <1>4
      <4>3. QED
        BY <1>2, <4>1, <4>2
    <3>3. QED
      BY <3>1, <3>2
  <2>5. QED
    BY <1>2, <2>3, <2>4, ServerGrows DEF CommandOK, CliTypeOK
<1>6. Attended'
  <2>1. \A q \in Procs : /\ serves'[q].client = serves[q].client /\ serves'[q].file = serves[q].file
                         /\ job'[q].app = job[q].app
    BY <1>1, <1>2, <1>3
  <2>2. QED
    BY <1>2, <2>1 DEF CommandOK, Attended
<1>7. OneFile'
  <2> SUFFICES TakesOneFile(p)'
    <3>1. ASSUME NEW q \in Procs \ {p}
          PROVE  TakesOneFile(q)'
      <4>1. serves'[q] = serves[q] /\ pc'[q] = pc[q] /\ job'[q] = job[q]
        BY <1>2, <1>3
      <4>2. TakesOneFile(q) /\ published \subseteq published'
        BY ServerGrows DEF CommandOK, OneFile
      <4>3. QED
        BY <4>1, <4>2 DEF TakesOneFile
    <3>2. QED
      BY <3>1 DEF OneFile
  <2>0. serves'[p].client # NoClient
    BY <1>2
  <2>1. /\ pc[p] \in Receiving => s.sent /\ s.id = 0 /\ job[p].row.build = s.file
        /\ pc[p] \in Saved => s.sent /\ s.id # 0
        /\ pc[p] = "parts" => s.sent = (s.id # 0)
        /\ s.id # 0 => [id |-> s.id, app |-> job[p].app, plat |-> s.file.plat] \in published
    BY DEF CommandOK, OneFile, TakesOneFile
  <2>2. /\ serves'[p].sent = (s.sent \/ (pc[p] = "parts" /\ pc'[p] = "stream"))
        /\ pc[p] = "parts" /\ pc'[p] = "stream" => s.sent = FALSE /\ job'[p].row.build = s.file
    BY <1>1, ServedIs DEF CommandOK
  <2>3. CASE Takes(p)
    <3>1. serves'[p].id = s.id /\ s.id = 0 /\ serves'[p].sent
      BY <1>2, <2>1, <2>2, <2>3 DEF Takes
    <3>2. QED
      BY <1>2, <2>0, <2>2, <2>3, <3>1 DEF Takes, TakesOneFile, Receiving, Saved
  <2>4. CASE StillReceives(p)
    <3>1. serves'[p].id = s.id /\ s.id = 0 /\ serves'[p].sent
      BY <1>2, <2>1, <2>2, <2>4 DEF StillReceives, Receiving
    <3>2. QED
      <4>1. job'[p].row.build = serves'[p].file
        BY <1>2, <2>1, <2>4 DEF StillReceives
      <4>2. pc'[p] \in Receiving
        BY <2>4 DEF StillReceives
      <4>3. QED
        BY <2>0, <3>1, <4>1, <4>2 DEF TakesOneFile, Receiving, Saved
  <2>5. CASE Inserts(p)
    <3>1. serves'[p].id = lastVid + 1 /\ serves'[p].sent /\ lastVid + 1 # 0
      <4>1. inserts /\ pc[p] \in Receiving
        BY <2>5 DEF Inserts, Receiving
      <4>2. serves'[p].id = lastVid + 1 /\ lastVid + 1 # 0
        BY <1>2, <1>4, <4>1
      <4>3. s.sent /\ serves'[p].sent = s.sent
        BY <2>1, <2>2, <4>1
      <4>4. QED
        BY <4>2, <4>3
    <3>2. job[p].row.app = job[p].app /\ job[p].row.build = s.file
      BY <2>1, <2>5 DEF Inserts, Receiving, Carried, CarriesRow
    <3>3. [id |-> lastVid + 1, app |-> job'[p].app, plat |-> serves'[p].file.plat] \in published'
      BY <1>1, <1>2, <2>5, <3>2 DEF Inserts
    <3>4. QED
      BY <2>0, <2>5, <3>1, <3>3 DEF Inserts, TakesOneFile, Receiving, Saved
  <2>6. CASE GoesOn(p)
    <3>1. serves'[p].id = s.id /\ s.id # 0 /\ serves'[p].sent = TRUE
      BY <1>2, <2>1, <2>2, <2>6 DEF GoesOn, Saved
    <3>2. QED
      BY <1>1, <1>2, <2>0, <2>1, <2>6, <3>1 DEF GoesOn, TakesOneFile, Receiving, Saved
  <2>7. QED
    BY <2>3, <2>4, <2>5, <2>6
<1>8. AccountedFor'
  <2> SUFFICES ASSUME NEW d \in Clients
               PROVE  /\ IsFiniteSet(made'[d]) /\ IsFiniteSet(Pending(d)')
                      /\ Cardinality(made'[d]) + Cardinality(Pending(d)') <= Due(d)'
    BY AccountedThen
  <2>1. /\ IsFiniteSet(made[d]) /\ IsFiniteSet(Pending(d))
        /\ Cardinality(made[d]) + Cardinality(Pending(d)) <= Due(d)
        /\ Due(d) \in Nat /\ Due(d)' = Due(d)
    BY <1>2, AccountedIs, DueIs DEF CommandOK, Due, Answered
  <2>2. Cardinality(made[d]) \in Nat /\ Cardinality(Pending(d)) \in Nat
    BY <2>1, FS_CardinalityType
  <2>3. CASE inserts /\ d = s.client
    <3>1. made'[d] = made[d] \cup {lastVid + 1}
      BY <1>2, <1>4, <2>3
    <3>2. Pending(d)' = Pending(d) \ {p} /\ p \in Pending(d)
      BY <1>2, <1>4, <2>3 DEF Pending
    <3>3. /\ IsFiniteSet(made'[d]) /\ Cardinality(made'[d]) \in Nat
          /\ Cardinality(made'[d]) <= Cardinality(made[d]) + 1
      BY <2>1, <3>1, OneMore
    <3>4. /\ IsFiniteSet(Pending(d)') /\ Cardinality(Pending(d)') \in Nat
          /\ Cardinality(Pending(d)') = Cardinality(Pending(d)) - 1
      BY <2>1, <3>2, OneLess
    <3>5. QED
      BY <2>1, <2>2, <3>3, <3>4
  <2>4. CASE ~(inserts /\ d = s.client)
    <3>1. made'[d] = made[d] /\ Pending(d)' = Pending(d)
      BY <1>2, <2>4 DEF Pending
    <3>2. QED
      BY <2>1, <3>1
  <2>5. QED
    BY <2>3, <2>4
<1>9. CreatedMeansPublished'
  BY <1>2, ServerGrows DEF CommandOK, CreatedMeansPublished
<1>10. QED
  BY <1>5, <1>6, <1>7, <1>8, <1>9 DEF CommandOK

(* The end of a command's request is its answer: the version that came of  *)
(* the file, or a refusal, and then none came of it unless it is spoiled.  *)
LEMMA ServedEndKeeps ==
    ASSUME TypeOK, CommandOK, [Next]_vars, NEW p \in Procs, Step(p),
           serves[p].client # NoClient, Served(p), Ends(p)
    PROVE  CommandOK'
<1> PICK o \in Outcomes(p) : Answer(p, o)
  BY DEF Served, Ends
<1> DEFINE s == serves[p]
           c == s.client
           created == o = "created"
           saved == pc[p] = "parts" /\ s.sent
           k == IF created THEN [cli[c] EXCEPT !.at = "created", !.on = NoRequest, !.id = s.id]
                ELSE Ended("refused")
<1>1. pc[p] \in {"parts", "stream", "undo"} /\ pc'[p] = "idle" /\ UNCHANGED <<lastVid, published>>
  BY DEF Ends
<1>2. /\ c \in Clients /\ s \in Service /\ UNCHANGED <<runs, others, lost>>
      /\ \A q \in Procs \ {p} : serves'[q] = serves[q]
      /\ serves'[p] = NotServing
      /\ \A d \in Clients : made'[d] = made[d]
  BY <1>1, ServedIs DEF CommandOK
<1>3. \A q \in Procs \ {p} : pc'[q] = pc[q] /\ job'[q] = job[q]
  BY OthersStand
<1>4. /\ cli' = IF cli[c].on # p THEN cli ELSE [cli EXCEPT ![c] = k]
      /\ spoiled' = IF cli[c].on = p /\ ~created /\ saved
                    THEN [spoiled EXCEPT ![c] = @ + 1] ELSE spoiled
      /\ created => saved
  BY DEF Answer, Outcomes, AtEndOfBody
<1>5. /\ \A d \in Clients : cli'[d] = IF d = c /\ cli[c].on = p THEN k ELSE cli[d]
      /\ cli[c] \in Command /\ c # NoClient /\ NotServing.client = NoClient
  BY <1>2, <1>4, CliAssumption DEF CommandOK, CliTypeOK, NotServing
<1>6. /\ k.on = NoRequest /\ k.at = IF created THEN "created" ELSE "refused"
      /\ created => k.id = s.id /\ k.app = cli[c].app /\ k.file = cli[c].file
  BY <1>5 DEF Command, Ended
<1>7. k \in Command'
  <2>1. CASE created
    <3>1. k.id \in 0 .. lastVid
      BY <1>2, <1>6, <2>1 DEF Service
    <3>2. k \in Command
      BY <1>2, <1>5, <2>1 DEF Command, Answers, Service
    <3>3. QED
      BY <3>2, ServerGrows
  <2>2. CASE ~created
    <3>1. Nobody.build \in Builds /\ 0 \in 0 .. lastVid /\ 0 \in 0 .. lastApp
      BY BuildsAssumption DEF Nobody, TypeOK
    <3>2. Ended("refused") \in Command
      BY <3>1 DEF Ended, Command, Answers
    <3>3. QED
      BY <2>2, <3>2, ServerGrows
  <2>3. QED
    BY <2>1, <2>2
<1>8. /\ s.id # 0 => [id |-> s.id, app |-> job[p].app, plat |-> s.file.plat] \in published
      /\ saved <=> s.id # 0
  <2>1. /\ pc[p] \in Receiving => s.id = 0
        /\ pc[p] = "parts" => s.sent = (s.id # 0)
        /\ s.id # 0 => [id |-> s.id, app |-> job[p].app, plat |-> s.file.plat] \in published
    BY DEF CommandOK, OneFile, TakesOneFile
  <2>2. QED
    BY <1>1, <2>1 DEF Receiving
<1>9. cli[c].on = p => /\ cli[c].at = "waiting" /\ s.file = cli[c].file
                       /\ job[p].app = cli[c].app
  BY <1>2, CliAssumption DEF CommandOK, Attended
<1> HIDE DEF k, created, saved
<1>10. CliTypeOK'
  <2>1. cli' \in [Clients -> Command']
    <3>1. cli' = [d \in Clients |-> cli'[d]]
      BY <1>4 DEF CommandOK, CliTypeOK
    <3>2. \A d \in Clients : cli'[d] \in Command'
      BY <1>5, <1>7, ServerGrows DEF CommandOK, CliTypeOK
    <3>3. QED
      BY <3>1, <3>2
  <2>2. serves' \in [Procs -> Service']
    <3>1. serves' = [serves EXCEPT ![p] = NotServing]
      BY <1>1 DEF Served
    <3>2. NotServing \in Service
      BY BlankType, BuildsAssumption DEF NotServing, Nobody, Service, TypeOK
    <3>3. QED
      BY <3>1, <3>2, ServerGrows DEF CommandOK, CliTypeOK
  <2>3. made' \in [Clients -> SUBSET (1 .. lastVid')]
    <3>1. made' = made
      BY <1>1 DEF Served
    <3>2. QED
      BY <3>1, ServerGrows DEF CommandOK, CliTypeOK
  <2>4. spoiled' \in [Clients -> Nat]
    BY <1>2, <1>4 DEF CommandOK, CliTypeOK
  <2>5. QED
    BY <1>2, <2>1, <2>2, <2>3, <2>4 DEF CommandOK, CliTypeOK
<1>11. Attended'
  <2> SUFFICES ASSUME NEW d \in Clients
               PROVE  IF cli'[d].at = "waiting"
                      THEN /\ cli'[d].on \in Procs /\ serves'[cli'[d].on].client = d
                           /\ serves'[cli'[d].on].file = cli'[d].file
                           /\ job'[cli'[d].on].app = cli'[d].app
                      ELSE cli'[d].on = NoRequest
    BY DEF Attended
  <2>1. CASE d = c /\ cli[c].on = p
    BY <1>5, <1>6, <2>1
  <2>2. CASE ~(d = c /\ cli[c].on = p)
    <3>1. cli'[d] = cli[d]
      BY <1>5, <2>2
    <3>2. cli[d].on # p
      BY <2>2, CliAssumption DEF CommandOK, Attended
    <3>3. QED
      BY <1>2, <1>3, <3>1, <3>2 DEF CommandOK, Attended
  <2>3. QED
    BY <2>1, <2>2
<1>12. OneFile'
  <2>1. TakesOneFile(p)'
    BY <1>2, <1>5 DEF TakesOneFile
  <2>2. ASSUME NEW q \in Procs \ {p}
        PROVE  TakesOneFile(q)'
    <3>1. serves'[q] = serves[q] /\ pc'[q] = pc[q] /\ job'[q] = job[q] /\ published' = published
      BY <1>1, <1>2, <1>3
    <3>2. QED
      BY <3>1 DEF CommandOK, OneFile, TakesOneFile
  <2>3. QED
    BY <2>1, <2>2 DEF OneFile
<1>13. AccountedFor'
  <2> SUFFICES ASSUME NEW d \in Clients
               PROVE  /\ IsFiniteSet(made'[d]) /\ IsFiniteSet(Pending(d)')
                      /\ Cardinality(made'[d]) + Cardinality(Pending(d)') <= Due(d)'
    BY AccountedThen
  <2>1. /\ IsFiniteSet(made[d]) /\ IsFiniteSet(Pending(d))
        /\ Cardinality(made[d]) + Cardinality(Pending(d)) <= Due(d)
        /\ Due(d) \in Nat /\ lost[d] \in Nat /\ spoiled[d] \in Nat /\ made'[d] = made[d]
    BY <1>2, AccountedIs, DueIs DEF CommandOK
  <2>2. Cardinality(made[d]) \in Nat /\ Cardinality(Pending(d)) \in Nat
    BY <2>1, FS_CardinalityType
  <2>3. Pending(d)' = Pending(d) \ {p}
    BY <1>2, <1>5, CliAssumption DEF Pending
  <2>4. /\ IsFiniteSet(Pending(d)') /\ Cardinality(Pending(d)') \in Nat
        /\ Cardinality(Pending(d)') = IF p \in Pending(d) THEN Cardinality(Pending(d)) - 1
                                      ELSE Cardinality(Pending(d))
    BY <2>1, <2>3, OneLess
  <2>5. CASE d = c /\ cli[c].on = p /\ ~created
    <3>1. Answered(d) = 1 /\ Answered(d)' = 0
      BY <1>5, <1>6, <1>9, <2>5 DEF Answered
    <3>2. CASE saved
      <4>1. spoiled'[d] = spoiled[d] + 1
        BY <1>2, <1>4, <2>5, <3>2 DEF CommandOK, CliTypeOK
      <4>2. Due(d)' = Due(d)
        BY <1>2, <2>1, <3>1, <4>1 DEF Due
      <4>3. QED
        BY <2>1, <2>2, <2>4, <4>2
    <3>3. CASE ~saved
      <4>1. p \in Pending(d)
        BY <1>8, <2>5, <3>3 DEF Pending
      <4>2. spoiled' = spoiled
        BY <1>4, <3>3
      <4>3. Due(d)' = Due(d) - 1
        BY <1>2, <2>1, <3>1, <4>2 DEF Due
      <4>4. QED
        BY <2>1, <2>2, <2>4, <4>1, <4>3
    <3>4. QED
      BY <3>2, <3>3
  <2>6. CASE ~(d = c /\ cli[c].on = p /\ ~created)
    <3>1. spoiled'[d] = spoiled[d]
      BY <1>4, <2>6 DEF CommandOK, CliTypeOK
    <3>2. Answered(d)' = Answered(d)
      BY <1>5, <1>6, <1>9, <2>6 DEF Answered
    <3>3. Due(d)' = Due(d)
      BY <1>2, <3>1, <3>2 DEF Due
    <3>4. QED
      BY <2>1, <2>2, <2>4, <3>3
  <2>7. QED
    BY <2>5, <2>6
<1>14. CreatedMeansPublished'
  <2> SUFFICES ASSUME NEW d \in Clients, cli'[d].at = "created"
               PROVE  [id |-> cli'[d].id, app |-> cli'[d].app, plat |-> cli'[d].file.plat]
                        \in published
    BY <1>1 DEF CreatedMeansPublished
  <2>1. CASE d = c /\ cli[c].on = p
    BY <1>4, <1>5, <1>6, <1>8, <1>9, <2>1
  <2>2. CASE ~(d = c /\ cli[c].on = p)
    BY <1>5, <2>2 DEF CommandOK, CreatedMeansPublished
  <2>3. QED
    BY <2>1, <2>2
<1>15. QED
  BY <1>10, <1>11, <1>12, <1>13, <1>14 DEF CommandOK

-----------------------------------------------------------------------------
(* The invariant *)

(* It holds before any command runs, *)
LEMMA InitCommand == CliInit => CliIInv
<1> SUFFICES ASSUME CliInit PROVE CliIInv
  OBVIOUS
<1>1. Init /\ IInv
  BY InitIInv DEF CliInit
<1>2. TypeOK /\ lastVid \in Nat /\ lastApp \in Nat
  BY <1>1 DEF IInv, TypeOK
<1>3. Nobody.build \in Builds
  BY BuildsAssumption DEF Nobody
<1>4. NotServing \in Service /\ Ended("ready") \in Command
  BY <1>2, <1>3 DEF NotServing, Service, Ended, Command, Answers
<1>5. CliTypeOK
  BY <1>4 DEF CliInit, CliTypeOK
<1>6. Attended /\ CreatedMeansPublished
  BY DEF CliInit, Attended, CreatedMeansPublished, Ended
<1>7. OneFile
  BY DEF CliInit, OneFile, TakesOneFile, NotServing
<1>8. AccountedFor
  <2> SUFFICES ASSUME NEW c \in Clients
               PROVE  /\ IsFiniteSet(made[c]) /\ IsFiniteSet(Pending(c))
                      /\ Cardinality(made[c]) + Cardinality(Pending(c)) <= Due(c)
    BY AccountedIs
  <2>1. made[c] = {} /\ Pending(c) = {}
    BY CliAssumption DEF CliInit, Pending, NotServing
  <2>2. Due(c) = 0
    BY DEF CliInit, Due, Answered, Ended
  <2>3. QED
    BY <2>1, <2>2, FS_EmptySet
<1>9. QED
  BY <1>1, <1>5, <1>6, <1>7, <1>8 DEF CliIInv

(* and every step of a client, the server or others keeps it. *)
LEMMA NextCommand == CliIInv /\ [CliNext]_allVars => CliIInv'
<1> SUFFICES ASSUME IInv, CommandOK, [CliNext]_allVars PROVE IInv' /\ CommandOK'
  BY DEF CliIInv, CommandOK
<1>1. [Next]_vars
  BY ServerIsCatalog
<1>2. IInv'
  BY <1>1, NextIInv
<1>3. TypeOK /\ Carried /\ others \in Nat
  BY DEF IInv, CommandOK, CliTypeOK
<1>4. ASSUME NEW p \in Procs, ServerStep(p)
      PROVE  CommandOK'
  <2>1. Step(p) /\ Served(p)
    BY <1>4 DEF ServerStep
  <2>2. \A q \in Procs \ {p} : pc'[q] = pc[q] /\ job'[q] = job[q]
    BY <1>3, <2>1, OthersStand
  <2>3. CASE serves[p].client = NoClient
    <3>1. UNCHANGED <<cli, runs, serves, made, lost, spoiled>> /\ others' = others
      BY <2>1, <2>3 DEF Served, cliVars
    <3>2. QED
      BY <1>1, <1>3, <2>2, <2>3, <3>1, AsideKeeps
  <2>4. CASE serves[p].client # NoClient
    <3>1. pc[p] \in Uploading
      BY <2>4 DEF CommandOK, OneFile, TakesOneFile, Uploading
    <3>2. QED
      BY <1>1, <1>3, <2>1, <2>4, <3>1, UploadSteps, ServedOnKeeps, ServedEndKeeps
  <2>5. QED
    BY <2>3, <2>4
<1>5. ASSUME NEW p \in Procs, OtherRequest(p)
      PROVE  CommandOK'
  <2>1. Request(p) /\ UNCHANGED <<cli, runs, serves, made, lost, spoiled>> /\ others' = others + 1
    BY <1>5 DEF OtherRequest
  <2>2. pc[p] = "idle"
    BY <2>1 DEF Request, AppCreate, UploadBegin, AppDeleteList, DeleteBegin, PinBegin,
                DownloadRead, Start
  <2>3. serves[p].client = NoClient
    BY <2>2, IdleServesNone DEF CommandOK, NotServing
  <2>4. \A q \in Procs \ {p} : pc'[q] = pc[q] /\ job'[q] = job[q]
    BY <1>3, <2>1, OthersStand
  <2>5. QED
    BY <1>1, <1>3, <2>1, <2>3, <2>4, AsideKeeps
<1>6. ASSUME NEW c \in Clients, NEW p \in Procs, NEW x \in apps, NEW b \in Builds,
             CliSend(c, p, x.id, b)
      PROVE  CommandOK'
  BY <1>3, <1>6, SendKeeps
<1>7. ASSUME NEW c \in Clients, CliLost(c)
      PROVE  CommandOK'
  BY <1>3, <1>7, LostKeeps
<1>8. CASE ServerCrash
  BY <1>2, <1>3, <1>8, CrashKeeps
<1>9. CASE OtherEvent
  <2>1. Environment /\ crashes' = crashes /\ UNCHANGED <<cli, runs, serves, made, lost, spoiled, others>>
    BY <1>9 DEF OtherEvent, cliVars
  <2>2. ~Crash
    BY <1>3, <2>1 DEF Crash, TypeOK
  <2>3. UNCHANGED <<pc, job>>
    BY <2>1, <2>2 DEF Environment, Tick, Boot, OrphanScanEnd, OrphanRemove, ScanCutShort
  <2>4. QED
    BY <1>1, <1>2, <1>3, <2>1, <2>3, AsideKeeps
<1>10. CASE UNCHANGED allVars
  <2>1. UNCHANGED <<cli, runs, serves, made, lost, spoiled, others, pc, job>>
    BY <1>10 DEF allVars, cliVars, vars
  <2>2. QED
    BY <1>1, <1>2, <1>3, <2>1, AsideKeeps
<1>11. CASE CliNext
  BY <1>2, <1>4, <1>5, <1>6, <1>7, <1>8, <1>9, <1>11 DEF CliNext
<1>12. QED
  BY <1>2, <1>10, <1>11

(* Commands, the requests that serve them and what was published agree.    *)
THEOREM CommandInvariance == CliSpec => []CliIInv
BY InitCommand, NextCommand, PTL DEF CliSpec

(* A client's file is published once for its answer, at most once for      *)
(* every answer that was lost, and once for every refusal that came after  *)
(* the file had been saved; after any other refusal nothing is left of it. *)
THEOREM PublishedOnce == CliSpec => []PublishedOncePerAnswer
<1>1. ASSUME CliIInv PROVE PublishedOncePerAnswer
  <2> SUFFICES ASSUME NEW c \in Clients
               PROVE  Cardinality(made[c]) <= Due(c)
    BY DEF PublishedOncePerAnswer, Due
  <2>1. /\ IsFiniteSet(made[c]) /\ IsFiniteSet(Pending(c)) /\ Due(c) \in Nat
        /\ Cardinality(made[c]) + Cardinality(Pending(c)) <= Due(c)
    BY <1>1, AccountedIs, DueIs DEF CliIInv, CliTypeOK
  <2>2. Cardinality(made[c]) \in Nat /\ Cardinality(Pending(c)) \in Nat
    BY <2>1, FS_CardinalityType
  <2>3. QED
    BY <2>1, <2>2
<1>2. QED
  BY <1>1, CommandInvariance, PTL

(* The version a command is told of was published for the app it named and *)
(* the platform of its file.                                               *)
THEOREM CreatedIsPublished == CliSpec => []CreatedMeansPublished
<1>1. CliIInv => CreatedMeansPublished
  BY DEF CliIInv
<1>2. QED
  BY <1>1, CommandInvariance, PTL

(* The command changes nothing of what is said of pointers: none aliases.  *)
THEOREM CommandKeepsPointers == CliSpec => []CurrentNeverAliases
BY ServesAsCatalog, NoAliases, PTL

(* A download beside it serves its own bytes. *)
THEOREM CommandKeepsDownloads == CliSpec => []DownloadsServeOwnBytes
BY ServesAsCatalog, ServesOwnBytes, PTL

=============================================================================
