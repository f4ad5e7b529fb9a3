------------------------- MODULE SigningCertProofs -------------------------
(* Proofs about SigningCert: IInv is inductive, and implies the rest. *)
EXTENDS SigningCert, SequenceTheorems, TLAPS

-----------------------------------------------------------------------------
(* A step of p, which has begun, that leaves the other requests alone *)

(* A request that had no company idles while another takes a step.         *)
LEMMA OthersIdle ==
    ASSUME Alone, NEW p \in Procs, pc[p] # "idle", NEW q \in Procs, q # p, job[q].alone
    PROVE  pc[q] = "idle"
  BY DEF Alone

LEMMA Moved ==
    ASSUME TypeOK, Alone, NEW p \in Procs, pc[p] # "idle",
           NEW l \in Labels, pc' = [pc EXCEPT ![p] = l],
           NEW j, job' = [job EXCEPT ![p] = j], j.alone = job[p].alone \/ l = "idle"
    PROVE  /\ pc' \in [Procs -> Labels] /\ pc'[p] = l /\ job'[p] = j
           /\ \A q \in Procs \ {p} : pc'[q] = pc[q] /\ job'[q] = job[q]
           /\ Alone'
           /\ \A q \in Procs \ {p} : Private(q)'
<1>1. pc' \in [Procs -> Labels] /\ pc'[p] = l /\ job'[p] = j
  BY DEF TypeOK
<1>2. \A q \in Procs \ {p} : pc'[q] = pc[q] /\ job'[q] = job[q]
  BY DEF TypeOK
<1>3. Alone'
  <2> SUFFICES ASSUME NEW x \in Procs, NEW y \in Procs,
                      pc'[x] # "idle", job'[x].alone, pc'[y] # "idle"
               PROVE  y = x
    BY DEF Alone
  <2>1. pc[x] # "idle" /\ job[x].alone
    BY <1>1, <1>2
  <2>2. pc[y] # "idle"
    BY <1>1, <1>2
  <2> QED
    BY <2>1, <2>2 DEF Alone
<1>4. ASSUME NEW q \in Procs \ {p} PROVE Private(q)'
  <2>1. CASE job'[q].alone
    <3>1. pc'[q] = "idle"
      BY <2>1, <1>2, OthersIdle
    <3> QED
      BY <3>1 DEF Private, Renaming, Reading
  <2> QED
    BY <2>1 DEF Private
<1> QED
  BY <1>1, <1>2, <1>3, <1>4

(* The request ends. *)
LEMMA Finished ==
    ASSUME TypeOK, Alone, NEW p \in Procs, pc[p] # "idle", Finish(p)
    PROVE  /\ pc' \in [Procs -> Labels] /\ pc'[p] = "idle" /\ job'[p] = Blank
           /\ \A q \in Procs \ {p} : pc'[q] = pc[q] /\ job'[q] = job[q]
           /\ Alone' /\ Undisturbed'
<1>1. "idle" \in Labels
  BY DEF Labels
<1>2. /\ pc' \in [Procs -> Labels] /\ pc'[p] = "idle" /\ job'[p] = Blank
      /\ \A q \in Procs \ {p} : pc'[q] = pc[q] /\ job'[q] = job[q]
      /\ Alone'
      /\ \A q \in Procs \ {p} : Private(q)'
  BY <1>1, Moved DEF Finish, Goto
<1>3. Private(p)'
  BY <1>2 DEF Private, Renaming, Reading
<1> QED
  BY <1>2, <1>3 DEF Undisturbed

-----------------------------------------------------------------------------
(* The files *)

LEMMA BlankJob == Blank \in Job
  BY DEF Blank, Job, NoCert, Cert, Half, Inodes

(* An opened file is empty, and no other name sees it. *)
LEMMA Opened ==
    ASSUME TypeOK, NEW p \in Procs, NEW f \in Names, Open(p, f)
    PROVE  /\ data' \in Seq(Contents) /\ Len(data) <= Len(data')
           /\ name' \in [Names -> 0 .. Len(data')]
           /\ \A g, h \in Names : name'[g] = name'[h] => g = h \/ name'[g] = 0
           /\ name'[f] # 0 /\ data'[name'[f]] = Empty
           /\ job' = [job EXCEPT ![p].fd = name'[f]]
           /\ \A g \in Names \ {f} :
                /\ name'[g] = name[g]
                /\ name[g] # 0 => data'[name[g]] = data[name[g]]
<1>0. /\ data \in Seq(Contents) /\ Empty \in Contents /\ Len(data) \in Nat
      /\ name \in [Names -> 0 .. Len(data)]
      /\ \A g, h \in Names : name[g] = name[h] => g = h \/ name[g] = 0
  BY LenProperties DEF TypeOK, Contents, Inodes
<1>1. CASE name[f] # 0
  <2>1. /\ data' = [data EXCEPT ![name[f]] = Empty]
        /\ job' = [job EXCEPT ![p].fd = name[f]]
        /\ name' = name
    BY <1>1 DEF Open
  <2>2. name[f] \in 1 .. Len(data)
    BY <1>0, <1>1
  <2>3. /\ data' \in Seq(Contents) /\ Len(data') = Len(data)
        /\ \A i \in 1 .. Len(data) : data'[i] = IF i = name[f] THEN Empty ELSE data[i]
    BY <1>0, <2>1, <2>2, ExceptSeq
  <2>4. \A g \in Names \ {f} : name[g] # 0 => data'[name[g]] = data[name[g]]
    BY <1>0, <2>3
  <2> QED
    BY <1>0, <1>1, <2>1, <2>2, <2>3, <2>4
<1>2. CASE name[f] = 0
  <2>1. /\ data' = Append(data, Empty)
        /\ name' = [name EXCEPT ![f] = Len(data) + 1]
        /\ job' = [job EXCEPT ![p].fd = Len(data) + 1]
    BY <1>2 DEF Open
  <2>2. /\ data' \in Seq(Contents) /\ Len(data') = Len(data) + 1
        /\ \A i \in 1 .. Len(data) : data'[i] = data[i]
        /\ data'[Len(data) + 1] = Empty
    BY <1>0, <2>1, AppendProperties
  <2>3. name'[f] = Len(data) + 1 /\ \A g \in Names \ {f} : name'[g] = name[g]
    BY <1>0, <2>1
  <2>4. name' \in [Names -> 0 .. Len(data')]
    BY <1>0, <2>1, <2>2
  <2>5. \A g, h \in Names : name'[g] = name'[h] => g = h \/ name'[g] = 0
    BY <1>0, <2>3
  <2>6. \A g \in Names \ {f} : name[g] # 0 => data'[name[g]] = data[name[g]]
    BY <1>0, <2>2
  <2> QED
    BY <1>0, <2>1, <2>2, <2>3, <2>4, <2>5, <2>6
<1> QED
  BY <1>1, <1>2

(* A write changes the open file only, and leaves the pair in one that was *)
(* empty.                                                                  *)
LEMMA Wrote ==
    ASSUME TypeOK, NEW p \in Procs, job[p].fd # 0, job[p].pair \in Pairs, WriteOver(p)
    PROVE  /\ data' \in Seq(Contents) /\ Len(data') = Len(data)
           /\ \A i \in 1 .. Len(data) : i # job[p].fd => data'[i] = data[i]
           /\ data[job[p].fd] = Empty => data'[job[p].fd] = job[p].pair
<1>1. /\ data \in Seq(Contents) /\ Len(data) \in Nat
      /\ job[p].fd \in 1 .. Len(data)
  BY LenProperties DEF TypeOK, Job, Inodes
<1>2. PICK c \in IF data[job[p].fd] = Empty THEN {job[p].pair} ELSE {job[p].pair, Garbled} :
        data' = [data EXCEPT ![job[p].fd] = c]
  BY DEF WriteOver
<1>3. c \in Contents
  BY <1>2 DEF Contents
<1>4. /\ data' \in Seq(Contents) /\ Len(data') = Len(data)
      /\ \A i \in 1 .. Len(data) : data'[i] = IF i = job[p].fd THEN c ELSE data[i]
  BY <1>1, <1>2, <1>3, ExceptSeq
<1> QED
  BY <1>1, <1>2, <1>4

(* Removing names *)
LEMMA Removed ==
    ASSUME TypeOK, NEW fs \in SUBSET Names, Remove(fs)
    PROVE  /\ name' \in [Names -> Inodes]
           /\ \A g, h \in Names : name'[g] = name'[h] => g = h \/ name'[g] = 0
           /\ \A g \in Names : name'[g] = IF g \in fs THEN 0 ELSE name[g]
<1>1. 0 \in Inodes
  BY LenProperties DEF Inodes, TypeOK
<1> QED
  BY <1>1 DEF Remove, TypeOK

(* Renaming one name to another *)
LEMMA Renamed ==
    ASSUME TypeOK, NEW f \in Names, NEW t \in Names, f # t, Rename(f, t)
    PROVE  /\ name' \in [Names -> Inodes]
           /\ \A g, h \in Names : name'[g] = name'[h] => g = h \/ name'[g] = 0
           /\ name'[f] = 0 /\ name'[t] = name[f] /\ name[f] # 0
           /\ \A g \in Names \ {f, t} : name'[g] = name[g]
<1>1. 0 \in Inodes
  BY LenProperties DEF Inodes, TypeOK
<1>2. name' = [name EXCEPT ![t] = name[f], ![f] = 0] /\ name[f] # 0
  BY DEF Rename
<1>3. name'[f] = 0 /\ name'[t] = name[f] /\ \A g \in Names \ {f, t} : name'[g] = name[g]
  BY <1>2 DEF TypeOK
<1>4. name' \in [Names -> Inodes]
  BY <1>1, <1>2 DEF TypeOK
<1>5. \A g, h \in Names : name'[g] = name'[h] => g = h \/ name'[g] = 0
  BY <1>3 DEF TypeOK
<1> QED
  BY <1>2, <1>3, <1>4, <1>5

LEMMA ContentTyped ==
    ASSUME TypeOK, NEW f \in Names
    PROVE  Content(f) \in Contents
<1>1. name[f] \in 0 .. Len(data) /\ Empty \in Contents
  BY DEF TypeOK, Inodes, Contents
<1>2. \A i \in 1 .. Len(data) : data[i] \in Contents
  BY LenProperties DEF TypeOK
<1> QED
  BY <1>1, <1>2, LenProperties DEF TypeOK, Content

(* What the files hold depends on the two names and their inodes. *)
LEMMA SameDisk ==
    ASSUME name'["crt"] = name["crt"], name'["key"] = name["key"],
           name["crt"] # 0 => data'[name["crt"]] = data[name["crt"]],
           name["key"] # 0 => data'[name["key"]] = data[name["key"]]
    PROVE  OnDisk' = OnDisk
  BY DEF OnDisk, Content

-----------------------------------------------------------------------------
(* Uploads: the temporary files *)

LEMMA OpenTempStep ==
    ASSUME IInv, NEW p \in Procs, OpenTemp(p)
    PROVE  IInv'
<1>0. USE DEF Names
<1>1. PICK f \in {"crt.tmp", "key.tmp"}, l \in {"writeCrt", "writeKey"} :
        /\ f = "crt.tmp" => pc[p] = "openCrt" /\ l = "writeCrt"
        /\ f = "key.tmp" => pc[p] = "openKey" /\ l = "writeKey"
        /\ Open(p, f) /\ Goto(p, l)
  BY DEF OpenTemp
<1>2. UNCHANGED <<live, pinned, mode, uploads, crashes, faults, broken>>
  BY DEF OpenTemp, budget
<1>3. TypeOK /\ LiveIsAPair /\ Checked /\ TempsOwned /\ Alone /\ Undisturbed /\ Together
  BY DEF IInv
<1>4. pc[p] # "idle" /\ pc[p] \notin Reading \cup {"renameKey", "removeKey", "clear"} /\ l \in Labels
  BY <1>1 DEF Reading, Labels, Renaming
<1>5. /\ data' \in Seq(Contents) /\ Len(data) <= Len(data')
      /\ name' \in [Names -> 0 .. Len(data')]
      /\ \A g, h \in Names : name'[g] = name'[h] => g = h \/ name'[g] = 0
      /\ name'[f] # 0 /\ data'[name'[f]] = Empty
      /\ job' = [job EXCEPT ![p].fd = name'[f]]
      /\ \A g \in Names \ {f} :
           /\ name'[g] = name[g]
           /\ name[g] # 0 => data'[name[g]] = data[name[g]]
  BY <1>1, <1>3, Opened
<1>6. /\ pc' \in [Procs -> Labels] /\ pc'[p] = l
      /\ job'[p] = [job[p] EXCEPT !.fd = name'[f]]
      /\ \A q \in Procs \ {p} : pc'[q] = pc[q] /\ job'[q] = job[q]
      /\ Alone'
      /\ \A q \in Procs \ {p} : Private(q)'
  <2>1. job[p] \in Job
    BY <1>3 DEF TypeOK
  <2>2. [job[p] EXCEPT !.fd = name'[f]].alone = job[p].alone
    BY <2>1 DEF Job
  <2>3. job' = [job EXCEPT ![p] = [job[p] EXCEPT !.fd = name'[f]]]
    BY <1>5
  <2>4. pc' = [pc EXCEPT ![p] = l]
    BY <1>1 DEF Goto
  <2> HIDE DEF Names
  <2> QED
    BY <1>3, <1>4, <2>2, <2>3, <2>4, Moved
<1>7. /\ job[p] \in Job /\ job'[p].fd = name'[f] /\ job'[p].pair = job[p].pair
      /\ job'[p].got = job[p].got /\ job'[p].alone = job[p].alone
  BY <1>3, <1>6 DEF TypeOK, Job
<1>8. TypeOK'
  <2>1. Len(data) \in Nat /\ Len(data') \in Nat
    BY <1>3, <1>5, LenProperties DEF TypeOK
  <2>2. \A i \in Inodes : i \in Inodes'
    BY <1>5, <2>1 DEF Inodes
  <2>3. ASSUME NEW q \in Procs PROVE job'[q] \in Job'
    <3>1. CASE q = p
      BY <1>5, <1>6, <1>7, <3>1 DEF Job, Inodes
    <3>2. CASE q # p
      BY <1>3, <1>6, <2>2, <3>2 DEF TypeOK, Job
    <3> QED
      BY <3>1, <3>2
  <2>4. job' \in [Procs -> Job']
    BY <1>3, <1>5, <2>3 DEF TypeOK
  <2> QED
    BY <1>2, <1>3, <1>5, <1>6, <2>4 DEF TypeOK, Inodes, Cert, Half, Contents
<1>9. Checked'
  <2>1. job'[p].pair \in Pairs
    BY <1>1, <1>3, <1>7 DEF Checked, Renaming
  <2> QED
    BY <1>1, <1>2, <1>3, <1>4, <1>5, <1>6, <1>7, <2>1 DEF Checked, Renaming, Reading, Matches
<1>10. TempsOwned'
  BY <1>1, <1>2, <1>3, <1>5, <1>6 DEF TempsOwned, Renaming
<1>11. Private(p)'
  <2>1. pc[p] = "openKey" /\ job[p].alone => Holds(p, "crt.tmp")
    BY <1>3 DEF Undisturbed, Private, Renaming
  <2>2. pc[p] = "openKey" /\ job[p].alone => Holds(p, "crt.tmp")'
    BY <1>1, <1>5, <1>7, <2>1 DEF Holds
  <2>3. Fresh(p, f)'
    BY <1>5, <1>7 DEF Fresh
  <2> QED
    BY <1>1, <1>6, <1>7, <2>2, <2>3 DEF Private, Renaming, Reading
<1>12. Together'
  <2>1. OnDisk' = OnDisk
    BY <1>5, SameDisk
  <2> QED
    BY <1>2, <1>3, <1>4, <1>6, <1>7, <2>1 DEF Together
<1> QED
  BY <1>2, <1>3, <1>4, <1>6, <1>8, <1>9, <1>10, <1>11, <1>12
     DEF IInv, Undisturbed, LiveIsAPair, Matches, StartsAgain, Checked

LEMMA WriteTempStep ==
    ASSUME IInv, NEW p \in Procs, WriteTemp(p)
    PROVE  IInv'
<1>0. USE DEF Names
<1>1. PICK f \in {"crt.tmp", "key.tmp"}, l \in {"openKey", "renameCrt"} :
        /\ f = "crt.tmp" => pc[p] = "writeCrt" /\ l = "openKey"
        /\ f = "key.tmp" => pc[p] = "writeKey" /\ l = "renameCrt"
        /\ WriteOver(p) /\ Goto(p, l)
  BY DEF WriteTemp
<1>2. UNCHANGED <<name, live, pinned, mode, job, uploads, crashes, faults, broken>>
  BY DEF WriteTemp, budget
<1>3. TypeOK /\ LiveIsAPair /\ Checked /\ TempsOwned /\ Alone /\ Undisturbed /\ Together
  BY DEF IInv
<1>4. pc[p] # "idle" /\ pc[p] \notin Reading \cup {"renameKey", "removeKey", "clear"} /\ l \in Labels
  BY <1>1 DEF Reading, Labels, Renaming
<1>5. job[p] \in Job /\ job[p].fd # 0 /\ job[p].pair \in Pairs
  BY <1>1, <1>3 DEF Checked, Renaming, TypeOK
<1>6. /\ data' \in Seq(Contents) /\ Len(data') = Len(data)
      /\ \A i \in 1 .. Len(data) : i # job[p].fd => data'[i] = data[i]
      /\ data[job[p].fd] = Empty => data'[job[p].fd] = job[p].pair
  BY <1>1, <1>3, <1>5, Wrote
<1>7. /\ pc' \in [Procs -> Labels] /\ pc'[p] = l /\ job'[p] = job[p]
      /\ \A q \in Procs \ {p} : pc'[q] = pc[q] /\ job'[q] = job[q]
      /\ Alone'
      /\ \A q \in Procs \ {p} : Private(q)'
  <2>1. job' = [job EXCEPT ![p] = job[p]]
    BY <1>2, <1>3 DEF TypeOK
  <2>2. pc' = [pc EXCEPT ![p] = l]
    BY <1>1 DEF Goto
  <2> HIDE DEF Names
  <2> QED
    BY <1>3, <1>4, <2>1, <2>2, Moved
<1>8. TypeOK'
  BY <1>2, <1>3, <1>6, <1>7 DEF TypeOK, Inodes, Job, Cert, Half, Contents
<1>9. Checked'
  BY <1>1, <1>2, <1>3, <1>4, <1>5, <1>7 DEF Checked, Renaming, Reading, Matches
<1>10. TempsOwned'
  BY <1>1, <1>2, <1>3, <1>7 DEF TempsOwned, Renaming
<1>11. ASSUME job[p].alone
       PROVE  /\ Holds(p, f)'
              /\ \A g \in Names \ {f} : name[g] # 0 => data'[name[g]] = data[name[g]]
  <2>1. Fresh(p, f)
    BY <1>1, <1>3, <1>11 DEF Undisturbed, Private
  <2>2. Holds(p, f)'
    BY <1>2, <1>6, <1>7, <2>1 DEF Fresh, Holds
  <2>3. \A g \in Names : name[g] # 0 => name[g] \in 1 .. Len(data)
    BY <1>3, LenProperties DEF TypeOK, Inodes
  <2>4. \A g \in Names \ {f} : name[g] # 0 => name[g] # job[p].fd
    BY <1>3, <2>1 DEF TypeOK, Fresh
  <2> QED
    BY <1>6, <2>2, <2>3, <2>4
<1>12. Private(p)'
  <2>1. pc[p] = "writeKey" /\ job[p].alone => Holds(p, "crt.tmp")
    BY <1>3 DEF Undisturbed, Private, Renaming
  <2>2. pc[p] = "writeKey" /\ job[p].alone => Holds(p, "crt.tmp")'
    BY <1>1, <1>2, <1>7, <1>11, <2>1 DEF Holds
  <2> QED
    BY <1>1, <1>7, <1>11, <2>2 DEF Private, Renaming, Reading
<1>13. Together'
  <2>1. SUFFICES ASSUME ~broken PROVE Together'
    BY <1>2 DEF Together
  <2>2. job[p].alone
    BY <1>3, <1>4, <2>1 DEF Together
  <2>3. OnDisk' = OnDisk
    BY <1>2, <1>11, <2>2, SameDisk
  <2> QED
    BY <1>2, <1>3, <1>4, <1>7, <2>3 DEF Together
<1> QED
  BY <1>2, <1>3, <1>4, <1>7, <1>8, <1>9, <1>10, <1>12, <1>13
     DEF IInv, Undisturbed, LiveIsAPair, Matches, StartsAgain, Checked

(* Ends of a request that leave live and the certificate's names alone     *)
LEMMA EndStep ==
    ASSUME IInv, NEW p \in Procs, pc[p] # "idle", Finish(p),
           name' \in [Names -> Inodes], data' = data,
           \A g, h \in Names : name'[g] = name'[h] => g = h \/ name'[g] = 0,
           UNCHANGED <<live, pinned, mode, uploads, crashes>>,
           faults' \in Nat, faults \in Nat, faults' >= faults,
           broken' \in BOOLEAN, broken => broken',
           broken' \/ (/\ name'["crt"] = name["crt"] /\ name'["key"] = name["key"]
                       /\ pc[p] \notin Reading \cup {"renameKey", "removeKey", "clear"}),
           TempsOwned'
    PROVE  IInv'
<1>1. TypeOK /\ LiveIsAPair /\ Checked /\ Alone /\ Undisturbed /\ Together
  BY DEF IInv
<1>2. /\ pc' \in [Procs -> Labels] /\ pc'[p] = "idle" /\ job'[p] = Blank
      /\ \A q \in Procs \ {p} : pc'[q] = pc[q] /\ job'[q] = job[q]
      /\ Alone' /\ Undisturbed'
  BY <1>1, Finished
<1>3. TypeOK'
  <2>1. job' \in [Procs -> Job]
    BY <1>1, BlankJob DEF TypeOK, Finish
  <2> QED
    BY <1>1, <1>2, <2>1 DEF TypeOK, Inodes, Job, Cert, Half, Contents
<1>4. Checked'
  BY <1>1, <1>2 DEF Checked, Renaming, Reading, Matches
<1>5. Together'
  <2>1. SUFFICES ASSUME ~broken' PROVE Together'
    BY DEF Together
  <2>2. OnDisk' = OnDisk
    BY <2>1, SameDisk
  <2> QED
    BY <1>1, <1>2, <2>1, <2>2 DEF Together
<1> QED
  BY <1>1, <1>2, <1>3, <1>4, <1>5 DEF IInv, LiveIsAPair, Matches, StartsAgain, Checked

LEMMA WriteFailsStep ==
    ASSUME IInv, NEW p \in Procs, WriteFails(p)
    PROVE  IInv'
<1>1. /\ pc[p] \in {"openCrt", "writeCrt", "openKey", "writeKey"}
      /\ name' = name \/ Remove({"crt.tmp"})
      /\ faults' = faults + 1 /\ Finish(p)
      /\ UNCHANGED <<data, live, pinned, mode, uploads, crashes, broken>>
  BY DEF WriteFails, Fault
<1>2. TypeOK
  BY DEF IInv
<1>3. /\ name' \in [Names -> Inodes]
      /\ \A g, h \in Names : name'[g] = name'[h] => g = h \/ name'[g] = 0
      /\ name'["crt"] = name["crt"] /\ name'["key"] = name["key"]
  <2>1. CASE name' = name
    BY <1>2, <2>1 DEF TypeOK
  <2>2. CASE Remove({"crt.tmp"})
    BY <1>2, <2>2, Removed DEF Names
  <2> QED
    BY <1>1, <2>1, <2>2
<1>4. faults \in Nat /\ broken \in BOOLEAN
  BY <1>2 DEF TypeOK
<1>5. TempsOwned'
  BY <1>1, <1>4 DEF TempsOwned
<1>6. pc[p] \notin Reading \cup {"renameKey", "removeKey", "clear"}
  BY <1>1 DEF Reading
<1> QED
  BY <1>1, <1>3, <1>4, <1>5, <1>6, EndStep

-----------------------------------------------------------------------------
(* Uploads: the renames *)

LEMMA RenameCrtStep ==
    ASSUME IInv, NEW p \in Procs, RenameCrt(p)
    PROVE  IInv'
<1>1. /\ pc[p] = "renameCrt" /\ Rename("crt.tmp", "crt") /\ Goto(p, "renameKey")
      /\ UNCHANGED <<data, live, pinned, mode, job, uploads, crashes, faults, broken>>
  BY DEF RenameCrt, budget
<1>2. TypeOK /\ LiveIsAPair /\ Checked /\ TempsOwned /\ Alone /\ Undisturbed /\ Together
  BY DEF IInv
<1>3. /\ name' \in [Names -> Inodes]
      /\ \A g, h \in Names : name'[g] = name'[h] => g = h \/ name'[g] = 0
      /\ name'["crt.tmp"] = 0 /\ name'["crt"] = name["crt.tmp"] /\ name["crt.tmp"] # 0
      /\ name'["key"] = name["key"] /\ name'["key.tmp"] = name["key.tmp"]
  BY <1>1, <1>2, Renamed DEF Names
<1>4. /\ pc' \in [Procs -> Labels] /\ pc'[p] = "renameKey" /\ job'[p] = job[p]
      /\ \A q \in Procs \ {p} : pc'[q] = pc[q] /\ job'[q] = job[q]
      /\ Alone'
      /\ \A q \in Procs \ {p} : Private(q)'
  <2>1. job' = [job EXCEPT ![p] = job[p]] /\ pc' = [pc EXCEPT ![p] = "renameKey"]
    BY <1>1, <1>2 DEF TypeOK, Goto
  <2>2. "renameKey" \in Labels
    BY DEF Labels
  <2> QED
    BY <1>1, <1>2, <2>1, <2>2, Moved
<1>5. TypeOK'
  BY <1>1, <1>2, <1>3, <1>4 DEF TypeOK, Inodes, Job, Cert, Half, Contents
<1>6. Checked'
  BY <1>1, <1>2, <1>4 DEF Checked, Renaming, Reading, Matches
<1>7. TempsOwned'
  BY <1>1, <1>2, <1>3, <1>4 DEF TempsOwned, Renaming
<1>8. Private(p)'
  <2>1. job[p].alone => Holds(p, "crt.tmp") /\ Holds(p, "key.tmp")
    BY <1>1, <1>2 DEF Undisturbed, Private, Renaming
  <2>2. job[p].alone => Holds(p, "crt")' /\ Holds(p, "key.tmp")'
    BY <1>1, <1>3, <1>4, <2>1 DEF Holds
  <2> QED
    BY <1>4, <2>2 DEF Private, Renaming, Reading
<1>9. Together'
  <2>1. ~broken => \A q \in Procs : pc'[q] # "idle" => job'[q].alone
    BY <1>1, <1>2, <1>4 DEF Together
  <2> QED
    BY <1>1, <1>4, <2>1 DEF Together
<1> QED
  BY <1>1, <1>2, <1>4, <1>5, <1>6, <1>7, <1>8, <1>9
     DEF IInv, Undisturbed, LiveIsAPair, Matches, StartsAgain, Checked

LEMMA RenameKeyStep ==
    ASSUME IInv, NEW p \in Procs, RenameKey(p)
    PROVE  IInv'
<1>1. /\ pc[p] = "renameKey" /\ Rename("key.tmp", "key") /\ Goto(p, "readCrt")
      /\ UNCHANGED <<data, live, pinned, mode, job, uploads, crashes, faults, broken>>
  BY DEF RenameKey, budget
<1>2. TypeOK /\ LiveIsAPair /\ Checked /\ TempsOwned /\ Alone /\ Undisturbed /\ Together
  BY DEF IInv
<1>3. /\ name' \in [Names -> Inodes]
      /\ \A g, h \in Names : name'[g] = name'[h] => g = h \/ name'[g] = 0
      /\ name'["key.tmp"] = 0 /\ name'["key"] = name["key.tmp"] /\ name["key.tmp"] # 0
      /\ name'["crt"] = name["crt"] /\ name'["crt.tmp"] = name["crt.tmp"]
  BY <1>1, <1>2, Renamed DEF Names
<1>4. /\ pc' \in [Procs -> Labels] /\ pc'[p] = "readCrt" /\ job'[p] = job[p]
      /\ \A q \in Procs \ {p} : pc'[q] = pc[q] /\ job'[q] = job[q]
      /\ Alone'
      /\ \A q \in Procs \ {p} : Private(q)'
  <2>1. job' = [job EXCEPT ![p] = job[p]] /\ pc' = [pc EXCEPT ![p] = "readCrt"]
    BY <1>1, <1>2 DEF TypeOK, Goto
  <2>2. "readCrt" \in Labels
    BY DEF Labels, Reading
  <2> QED
    BY <1>1, <1>2, <2>1, <2>2, Moved
<1>5. TypeOK'
  BY <1>1, <1>2, <1>3, <1>4 DEF TypeOK, Inodes, Job, Cert, Half, Contents
<1>6. Checked'
  BY <1>1, <1>2, <1>4 DEF Checked, Renaming, Reading, Matches
<1>7. TempsOwned'
  BY <1>1, <1>2, <1>3, <1>4 DEF TempsOwned, Renaming
<1>8. Private(p)'
  <2>1. job[p].alone => Holds(p, "crt") /\ Holds(p, "key.tmp")
    BY <1>1, <1>2 DEF Undisturbed, Private, Renaming, Reading
  <2>2. job[p].alone => Holds(p, "crt")' /\ Holds(p, "key")'
    BY <1>1, <1>3, <1>4, <2>1 DEF Holds
  <2> QED
    BY <1>4, <2>2 DEF Private, Renaming, Reading
<1>9. Together'
  <2>1. ~broken => \A q \in Procs : pc'[q] # "idle" => job'[q].alone
    BY <1>1, <1>2, <1>4 DEF Together
  <2> QED
    BY <1>1, <1>4, <2>1 DEF Together, Reading
<1> QED
  BY <1>1, <1>2, <1>4, <1>5, <1>6, <1>7, <1>8, <1>9
     DEF IInv, Undisturbed, LiveIsAPair, Matches, StartsAgain, Checked

LEMMA RenameFailsStep ==
    ASSUME IInv, NEW p \in Procs, RenameCrtFails(p) \/ RenameKeyFails(p)
    PROVE  IInv'
<1>1. PICK fs \in {{"crt.tmp", "key.tmp"}, {"key.tmp"}} :
        /\ fs = {"crt.tmp", "key.tmp"} => pc[p] = "renameCrt" /\ broken' = broken
        /\ fs = {"key.tmp"} => pc[p] = "renameKey" /\ broken' = TRUE
        /\ Remove(fs) /\ Finish(p)
  BY DEF RenameCrtFails, RenameKeyFails
<1>2. /\ UNCHANGED <<data, live, pinned, mode, uploads, crashes>>
      /\ faults' = faults \/ faults' = faults + 1
  BY DEF RenameCrtFails, RenameKeyFails, Fault
<1>3. TypeOK /\ TempsOwned /\ Alone
  BY DEF IInv
<1>4. /\ name' \in [Names -> Inodes]
      /\ \A g, h \in Names : name'[g] = name'[h] => g = h \/ name'[g] = 0
      /\ name'["crt"] = name["crt"] /\ name'["key"] = name["key"]
      /\ name'["key.tmp"] = 0
      /\ fs = {"crt.tmp", "key.tmp"} => name'["crt.tmp"] = 0
      /\ fs = {"key.tmp"} => name'["crt.tmp"] = name["crt.tmp"]
  BY <1>1, <1>3, Removed DEF Names
<1>5. faults \in Nat /\ broken \in BOOLEAN
  BY <1>3 DEF TypeOK
<1>6. pc'[p] = "idle" /\ \A q \in Procs \ {p} : pc'[q] = pc[q]
  BY <1>1, <1>3 DEF Finish, Goto, TypeOK
<1>7. TempsOwned'
  <2>1. CASE fs = {"crt.tmp", "key.tmp"}
    BY <1>4, <2>1 DEF TempsOwned
  <2>2. CASE fs = {"key.tmp"}
    <3>1. crashes' = 0 /\ faults' = 0 => crashes = 0 /\ faults = 0
      BY <1>2, <1>5
    <3>2. crashes' = 0 /\ faults' = 0 /\ name'["crt.tmp"] # 0 => \E q \in Procs : pc[q] \in Renaming
      BY <1>3, <1>4, <2>2, <3>1 DEF TempsOwned
    <3>3. pc[p] \notin Renaming
      BY <1>1, <2>2 DEF Renaming
    <3> QED
      BY <1>4, <1>6, <3>2, <3>3 DEF TempsOwned
  <2> QED
    BY <1>1, <2>1, <2>2
<1>8. broken' \/ (/\ name'["crt"] = name["crt"] /\ name'["key"] = name["key"]
                  /\ pc[p] \notin Reading \cup {"renameKey", "removeKey", "clear"})
  <2>1. CASE fs = {"crt.tmp", "key.tmp"}
    BY <1>1, <1>4, <2>1 DEF Reading
  <2>2. CASE fs = {"key.tmp"}
    BY <1>1, <2>2
  <2> QED
    BY <2>1, <2>2
<1>9. broken' \in BOOLEAN /\ (broken => broken')
  <2>1. CASE fs = {"crt.tmp", "key.tmp"}
    BY <1>1, <1>5, <2>1
  <2>2. CASE fs = {"key.tmp"}
    BY <1>1, <2>2
  <2> QED
    BY <2>1, <2>2
<1>10. pc[p] # "idle" /\ faults' \in Nat /\ faults' >= faults
  BY <1>1, <1>2, <1>5
<1> QED
  BY <1>1, <1>10, <1>2, <1>4, <1>5, <1>7, <1>8, <1>9, EndStep

-----------------------------------------------------------------------------
(* Uploads: the hot reload *)

LEMMA ReadCrtStep ==
    ASSUME IInv, NEW p \in Procs, ReadCrt(p)
    PROVE  IInv'
<1> DEFINE got == [crt |-> Content("crt"), key |-> NoPair]
<1>1. /\ pc[p] = "readCrt" /\ Goto(p, "readKey")
      /\ job' = [job EXCEPT ![p].got = got]
      /\ UNCHANGED <<name, data, live, pinned, mode, uploads, crashes, faults, broken>>
  BY DEF ReadCrt, budget, disk
<1>2. TypeOK /\ LiveIsAPair /\ Checked /\ TempsOwned /\ Alone /\ Undisturbed /\ Together
  BY DEF IInv
<1>3. got \in Cert /\ got.crt = Content("crt")
  BY <1>2, ContentTyped DEF Cert, Half, Names
<1> HIDE DEF got
<1>4. job[p] \in Job
  BY <1>2 DEF TypeOK
<1>5. /\ pc' \in [Procs -> Labels] /\ pc'[p] = "readKey"
      /\ job'[p] = [job[p] EXCEPT !.got = got]
      /\ \A q \in Procs \ {p} : pc'[q] = pc[q] /\ job'[q] = job[q]
      /\ Alone'
      /\ \A q \in Procs \ {p} : Private(q)'
  <2>1. /\ job' = [job EXCEPT ![p] = [job[p] EXCEPT !.got = got]]
        /\ pc' = [pc EXCEPT ![p] = "readKey"]
        /\ [job[p] EXCEPT !.got = got].alone = job[p].alone
    BY <1>1, <1>4 DEF Goto, Job
  <2>2. "readKey" \in Labels
    BY DEF Labels, Reading
  <2> QED
    BY <1>1, <1>2, <2>1, <2>2, Moved
<1>6. /\ job'[p] \in Job /\ job'[p].got = got /\ job'[p].pair = job[p].pair
      /\ job'[p].alone = job[p].alone
  BY <1>3, <1>4, <1>5 DEF Job
<1>7. TypeOK'
  <2>1. job' \in [Procs -> Job]
    BY <1>1, <1>2, <1>5, <1>6 DEF TypeOK
  <2> QED
    BY <1>1, <1>2, <1>5, <2>1 DEF TypeOK, Inodes, Job, Cert, Half, Contents
<1>8. Checked'
  BY <1>1, <1>2, <1>5, <1>6 DEF Checked, Renaming, Reading, Matches
<1>9. TempsOwned'
  BY <1>1, <1>2, <1>5 DEF TempsOwned, Renaming
<1>10. Private(p)'
  <2>1. job[p].alone => Holds(p, "crt") /\ Holds(p, "key")
    BY <1>1, <1>2 DEF Undisturbed, Private, Renaming, Reading
  <2>2. job[p].alone => Holds(p, "crt")' /\ Holds(p, "key")' /\ got.crt = job[p].pair
    BY <1>1, <1>3, <1>6, <2>1 DEF Holds, Content
  <2> QED
    BY <1>5, <1>6, <2>2 DEF Private, Renaming, Reading
<1>11. Together'
  <2>1. ~broken => \A q \in Procs : pc'[q] # "idle" => job'[q].alone
    BY <1>1, <1>2, <1>5, <1>6 DEF Together
  <2> QED
    BY <1>1, <1>5, <2>1 DEF Together, Reading
<1> QED
  BY <1>1, <1>2, <1>5, <1>7, <1>8, <1>9, <1>10, <1>11
     DEF IInv, Undisturbed, LiveIsAPair, Matches, StartsAgain, Checked

LEMMA ReadKeyStep ==
    ASSUME IInv, NEW p \in Procs, ReadKey(p)
    PROVE  IInv'
<1> DEFINE got == [job[p].got EXCEPT !.key = Content("key")]
<1>1. /\ pc[p] = "readKey"
      /\ UNCHANGED <<name, data, live, pinned, mode, uploads, crashes, faults, broken>>
  BY DEF ReadKey, budget, disk
<1>2. TypeOK /\ LiveIsAPair /\ Checked /\ TempsOwned /\ Alone /\ Undisturbed /\ Together
  BY DEF IInv
<1>3. job[p] \in Job
  BY <1>2 DEF TypeOK
<1>4. got \in Cert /\ got.crt = job[p].got.crt /\ got.key = Content("key")
  <2>1. job[p].got \in Cert
    BY <1>3 DEF Job
  <2>2. Content("key") \in Half
    BY <1>2, ContentTyped DEF Names, Half
  <2> QED
    BY <2>1, <2>2 DEF Cert
<1>5. job[p].alone => /\ Holds(p, "crt") /\ Holds(p, "key")
                      /\ got.crt = job[p].pair /\ got.key = job[p].pair
                      /\ Matches(got)
  <2>1. job[p].alone => Holds(p, "crt") /\ Holds(p, "key") /\ job[p].got.crt = job[p].pair
    BY <1>1, <1>2 DEF Undisturbed, Private, Reading
  <2>2. job[p].pair \in Pairs
    BY <1>1, <1>2 DEF Checked, Reading
  <2> QED
    BY <1>4, <2>1, <2>2 DEF Holds, Content, Matches
<1>6. CASE Matches(got)
  <2>1. Goto(p, "install") /\ job' = [job EXCEPT ![p].got = got]
    BY <1>6 DEF ReadKey
  <2> HIDE DEF got
  <2>2. /\ pc' \in [Procs -> Labels] /\ pc'[p] = "install"
        /\ job'[p] = [job[p] EXCEPT !.got = got]
        /\ \A q \in Procs \ {p} : pc'[q] = pc[q] /\ job'[q] = job[q]
        /\ Alone'
        /\ \A q \in Procs \ {p} : Private(q)'
    <3>1. /\ job' = [job EXCEPT ![p] = [job[p] EXCEPT !.got = got]]
          /\ pc' = [pc EXCEPT ![p] = "install"]
          /\ [job[p] EXCEPT !.got = got].alone = job[p].alone
      BY <1>3, <2>1 DEF Goto, Job
    <3>2. "install" \in Labels
      BY DEF Labels, Reading
    <3> QED
      BY <1>1, <1>2, <3>1, <3>2, Moved
  <2>3. /\ job'[p] \in Job /\ job'[p].got = got /\ job'[p].pair = job[p].pair
        /\ job'[p].alone = job[p].alone
    BY <1>3, <1>4, <2>2 DEF Job
  <2>4. TypeOK'
    <3>1. job' \in [Procs -> Job]
      BY <1>2, <2>1, <2>2, <2>3 DEF TypeOK
    <3> QED
      BY <1>1, <1>2, <2>2, <3>1 DEF TypeOK, Inodes, Job, Cert, Half, Contents
  <2>5. Checked'
    BY <1>1, <1>2, <1>6, <2>2, <2>3 DEF Checked, Renaming, Reading, Matches
  <2>6. TempsOwned'
    BY <1>1, <1>2, <2>2 DEF TempsOwned, Renaming
  <2>7. Private(p)'
    <3>1. job[p].alone => Holds(p, "crt")' /\ Holds(p, "key")'
      BY <1>1, <1>5, <2>3 DEF Holds
    <3> QED
      BY <1>5, <2>2, <2>3, <3>1 DEF Private, Renaming, Reading
  <2>8. Together'
    <3>1. ~broken => \A q \in Procs : pc'[q] # "idle" => job'[q].alone
      BY <1>1, <1>2, <2>2, <2>3 DEF Together
    <3> QED
      BY <1>1, <2>2, <3>1 DEF Together, Reading
  <2> QED
    BY <1>1, <1>2, <2>2, <2>4, <2>5, <2>6, <2>7, <2>8
       DEF IInv, Undisturbed, LiveIsAPair, Matches, StartsAgain, Checked
<1>7. CASE ~Matches(got)
  <2>1. Finish(p)
    BY <1>7 DEF ReadKey
  <2>2. broken
    BY <1>1, <1>2, <1>5, <1>7 DEF Together
  <2>3. name' \in [Names -> Inodes] /\ \A g, h \in Names : name'[g] = name'[h] => g = h \/ name'[g] = 0
    BY <1>1, <1>2 DEF TypeOK
  <2>4. pc'[p] = "idle" /\ \A q \in Procs \ {p} : pc'[q] = pc[q]
    BY <1>2, <2>1 DEF Finish, Goto, TypeOK
  <2>5. TempsOwned'
    BY <1>1, <1>2, <2>4 DEF TempsOwned, Renaming
  <2>6. faults \in Nat /\ broken \in BOOLEAN
    BY <1>2 DEF TypeOK
  <2> QED
    BY <1>1, <2>1, <2>2, <2>3, <2>5, <2>6, EndStep
<1> QED
  BY <1>6, <1>7

LEMMA ReloadFailsStep ==
    ASSUME IInv, NEW p \in Procs, ReloadFails(p)
    PROVE  IInv'
<1>1. /\ pc[p] \in {"readCrt", "readKey"} /\ Finish(p)
      /\ faults' = faults + 1 /\ broken' = TRUE
      /\ UNCHANGED <<name, data, live, pinned, mode, uploads, crashes>>
  BY DEF ReloadFails, Fault, disk
<1>2. TypeOK
  BY DEF IInv
<1>3. name' \in [Names -> Inodes] /\ \A g, h \in Names : name'[g] = name'[h] => g = h \/ name'[g] = 0
  BY <1>1, <1>2 DEF TypeOK
<1>4. faults \in Nat
  BY <1>2 DEF TypeOK
<1>5. TempsOwned'
  BY <1>1, <1>4 DEF TempsOwned
<1> QED
  BY <1>1, <1>3, <1>4, <1>5, EndStep

(* Installing, and clearing, what is in memory *)
LEMMA InstallStep ==
    ASSUME IInv, NEW p \in Procs, Install(p) \/ ClearLive(p)
    PROVE  IInv'
<1>1. /\ pc[p] \in {"install", "clear"} /\ Finish(p)
      /\ UNCHANGED <<name, data, pinned, mode, uploads, crashes, faults>>
      /\ live' = IF pc[p] = "install" THEN job[p].got ELSE NoCert
      /\ broken' = (broken /\ (pc[p] = "install" => ~job[p].alone))
  BY DEF Install, ClearLive, disk, budget, IInv, TypeOK
<1>2. TypeOK /\ Checked /\ TempsOwned /\ Alone /\ Undisturbed /\ Together
  BY DEF IInv
<1>3. /\ pc' \in [Procs -> Labels] /\ pc'[p] = "idle" /\ job'[p] = Blank
      /\ \A q \in Procs \ {p} : pc'[q] = pc[q] /\ job'[q] = job[q]
      /\ Alone' /\ Undisturbed'
  BY <1>1, <1>2, Finished
<1>4. live' \in Cert
  BY <1>1, <1>2 DEF TypeOK, Job, Cert, NoCert, Half
<1>5. TypeOK'
  <2>1. job' \in [Procs -> Job]
    BY <1>1, <1>2, BlankJob DEF TypeOK, Finish
  <2>2. broken' \in BOOLEAN
    BY <1>1, <1>2 DEF TypeOK
  <2> QED
    BY <1>1, <1>2, <1>3, <1>4, <2>1, <2>2 DEF TypeOK, Inodes, Job, Cert, Half, Contents
<1>6. LiveIsAPair'
  BY <1>1, <1>2 DEF LiveIsAPair, Checked, Matches
<1>7. Checked'
  BY <1>1, <1>2, <1>3 DEF Checked, Renaming, Reading, Matches
<1>8. TempsOwned'
  BY <1>1, <1>2, <1>3 DEF TempsOwned, Renaming
<1>9. Together'
  <2>1. SUFFICES ASSUME ~broken' PROVE Together'
    BY DEF Together
  <2>2. job[p].alone
    BY <1>1, <1>2, <2>1 DEF Together
  <2>3. \A q \in Procs : pc'[q] = "idle"
    BY <1>1, <1>2, <1>3, <2>2 DEF Alone
  <2>4. OnDisk' = OnDisk
    BY <1>1, SameDisk
  <2>5. CASE pc[p] = "install"
    <3>1. Holds(p, "crt") /\ Holds(p, "key") /\ job[p].got.crt = job[p].pair
      BY <1>2, <2>2, <2>5 DEF Undisturbed, Private, Reading
    <3>2. job[p].got.key = job[p].pair /\ job[p].got \in Cert
      BY <1>2, <2>5, <3>1 DEF Checked, Matches, TypeOK, Job
    <3>3. OnDisk = job[p].got
      BY <3>1, <3>2 DEF OnDisk, Content, Holds, Cert
    <3> QED
      BY <1>1, <2>3, <2>4, <2>5, <3>3 DEF Together
  <2>6. CASE pc[p] = "clear"
    <3>1. name["crt"] = 0
      BY <1>2, <2>2, <2>6 DEF Undisturbed, Private
    <3>2. OnDisk = NoCert
      BY <3>1 DEF OnDisk
    <3> QED
      BY <1>1, <2>3, <2>4, <2>6, <3>2 DEF Together
  <2> QED
    BY <1>1, <2>5, <2>6
<1> QED
  BY <1>1, <1>2, <1>3, <1>5, <1>6, <1>7, <1>8, <1>9 DEF IInv, StartsAgain, Checked

-----------------------------------------------------------------------------
(* Beginnings *)

LEMMA BeginStep ==
    ASSUME IInv, NEW p \in Procs, NEW l \in {"openCrt", "removeCrt"},
           NEW c \in Pairs \cup {NoPair}, l = "openCrt" => c \in Pairs, Begin(p, l, c),
           uploads' \in Nat, UNCHANGED <<name, data, live, pinned, mode, crashes, faults>>
    PROVE  IInv'
<1> DEFINE busy == {q \in Procs : pc[q] # "idle"}
           first == [Blank EXCEPT !.pair = c, !.alone = (busy = {})]
<1>1. /\ mode = "serving" /\ pc[p] = "idle" /\ pc' = [pc EXCEPT ![p] = l]
      /\ job' = [q \in Procs |-> IF q = p THEN first ELSE [job[q] EXCEPT !.alone = FALSE]]
      /\ broken' = (broken \/ busy # {})
  BY DEF Begin, Goto
<1>2. TypeOK /\ LiveIsAPair /\ Checked /\ TempsOwned /\ Alone /\ Undisturbed /\ Together
  BY DEF IInv
<1>3. first \in Job /\ first.pair = c /\ first.fd = 0 /\ first.alone = (busy = {})
  BY BlankJob DEF Blank, Job
<1>4. (busy = {}) <=> \A q \in Procs : pc[q] = "idle"
  OBVIOUS
<1> HIDE DEF busy, first
<1>5. pc' \in [Procs -> Labels] /\ pc'[p] = l /\ \A q \in Procs \ {p} : pc'[q] = pc[q]
  BY <1>1, <1>2 DEF TypeOK, Labels
<1>6. ASSUME NEW q \in Procs \ {p}
      PROVE  /\ job'[q] \in Job /\ job'[q].alone = FALSE
             /\ job'[q].pair = job[q].pair /\ job'[q].fd = job[q].fd /\ job'[q].got = job[q].got
  <2>1. job[q] \in Job
    BY <1>2 DEF TypeOK
  <2>2. job'[q] = [job[q] EXCEPT !.alone = FALSE]
    BY <1>1
  <2> QED
    BY <2>1, <2>2 DEF Job
<1>7. job'[p] = first
  BY <1>1
<1>8. TypeOK'
  <2>1. job' \in [Procs -> Job]
    <3>1. \A q \in Procs : job'[q] \in Job
      BY <1>3, <1>6, <1>7
    <3>2. job' = [q \in Procs |-> job'[q]]
      BY <1>1
    <3> QED
      BY <3>1, <3>2
  <2>2. broken' \in BOOLEAN
    BY <1>1, <1>2 DEF TypeOK
  <2> QED
    BY <1>1, <1>2, <1>5, <2>1, <2>2 DEF TypeOK, Inodes, Job, Cert, Half, Contents
<1>9. Checked'
  BY <1>1, <1>2, <1>3, <1>5, <1>6, <1>7 DEF Checked, Renaming, Reading, Matches
<1>10. TempsOwned'
  BY <1>1, <1>2, <1>5 DEF TempsOwned, Renaming
<1>11. Alone'
  <2> SUFFICES ASSUME NEW x \in Procs, NEW y \in Procs,
                      pc'[x] # "idle", job'[x].alone, pc'[y] # "idle"
               PROVE  y = x
    BY DEF Alone
  <2>1. x = p /\ busy = {}
    BY <1>3, <1>6, <1>7
  <2> QED
    BY <1>4, <1>5, <2>1
<1>12. Undisturbed'
  BY <1>5, <1>6 DEF Undisturbed, Private, Renaming, Reading
<1>13. Together'
  <2>1. SUFFICES ASSUME ~broken' PROVE Together'
    BY DEF Together
  <2>2. ~broken /\ \A q \in Procs : pc[q] = "idle"
    BY <1>1, <1>4, <2>1
  <2>3. OnDisk' = OnDisk
    BY SameDisk
  <2>4. \A q \in Procs : pc'[q] # "idle" => job'[q].alone
    BY <1>3, <1>4, <1>5, <1>7, <2>2
  <2>5. pinned = NoPair => OnDisk = live
    BY <1>1, <1>2, <2>2 DEF Together, Reading
  <2> QED
    BY <2>3, <2>4, <2>5 DEF Together
<1> QED
  BY <1>1, <1>2, <1>8, <1>9, <1>10, <1>11, <1>12, <1>13
     DEF IInv, LiveIsAPair, Matches, StartsAgain

-----------------------------------------------------------------------------
(* Removal *)

LEMMA RemoveHalfStep ==
    ASSUME IInv, NEW p \in Procs, RemoveHalf(p)
    PROVE  IInv'
<1>1. PICK f \in {"crt", "key"}, l \in {"removeKey", "clear"} :
        /\ f = "crt" => pc[p] = "removeCrt" /\ l = "removeKey"
        /\ f = "key" => pc[p] = "removeKey" /\ l = "clear"
        /\ Remove({f}) /\ Goto(p, l)
  BY DEF RemoveHalf
<1>2. UNCHANGED <<data, live, pinned, mode, job, uploads, crashes, faults, broken>>
  BY DEF RemoveHalf, budget
<1>3. TypeOK /\ LiveIsAPair /\ Checked /\ TempsOwned /\ Alone /\ Undisturbed /\ Together
  BY DEF IInv
<1>4. pc[p] # "idle" /\ pc[p] \notin Renaming \cup {"renameKey"} /\ l \in Labels
  BY <1>1 DEF Renaming, Labels
<1>5. /\ name' \in [Names -> Inodes]
      /\ \A g, h \in Names : name'[g] = name'[h] => g = h \/ name'[g] = 0
      /\ name'[f] = 0
      /\ name'["crt"] = name["crt"] \/ name'["crt"] = 0
      /\ name'["crt.tmp"] = name["crt.tmp"] /\ name'["key.tmp"] = name["key.tmp"]
  <2>1. {f} \in SUBSET Names
    BY DEF Names
  <2> QED
    BY <1>1, <1>3, <2>1, Removed DEF Names
<1>6. /\ pc' \in [Procs -> Labels] /\ pc'[p] = l /\ job'[p] = job[p]
      /\ \A q \in Procs \ {p} : pc'[q] = pc[q] /\ job'[q] = job[q]
      /\ Alone'
      /\ \A q \in Procs \ {p} : Private(q)'
  <2>1. job' = [job EXCEPT ![p] = job[p]] /\ pc' = [pc EXCEPT ![p] = l]
    BY <1>1, <1>2, <1>3 DEF TypeOK, Goto
  <2> QED
    BY <1>3, <1>4, <2>1, Moved
<1>7. TypeOK'
  BY <1>2, <1>3, <1>5, <1>6 DEF TypeOK, Inodes, Job, Cert, Half, Contents
<1>8. Checked'
  BY <1>1, <1>2, <1>3, <1>4, <1>6 DEF Checked, Renaming, Reading, Matches
<1>9. TempsOwned'
  BY <1>1, <1>2, <1>3, <1>4, <1>5, <1>6 DEF TempsOwned, Renaming
<1>10. Private(p)'
  <2>1. job[p].alone /\ pc[p] = "removeKey" => name["crt"] = 0
    BY <1>3 DEF Undisturbed, Private
  <2>2. job[p].alone => name'["crt"] = 0
    BY <1>1, <1>5, <2>1
  <2> QED
    BY <1>1, <1>6, <2>2 DEF Private, Renaming, Reading
<1>11. Together'
  <2>1. ~broken => \A q \in Procs : pc'[q] # "idle" => job'[q].alone
    BY <1>3, <1>4, <1>6 DEF Together
  <2> QED
    BY <1>2, <1>6, <2>1 DEF Together
<1> QED
  BY <1>2, <1>3, <1>4, <1>6, <1>7, <1>8, <1>9, <1>10, <1>11
     DEF IInv, Undisturbed, LiveIsAPair, Matches, StartsAgain, Checked

LEMMA RemoveFailsStep ==
    ASSUME IInv, NEW p \in Procs, RemoveFails(p)
    PROVE  IInv'
<1>1. /\ pc[p] \in {"removeCrt", "removeKey"} /\ Finish(p)
      /\ faults' = faults + 1 /\ broken' = (broken \/ pc[p] = "removeKey")
      /\ UNCHANGED <<name, data, live, pinned, mode, uploads, crashes>>
  BY DEF RemoveFails, Fault, disk
<1>2. TypeOK
  BY DEF IInv
<1>3. name' \in [Names -> Inodes] /\ \A g, h \in Names : name'[g] = name'[h] => g = h \/ name'[g] = 0
  BY <1>1, <1>2 DEF TypeOK
<1>4. faults \in Nat /\ broken \in BOOLEAN
  BY <1>2 DEF TypeOK
<1>5. TempsOwned'
  BY <1>1, <1>4 DEF TempsOwned
<1>6. broken' \/ pc[p] \notin Reading \cup {"renameKey", "removeKey", "clear"}
  BY <1>1 DEF Reading
<1>7. broken' \in BOOLEAN /\ (broken => broken')
  BY <1>1, <1>4
<1> QED
  BY <1>1, <1>3, <1>4, <1>5, <1>6, <1>7, EndStep

-----------------------------------------------------------------------------
(* A kill and the next start *)

LEMMA CrashStep ==
    ASSUME IInv, Crash
    PROVE  IInv'
<1>1. /\ crashes' = crashes + 1 /\ mode = "serving" /\ mode' = "down" /\ live' = NoCert
      /\ pc' = [p \in Procs |-> "idle"] /\ job' = [p \in Procs |-> Blank]
      /\ broken' = (broken \/ \E p \in Procs : pc[p] = "renameKey")
      /\ UNCHANGED <<name, data, pinned, uploads, faults>>
  BY DEF Crash, disk
<1>2. TypeOK /\ LiveIsAPair /\ Checked /\ Undisturbed /\ Together
  BY DEF IInv
<1>3. TypeOK'
  <2>1. live' \in Cert /\ pc' \in [Procs -> Labels] /\ job' \in [Procs -> Job]
    BY <1>1, BlankJob DEF NoCert, Cert, Half, Labels
  <2>2. broken' \in BOOLEAN /\ crashes' \in Nat
    BY <1>1, <1>2 DEF TypeOK
  <2> QED
    BY <1>1, <1>2, <2>1, <2>2 DEF TypeOK, Inodes, Job, Cert, Half, Contents
<1>4. LiveIsAPair' /\ Checked' /\ Alone' /\ Undisturbed'
  BY <1>1 DEF LiveIsAPair, Checked, Alone, Undisturbed, Private, Renaming, Reading
<1>5. TempsOwned'
  BY <1>1, <1>2 DEF TempsOwned, TypeOK
<1>6. Together'
  BY <1>1 DEF Together
<1>7. StartsAgain'
  <2>1. SUFFICES ASSUME ~broken', pinned = NoPair PROVE Loads
    <3>1. OnDisk' = OnDisk
      BY <1>1, SameDisk
    <3> QED
      BY <1>1, <3>1, <2>1 DEF StartsAgain, Loads, Matches
  <2>2. ~broken /\ \A p \in Procs : pc[p] # "renameKey"
    BY <1>1, <2>1
  <2>3. CASE OnDisk = live
    BY <1>2, <2>3 DEF LiveIsAPair, Loads
  <2>4. ASSUME NEW p \in Procs, pc[p] \in Reading \cup {"removeKey", "clear"} PROVE Loads
    <3>1. job[p].alone
      BY <1>2, <2>2, <2>4 DEF Together, Reading
    <3>2. CASE pc[p] \in Reading
      <4>1. Holds(p, "crt") /\ Holds(p, "key") /\ job[p].pair \in Pairs
        BY <1>2, <3>1, <3>2 DEF Undisturbed, Private, Checked
      <4> QED
        BY <4>1 DEF Holds, Loads, OnDisk, Content, Matches
    <3>3. CASE pc[p] \in {"removeKey", "clear"}
      <4>1. name["crt"] = 0
        BY <1>2, <3>1, <3>3 DEF Undisturbed, Private
      <4> QED
        BY <4>1 DEF Loads, OnDisk
    <3> QED
      BY <2>4, <3>2, <3>3
  <2> QED
    BY <1>1, <1>2, <2>1, <2>2, <2>3, <2>4 DEF Together
<1> QED
  BY <1>3, <1>4, <1>5, <1>6, <1>7 DEF IInv

LEMMA BootStep ==
    ASSUME IInv, Boot
    PROVE  IInv'
<1>1. /\ mode = "down" /\ mode' = "serving"
      /\ UNCHANGED <<name, data, pinned, pc, job, uploads, crashes, faults, broken>>
      /\ \/ pinned # NoPair /\ live' = [crt |-> pinned, key |-> pinned]
         \/ pinned = NoPair /\ Loads /\ live' = OnDisk
  BY DEF Boot, disk, budget
<1>2. TypeOK /\ Checked /\ TempsOwned /\ Alone /\ Undisturbed /\ Together
  BY DEF IInv
<1>3. LiveIsAPair' /\ live' \in Cert
  <2>1. CASE pinned # NoPair /\ live' = [crt |-> pinned, key |-> pinned]
    BY <1>2, <2>1 DEF TypeOK, LiveIsAPair, Matches, Cert, Half, Contents
  <2>2. CASE Loads /\ live' = OnDisk
    <3>1. OnDisk = NoCert \/ Matches(OnDisk)
      BY <2>2 DEF Loads
    <3>2. OnDisk \in Cert
      BY <1>2, ContentTyped DEF OnDisk, NoCert, Cert, Half, Names
    <3> QED
      BY <2>2, <3>1, <3>2 DEF LiveIsAPair, Matches
  <2> QED
    BY <1>1, <2>1, <2>2
<1>4. TypeOK' /\ Checked'
  BY <1>1, <1>2, <1>3 DEF TypeOK, Checked, Inodes, Job, Cert, Half, Contents, Matches
<1>5. TempsOwned' /\ Alone' /\ Undisturbed'
  BY <1>1, <1>2 DEF TempsOwned, Alone, Undisturbed, Private, Holds, Fresh
<1>6. Together'
  <2>1. OnDisk' = OnDisk
    BY <1>1, SameDisk
  <2> QED
    BY <1>1, <1>2, <2>1 DEF Together
<1> QED
  BY <1>1, <1>3, <1>4, <1>5, <1>6 DEF IInv, StartsAgain

-----------------------------------------------------------------------------
LEMMA Initially == Init => IInv
<1> SUFFICES ASSUME Init PROVE IInv
  OBVIOUS
<1>1. data \in Seq(Contents) /\ Len(data) = 0
  BY EmptySeq DEF Init
<1>2. TypeOK
  <2>1. name \in [Names -> Inodes] /\ \A f \in Names : name[f] = 0
    BY <1>1 DEF Init, Inodes
  <2>2. pc \in [Procs -> Labels] /\ job \in [Procs -> Job] /\ live \in Cert
    BY BlankJob DEF Init, NoCert, Cert, Half, Labels
  <2>3. /\ pinned \in Pairs \cup {NoPair} /\ mode \in {"down", "serving"}
        /\ uploads \in Nat /\ crashes \in Nat /\ faults \in Nat /\ broken \in BOOLEAN
    BY DEF Init
  <2> QED
    BY <1>1, <2>1, <2>2, <2>3 DEF TypeOK
<1>3. Alone /\ Undisturbed /\ Checked /\ Together
  BY DEF Init, Alone, Undisturbed, Private, Checked, Together, Renaming, Reading
<1>4. LiveIsAPair /\ TempsOwned /\ StartsAgain
  BY DEF Init, LiveIsAPair, TempsOwned, StartsAgain, Loads, OnDisk, Names
<1> QED
  BY <1>2, <1>3, <1>4 DEF IInv

LEMMA Preserved == IInv /\ [Next]_vars => IInv'
<1> SUFFICES ASSUME IInv, [Next]_vars PROVE IInv'
  OBVIOUS
<1>1. ASSUME NEW p \in Procs, Step(p) PROVE IInv'
  BY <1>1, OpenTempStep, WriteTempStep, WriteFailsStep, RenameCrtStep, RenameKeyStep,
     RenameFailsStep, ReadCrtStep, ReadKeyStep, ReloadFailsStep, InstallStep,
     RemoveHalfStep, RemoveFailsStep DEF Step
<1>2. ASSUME NEW p \in Procs, DeleteBegin(p) PROVE IInv'
  <2>1. uploads \in Nat
    BY DEF IInv, TypeOK
  <2>2. Begin(p, "removeCrt", NoPair) /\ UNCHANGED <<name, data, live, pinned, mode, crashes, faults>> /\ uploads' \in Nat
    BY <1>2, <2>1 DEF DeleteBegin, disk, budget
  <2> QED
    BY <2>2, BeginStep
<1>3. ASSUME NEW p \in Procs, NEW c \in Pairs, UploadBegin(p, c) PROVE IInv'
  <2>1. uploads \in Nat
    BY DEF IInv, TypeOK
  <2>2. Begin(p, "openCrt", c) /\ UNCHANGED <<name, data, live, pinned, mode, crashes, faults>> /\ uploads' \in Nat
    BY <1>3, <2>1 DEF UploadBegin, disk
  <2> QED
    BY <2>2, BeginStep
<1>4. CASE Crash
  BY <1>4, CrashStep
<1>5. CASE Boot
  BY <1>5, BootStep
<1>6. CASE UNCHANGED vars
  BY <1>6 DEF vars, disk, budget, IInv, TypeOK, LiveIsAPair, Checked, TempsOwned, Alone,
     Undisturbed, Private, Together, StartsAgain, Loads, OnDisk, Content, Holds, Fresh,
     Matches, Inodes, Job, Cert, Half, Contents
<1> QED
  BY <1>1, <1>2, <1>3, <1>4, <1>5, <1>6 DEF Next

(* The inductive invariant, for any number of requests and certificates:   *)
(* types; a request without company finds the files as its earlier steps   *)
(* left them, and a temporary file is some request's.                      *)
THEOREM Invariance == Spec => []IInv
  BY Initially, Preserved, PTL DEF Spec

(* The certificate in memory and its key always come from one upload.      *)
THEOREM MemoryHoldsAPair == Spec => []LiveIsAPair
<1>1. IInv => LiveIsAPair
  BY DEF IInv
<1> QED
  BY <1>1, Invariance, PTL

(* While no request runs, the files hold what is in memory, unless         *)
(* requests overlapped or one stopped between its renames or removals.     *)
THEOREM DiskFollowsMemory == Spec => []MemoryMatchesDisk
<1>1. IInv => MemoryMatchesDisk
  BY DEF IInv, Together, MemoryMatchesDisk, AllIdle, Reading
<1> QED
  BY <1>1, Invariance, PTL

(* A process that is down can load its certificate, unless requests        *)
(* overlapped or one stopped between its renames.                          *)
THEOREM RestartLoads == Spec => []StartsAgain
<1>1. IInv => StartsAgain
  BY DEF IInv
<1> QED
  BY <1>1, Invariance, PTL

(* Without kills and disk errors no private key stays in a temporary file, *)
(* however uploads overlap and fail one another.                           *)
THEOREM KeysAreRenamedOrRemoved == Spec => []NoKeyLeftBehind
<1>1. IInv => NoKeyLeftBehind
  BY DEF IInv, TempsOwned, NoKeyLeftBehind, AllIdle, Renaming
<1> QED
  BY <1>1, Invariance, PTL

=============================================================================
