---------------------------- MODULE SigningCert ----------------------------
(***************************************************************************)
(* The profile-signing certificate an admin installs through the web UI:   *)
(* two PEM files in data_dir, written through two temporary files with     *)
(* fixed names, and the copy of them the server keeps in memory.           *)
(*                                                                         *)
(* The mutex of the server guards the copy in memory only: requests that   *)
(* install or remove a certificate interleave at every file operation, and *)
(* two uploads write the same temporary files.  A name refers to an inode, *)
(* so a file keeps being written after another request has renamed it.     *)
(***************************************************************************)
EXTENDS Naturals, Sequences

CONSTANTS
    Procs,       \* goroutines that may serve a request at the same time
    Pairs,       \* certificates with their keys that a .p12 can hold
    NoPair,      \* no certificate
    Empty,       \* content of a file that was created or truncated
    Garbled,     \* content two writers left in one file
    MaxUploads,  \* bound: accepted uploads
    MaxCrashes,  \* bound: process kills
    MaxFaults    \* bound: file operations that fail

ASSUME SigningAssumption ==
    /\ Pairs \cap {NoPair, Empty, Garbled} = {}
    /\ MaxUploads \in Nat /\ MaxCrashes \in Nat /\ MaxFaults \in Nat

VARIABLES
    name,     \* directory: file name -> inode, 0 when there is no such file
    data,     \* contents of the inodes: the pair whose half each holds
    live,     \* the certificate and key in memory
    pinned,   \* the pair [server.profile_signing] names in config.toml
    mode,     \* "down" or "serving"
    pc, job,  \* next step and locals of each request
    uploads, crashes, faults,
    broken    \* history: requests overlapped, or one stopped between its two
              \* renames or removals, since an upload last ran on its own

disk == <<name, data>>
budget == <<uploads, crashes, faults>>
vars == <<disk, live, pinned, mode, pc, job, budget, broken>>

-----------------------------------------------------------------------------
NoCert == [crt |-> NoPair, key |-> NoPair]
Blank == [pair |-> NoPair, fd |-> 0, got |-> NoCert, alone |-> FALSE]

(* profile-signing.crt and .key, and the .tmp beside each *)
Names == {"crt", "key", "crt.tmp", "key.tmp"}

Content(f) == IF name[f] = 0 THEN Empty ELSE data[name[f]]

Goto(p, l) == pc' = [pc EXCEPT ![p] = l]
Finish(p) == Goto(p, "idle") /\ job' = [job EXCEPT ![p] = Blank]

Fault == faults < MaxFaults /\ faults' = faults + 1

(* A request takes its first step. *)
Begin(p, l, pair) ==
    LET busy == {q \in Procs : pc[q] # "idle"}
    IN  /\ mode = "serving"
        /\ pc[p] = "idle"
        /\ Goto(p, l)
        /\ job' = [q \in Procs |->
                     IF q = p THEN [Blank EXCEPT !.pair = pair, !.alone = (busy = {})]
                              ELSE [job[q] EXCEPT !.alone = FALSE]]
        /\ broken' = (broken \/ busy # {})

(* os.WriteFile opens the file: it is truncated, or created. *)
Open(p, f) ==
    IF name[f] # 0
    THEN /\ data' = [data EXCEPT ![name[f]] = Empty]
         /\ job' = [job EXCEPT ![p].fd = name[f]]
         /\ UNCHANGED name
    ELSE /\ data' = Append(data, Empty)
         /\ name' = [name EXCEPT ![f] = Len(data) + 1]
         /\ job' = [job EXCEPT ![p].fd = Len(data) + 1]

(* It writes.  Over what another request wrote since, either content or a  *)
(* mixture of both is left.                                                *)
WriteOver(p) ==
    \E c \in IF data[job[p].fd] = Empty THEN {job[p].pair}
             ELSE {job[p].pair, Garbled} :
        data' = [data EXCEPT ![job[p].fd] = c]

Remove(fs) == name' = [f \in Names |-> IF f \in fs THEN 0 ELSE name[f]]

-----------------------------------------------------------------------------
(* saveProfileSigningPEM.  A .p12 that does not decode to a matching pair  *)
(* is refused before this, and changes nothing.                            *)

UploadBegin(p, c) ==
    /\ uploads < MaxUploads
    /\ uploads' = uploads + 1
    /\ Begin(p, "openCrt", c)
    /\ UNCHANGED <<disk, live, pinned, mode, crashes, faults>>

OpenTemp(p) ==
    /\ \/ pc[p] = "openCrt" /\ Open(p, "crt.tmp") /\ Goto(p, "writeCrt")
       \/ pc[p] = "openKey" /\ Open(p, "key.tmp") /\ Goto(p, "writeKey")
    /\ UNCHANGED <<live, pinned, mode, budget, broken>>

WriteTemp(p) ==
    /\ \/ pc[p] = "writeCrt" /\ Goto(p, "openKey")
       \/ pc[p] = "writeKey" /\ Goto(p, "renameCrt")
    /\ WriteOver(p)
    /\ UNCHANGED <<name, live, pinned, mode, job, budget, broken>>

(* The disk is full.  Only the certificate's file is cleaned up. *)
WriteFails(p) ==
    /\ \/ pc[p] \in {"openCrt", "writeCrt"} /\ UNCHANGED name
       \/ pc[p] \in {"openKey", "writeKey"} /\ Remove({"crt.tmp"})
    /\ Fault
    /\ Finish(p)
    /\ UNCHANGED <<data, live, pinned, mode, uploads, crashes, broken>>

(* Rename that links the new name and keeps the old one *)
RenameKeepsBoth(f, t) ==
    /\ name[f] # 0
    /\ name' = [name EXCEPT ![t] = name[f]]

Rename(f, t) ==
    /\ name[f] # 0
    /\ name' = [name EXCEPT ![t] = name[f], ![f] = 0]

RenameCrt(p) ==
    /\ pc[p] = "renameCrt"
    /\ Rename("crt.tmp", "crt")
    /\ Goto(p, "renameKey")
    /\ UNCHANGED <<data, live, pinned, mode, job, budget, broken>>

(* RenameCrtFails that leaves the key's temporary file *)
RenameCrtFailsLeaky(p) ==
    /\ pc[p] = "renameCrt"
    /\ \/ name["crt.tmp"] = 0 /\ UNCHANGED faults
       \/ Fault
    /\ Remove({"crt.tmp"})
    /\ Finish(p)
    /\ UNCHANGED <<data, live, pinned, mode, uploads, crashes, broken>>

(* The temporary file is gone (another upload renamed or removed it), or   *)
(* the rename fails.                                                       *)
RenameCrtFails(p) ==
    /\ pc[p] = "renameCrt"
    /\ \/ name["crt.tmp"] = 0 /\ UNCHANGED faults
       \/ Fault
    /\ Remove({"crt.tmp", "key.tmp"})
    /\ Finish(p)
    /\ UNCHANGED <<data, live, pinned, mode, uploads, crashes, broken>>

RenameKey(p) ==
    /\ pc[p] = "renameKey"
    /\ Rename("key.tmp", "key")
    /\ Goto(p, "readCrt")
    /\ UNCHANGED <<data, live, pinned, mode, job, budget, broken>>

RenameKeyFails(p) ==
    /\ pc[p] = "renameKey"
    /\ \/ name["key.tmp"] = 0 /\ UNCHANGED faults
       \/ Fault
    /\ Remove({"key.tmp"})
    /\ Finish(p)
    /\ broken' = TRUE
    /\ UNCHANGED <<data, live, pinned, mode, uploads, crashes>>

-----------------------------------------------------------------------------
(* The hot reload: both files are read, and must hold a pair. *)

ReadCrt(p) ==
    /\ pc[p] = "readCrt"
    /\ job' = [job EXCEPT ![p].got = [crt |-> Content("crt"), key |-> NoPair]]
    /\ Goto(p, "readKey")
    /\ UNCHANGED <<disk, live, pinned, mode, budget, broken>>

Matches(c) == c.crt \in Pairs /\ c.crt = c.key

(* Reading without tls.X509KeyPair *)
ReadKeyUnchecked(p) ==
    LET c == [job[p].got EXCEPT !.key = Content("key")]
    IN  /\ pc[p] = "readKey"
        /\ job' = [job EXCEPT ![p].got = c]
        /\ Goto(p, "install")
        /\ UNCHANGED <<disk, live, pinned, mode, budget, broken>>

ReadKey(p) ==
    LET c == [job[p].got EXCEPT !.key = Content("key")]
    IN  /\ pc[p] = "readKey"
        /\ IF Matches(c)
           THEN job' = [job EXCEPT ![p].got = c] /\ Goto(p, "install")
           ELSE Finish(p)
        /\ UNCHANGED <<disk, live, pinned, mode, budget, broken>>

(* The old certificate stays in memory. *)
ReloadFails(p) ==
    /\ pc[p] \in {"readCrt", "readKey"}
    /\ Fault
    /\ Finish(p)
    /\ broken' = TRUE
    /\ UNCHANGED <<disk, live, pinned, mode, uploads, crashes>>

Install(p) ==
    /\ pc[p] = "install"
    /\ live' = job[p].got
    /\ broken' = (broken /\ ~job[p].alone)
    /\ Finish(p)
    /\ UNCHANGED <<disk, pinned, mode, budget>>

-----------------------------------------------------------------------------
(* handleAdminSigningCertDelete *)

DeleteBegin(p) ==
    /\ Begin(p, "removeCrt", NoPair)
    /\ UNCHANGED <<disk, live, pinned, mode, budget>>

RemoveHalf(p) ==
    /\ \/ pc[p] = "removeCrt" /\ Remove({"crt"}) /\ Goto(p, "removeKey")
       \/ pc[p] = "removeKey" /\ Remove({"key"}) /\ Goto(p, "clear")
    /\ UNCHANGED <<data, live, pinned, mode, job, budget, broken>>

RemoveFails(p) ==
    /\ pc[p] \in {"removeCrt", "removeKey"}
    /\ Fault
    /\ Finish(p)
    /\ broken' = (broken \/ pc[p] = "removeKey")
    /\ UNCHANGED <<disk, live, pinned, mode, uploads, crashes>>

(* Removing the files without clearing the copy in memory *)
ClearLiveNot(p) ==
    /\ pc[p] = "clear"
    /\ Finish(p)
    /\ UNCHANGED <<disk, live, pinned, mode, budget, broken>>

ClearLive(p) ==
    /\ pc[p] = "clear"
    /\ live' = NoCert
    /\ Finish(p)
    /\ UNCHANGED <<disk, pinned, mode, budget, broken>>

-----------------------------------------------------------------------------
Crash ==
    /\ crashes < MaxCrashes
    /\ crashes' = crashes + 1
    /\ mode = "serving"
    /\ mode' = "down"
    /\ live' = NoCert
    /\ pc' = [p \in Procs |-> "idle"]
    /\ job' = [p \in Procs |-> Blank]
    /\ broken' = (broken \/ \E p \in Procs : pc[p] = "renameKey")
    /\ UNCHANGED <<disk, pinned, uploads, faults>>

(* What loadProfileSigningCertFromDataDir returns for the files there are; *)
(* a pair that does not match is an error.                                 *)
OnDisk ==
    IF name["crt"] = 0 \/ name["key"] = 0 THEN NoCert
    ELSE [crt |-> Content("crt"), key |-> Content("key")]

(* Loading that does not look whether the certificate's file is missing *)
LoadsOnlyBoth == name["key"] = 0 \/ Matches(OnDisk)

Loads == OnDisk = NoCert \/ Matches(OnDisk)

(* server.New: the certificate of config.toml first, else the uploaded     *)
(* one.  A certificate that does not load ends the process.                *)
Boot ==
    /\ mode = "down"
    /\ \/ pinned # NoPair /\ live' = [crt |-> pinned, key |-> pinned]
       \/ pinned = NoPair /\ Loads /\ live' = OnDisk
    /\ mode' = "serving"
    /\ UNCHANGED <<disk, pinned, pc, job, budget, broken>>

Init ==
    /\ name = [f \in Names |-> 0] /\ data = <<>>
    /\ live = NoCert /\ pinned \in {NoPair} \cup Pairs
    /\ mode = "down"
    /\ pc = [p \in Procs |-> "idle"]
    /\ job = [p \in Procs |-> Blank]
    /\ uploads = 0 /\ crashes = 0 /\ faults = 0
    /\ broken = FALSE

Step(p) ==
    \/ OpenTemp(p) \/ WriteTemp(p) \/ WriteFails(p)
    \/ RenameCrt(p) \/ RenameCrtFails(p) \/ RenameKey(p) \/ RenameKeyFails(p)
    \/ ReadCrt(p) \/ ReadKey(p) \/ ReloadFails(p) \/ Install(p)
    \/ RemoveHalf(p) \/ RemoveFails(p) \/ ClearLive(p)

Next ==
    \/ \E p \in Procs :
        Step(p) \/ DeleteBegin(p) \/ (\E c \in Pairs : UploadBegin(p, c))
    \/ Crash \/ Boot

Spec == Init /\ [][Next]_vars

-----------------------------------------------------------------------------
(* Properties *)

AllIdle == \A p \in Procs : pc[p] = "idle"

Contents == Pairs \cup {Empty, Garbled}
Half == Contents \cup {NoPair}
Cert == [crt : Half, key : Half]
Inodes == 0 .. Len(data)
Job == [pair : Pairs \cup {NoPair}, fd : Inodes, got : Cert, alone : BOOLEAN]

Renaming == {"writeCrt", "openKey", "writeKey", "renameCrt"}
Reading == {"readCrt", "readKey", "install"}
Labels == {"idle", "openCrt", "renameKey", "removeCrt", "removeKey", "clear"}
            \cup Renaming \cup Reading

(* Every variable has its type: each request is at a step it has, every    *)
(* name and open file designates an inode, and no inode has two names.     *)
TypeOK ==
    /\ data \in Seq(Contents)
    /\ name \in [Names -> Inodes]
    /\ \A f, g \in Names : name[f] = name[g] => f = g \/ name[f] = 0
    /\ live \in Cert
    /\ pinned \in Pairs \cup {NoPair}
    /\ mode \in {"down", "serving"}
    /\ pc \in [Procs -> Labels]
    /\ job \in [Procs -> Job]
    /\ uploads \in Nat /\ crashes \in Nat /\ faults \in Nat
    /\ broken \in BOOLEAN

(* The certificate in memory and its key are of one upload, whatever       *)
(* uploads and removals interleave: profiles are never signed with a key   *)
(* that is not the certificate's.                                          *)
LiveIsAPair == live = NoCert \/ Matches(live)

(* A restart changes nothing: while no request runs, the files hold what   *)
(* is in memory, unless requests overlapped or one stopped halfway.  An    *)
(* upload that fails before its renames, on a full disk or by a kill,      *)
(* keeps the certificate, and so does every later start.                   *)
MemoryMatchesDisk ==
    mode = "serving" /\ AllIdle /\ pinned = NoPair /\ ~broken => OnDisk = live

(* A process that is down can start again, unless its certificate files    *)
(* were left by two uploads: one killed or failed between its renames, or  *)
(* overlapped by another.                                                  *)
StartsAgain == mode = "down" /\ ~broken => pinned # NoPair \/ Loads

(* However uploads overlap and fail one another, none leaves a private key *)
(* in a temporary file, unless a kill or a disk error interrupted one.     *)
NoKeyLeftBehind ==
    AllIdle /\ crashes = 0 /\ faults = 0 =>
        name["crt.tmp"] = 0 /\ name["key.tmp"] = 0

(* A request that had no company since its first step has the files to     *)
(* itself: at each step they hold what its steps before have left.         *)
Holds(p, f) == name[f] # 0 /\ data[name[f]] = job[p].pair
Fresh(p, f) == name[f] # 0 /\ name[f] = job[p].fd /\ data[name[f]] = Empty

Alone ==
    \A p, q \in Procs : pc[p] # "idle" /\ job[p].alone /\ pc[q] # "idle" => q = p

Private(p) ==
    job[p].alone =>
        /\ pc[p] = "writeCrt" => Fresh(p, "crt.tmp")
        /\ pc[p] = "writeKey" => Fresh(p, "key.tmp")
        /\ pc[p] \in Renaming \ {"writeCrt"} => Holds(p, "crt.tmp")
        /\ pc[p] \in {"renameCrt", "renameKey"} => Holds(p, "key.tmp")
        /\ pc[p] \in Reading \cup {"renameKey"} => Holds(p, "crt")
        /\ pc[p] \in Reading => Holds(p, "key")
        /\ pc[p] \in {"readKey", "install"} => job[p].got.crt = job[p].pair
        /\ pc[p] \in {"removeKey", "clear"} => name["crt"] = 0

Undisturbed == \A p \in Procs : Private(p)

(* What is written is a pair, and what is installed is one that was checked. *)
Checked ==
    \A p \in Procs :
        /\ pc[p] # "idle" => mode = "serving"
        /\ pc[p] \in Renaming \cup Reading \cup {"openCrt", "renameKey"} => job[p].pair \in Pairs
        /\ pc[p] \in {"writeCrt", "writeKey"} => job[p].fd # 0
        /\ pc[p] = "install" => Matches(job[p].got)

(* Unless it broke, memory and disk part only between the first change of  *)
(* the files and the change of the memory.                                 *)
Together ==
    ~broken =>
        /\ \A p \in Procs : pc[p] # "idle" => job[p].alone
        /\ mode = "serving" /\ pinned = NoPair /\ OnDisk # live =>
             \E p \in Procs : pc[p] \in Reading \cup {"renameKey", "removeKey", "clear"}

(* A temporary file is that of a request which is to rename or remove it.  *)
TempsOwned ==
    crashes = 0 /\ faults = 0 =>
        /\ name["crt.tmp"] # 0 => \E p \in Procs : pc[p] \in Renaming
        /\ name["key.tmp"] # 0 =>
             \E p \in Procs : pc[p] \in {"writeKey", "renameCrt", "renameKey"}

(* Preserved by every step *)
IInv ==
    /\ TypeOK /\ LiveIsAPair /\ Checked /\ TempsOwned
    /\ Alone /\ Undisturbed /\ Together /\ StartsAgain

=============================================================================
