------------------------------ MODULE CliUpload ------------------------------
(***************************************************************************)
(* distsrv-cli upload against the build catalogue: a command sends its     *)
(* file as the one part of a request and waits for the answer.  After half *)
(* an hour, or when the connection breaks or the server is killed, it ends *)
(* with an error, and its user may run it again; the server goes on with   *)
(* the request that lost its client.                                       *)
(*                                                                         *)
(* Catalog's steps are those of the server, and what other clients ask of  *)
(* it.                                                                     *)
(***************************************************************************)
EXTENDS Catalog

CONSTANTS
    Clients,     \* users or CI jobs, each with a package to upload at a time
    NoClient,    \* a request that is not a command's
    NoRequest,   \* a command that waits for none
    MaxRuns,     \* bound: times a client runs the command
    MaxOthers    \* bound: requests of others

ASSUME CliAssumption ==
    /\ NoClient \notin Clients /\ NoRequest \notin Procs
    /\ MaxRuns \in Nat /\ MaxOthers \in Nat

VARIABLES
    cli,     \* [at, on, app, file, id]: a client's last command, the request it
             \* waits for, what it uploads, and the version it was told of
    runs,    \* times a client ran the command
    others,  \* requests of others begun
    serves,  \* [client, file, sent, id]: the command p serves, whether its
             \* file has been taken, and the version that came of it
    made,    \* history: ids of the versions a client's commands published
    lost,    \* history: commands of a client whose answer did not arrive
    spoiled  \* history: commands refused after their file had been saved

cliVars == <<cli, runs, others, serves, made, lost, spoiled>>
allVars == <<vars, cliVars>>

(* A command that has ended, or none yet *)
Ended(at) == [at |-> at, on |-> NoRequest, app |-> 0, file |-> Nobody.build, id |-> 0]

NotServing == [client |-> NoClient, file |-> Nobody.build, sent |-> FALSE, id |-> 0]

-----------------------------------------------------------------------------
(* apiUploadFile: the request goes out. *)
CliSend(c, p, a, b) ==
    /\ cli[c].at \in {"ready", "refused", "lost"}
    /\ runs[c] < MaxRuns
    /\ UploadBegin(p, a)
    /\ cli' = [cli EXCEPT ![c] = [at |-> "waiting", on |-> p, app |-> a, file |-> b, id |-> 0]]
    /\ runs' = [runs EXCEPT ![c] = @ + 1]
    /\ serves' = [serves EXCEPT ![p] = [NotServing EXCEPT !.client = c, !.file = b]]
    /\ UNCHANGED <<others, made, lost, spoiled>>

Lose(losers) ==
    /\ cli' = [c \in Clients |-> IF c \in losers THEN Ended("lost") ELSE cli[c]]
    /\ lost' = [c \in Clients |-> IF c \in losers THEN lost[c] + 1 ELSE lost[c]]

(* The timeout of httpClient, or a broken connection *)
CliLost(c) ==
    /\ cli[c].at = "waiting"
    /\ Lose({c})
    /\ UNCHANGED <<vars, runs, others, serves, made, spoiled>>

(* The end of the body gives 201 with the last version once the file was   *)
(* saved.  Bytes after it that cannot be read, or go beyond the size       *)
(* limit, give the 400 of a refusal instead, and what was saved stays.     *)
AtEndOfBody(p) == pc[p] = "parts" /\ serves[p].sent
Outcomes(p) == IF AtEndOfBody(p) THEN {"created", "refused"} ELSE {"refused"}

(* Nobody reads the answer if the command has ended. *)
Answer(p, outcome) ==
    LET c == serves[p].client
    IN  IF cli[c].on # p THEN UNCHANGED <<cli, spoiled>>
        ELSE /\ cli' = [cli EXCEPT ![c] =
                   IF outcome = "created"
                   THEN [@ EXCEPT !.at = "created", !.on = NoRequest, !.id = serves[p].id]
                   ELSE Ended("refused")]
             /\ spoiled' = IF outcome = "refused" /\ AtEndOfBody(p)
                           THEN [spoiled EXCEPT ![c] = @ + 1] ELSE spoiled

(* What a step of the server means for the command it serves: the file is  *)
(* taken once, a version may come of it, and the request's end is the      *)
(* answer.                                                                 *)
Served(p) ==
    LET s == serves[p]
        takes == pc[p] = "parts" /\ pc'[p] = "stream"
        inserts == pc[p] = "insert" /\ pc'[p] = "promote"
    IN  IF s.client = NoClient THEN UNCHANGED cliVars
        ELSE /\ takes => ~s.sent /\ job'[p].row.build = s.file
             /\ made' = IF inserts
                        THEN [made EXCEPT ![s.client] = @ \cup {job'[p].row.id}]
                        ELSE made
             /\ serves' = [serves EXCEPT ![p] =
                  IF pc'[p] = "idle" THEN NotServing
                  ELSE [s EXCEPT !.sent = @ \/ takes,
                                 !.id = IF inserts THEN job'[p].row.id ELSE @]]
             /\ IF pc'[p] = "idle" THEN \E o \in Outcomes(p) : Answer(p, o)
                                   ELSE UNCHANGED <<cli, spoiled>>
             /\ UNCHANGED <<runs, others, lost>>

ServerStep(p) == Step(p) /\ Served(p)

(* A kill breaks every connection. *)
ServerCrash ==
    /\ Crash
    /\ Lose({c \in Clients : cli[c].at = "waiting"})
    /\ serves' = [p \in Procs |-> NotServing]
    /\ UNCHANGED <<runs, others, made, spoiled>>

(* The web page's uploads and all the rest *)
OtherRequest(p) ==
    /\ Request(p)
    /\ others < MaxOthers
    /\ others' = others + 1
    /\ UNCHANGED <<cli, runs, serves, made, lost, spoiled>>
OtherEvent == Environment /\ crashes' = crashes /\ UNCHANGED cliVars

CliInit ==
    /\ Init
    /\ cli = [c \in Clients |-> Ended("ready")]
    /\ runs = [c \in Clients |-> 0] /\ others = 0
    /\ serves = [p \in Procs |-> NotServing]
    /\ made = [c \in Clients |-> {}]
    /\ lost = [c \in Clients |-> 0] /\ spoiled = [c \in Clients |-> 0]

CliNext ==
    \/ \E p \in Procs : ServerStep(p) \/ OtherRequest(p)
    \/ \E c \in Clients, p \in Procs, x \in apps, b \in Builds : CliSend(c, p, x.id, b)
    \/ \E c \in Clients : CliLost(c)
    \/ ServerCrash
    \/ OtherEvent

CliSpec == CliInit /\ [][CliNext]_allVars

CliFairSpec ==
    /\ CliSpec
    /\ \A p \in Procs : WF_allVars(ServerStep(p))
    /\ WF_vars(Boot) /\ WF_vars(OrphanScanEnd \/ \E q \in DOMAIN files : OrphanRemove(q))

-----------------------------------------------------------------------------
(* Properties *)

(* A client publishes once for the success it is told of, at most once for *)
(* every command whose answer was lost, and once for every refusal that    *)
(* came after its file had been saved: an upload refused for its file or   *)
(* by the database has published nothing, so that running the command      *)
(* again after such a refusal does not publish twice.                      *)
Answered(c) == IF cli[c].at \in {"waiting", "created"} THEN 1 ELSE 0

PublishedOncePerAnswer ==
    \A c \in Clients : Cardinality(made[c]) <= lost[c] + spoiled[c] + Answered(c)

(* Success means a version of the client's own file: the one the server    *)
(* tells of was published for the app and platform the client asked.       *)
CreatedMeansPublished ==
    \A c \in Clients : cli[c].at = "created" =>
        [id |-> cli[c].id, app |-> cli[c].app, plat |-> cli[c].file.plat] \in published

(* What the two rest on.  A client waits for the request that serves it;   *)
(* the request takes one file, and the version that comes of it is one     *)
(* published for the client's app and platform.                            *)
Answers == {"ready", "waiting", "created", "refused", "lost"}
Command == [at : Answers, on : Procs \cup {NoRequest}, app : 0 .. lastApp,
            file : Builds, id : 0 .. lastVid]
Service == [client : Clients \cup {NoClient}, file : Builds, sent : BOOLEAN, id : 0 .. lastVid]

CliTypeOK ==
    /\ cli \in [Clients -> Command] /\ serves \in [Procs -> Service]
    /\ runs \in [Clients -> Nat] /\ others \in Nat
    /\ lost \in [Clients -> Nat] /\ spoiled \in [Clients -> Nat]
    /\ made \in [Clients -> SUBSET (1 .. lastVid)]

Attended ==
    \A c \in Clients :
        IF cli[c].at = "waiting"
        THEN /\ cli[c].on \in Procs
             /\ serves[cli[c].on].client = c
             /\ serves[cli[c].on].file = cli[c].file
             /\ job[cli[c].on].app = cli[c].app
        ELSE cli[c].on = NoRequest

Saved == {"promote", "bundle", "pruneRead", "pruneList", "prune", "pruneRow"}

TakesOneFile(p) ==
    LET s == serves[p]
    IN  IF s.client = NoClient THEN s = NotServing
        ELSE /\ pc[p] \in Receiving => s.sent /\ s.id = 0 /\ job[p].row.build = s.file
             /\ pc[p] \in Saved => s.sent /\ s.id # 0
             /\ pc[p] = "parts" => s.sent = (s.id # 0)
             /\ pc[p] \in Receiving \cup Saved \cup {"parts"}
             /\ s.id # 0 =>
                  [id |-> s.id, app |-> job[p].app, plat |-> s.file.plat] \in published

OneFile == \A p \in Procs : TakesOneFile(p)

(* A request that has published nothing yet may still do so; whoever waits *)
(* or was told so accounts for one version, as does each answer that was   *)
(* lost or spoiled.                                                        *)
Pending(c) == {p \in Procs : serves[p].client = c /\ serves[p].id = 0}

AccountedFor ==
    \A c \in Clients :
        /\ IsFiniteSet(made[c]) /\ IsFiniteSet(Pending(c))
        /\ Cardinality(made[c]) + Cardinality(Pending(c))
             <= lost[c] + spoiled[c] + Answered(c)

(* Preserved by every step *)
CliIInv == IInv /\ CliTypeOK /\ Attended /\ OneFile /\ AccountedFor /\ CreatedMeansPublished

=============================================================================
