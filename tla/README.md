# distsrv, specified

TLA+ specifications of distsrv, the self-hosted distribution server for iOS and
Android packages, with the TLC runs that check them and the proofs TLAPS checks.
Source references are to the repository this directory sits in.

## The system

distsrv is one Go process over one SQLite file and one directory. Every HTTP
request is a goroutine. The database pool holds a single connection
(`internal/db/db.go`), so each SQL statement is atomic, but **no handler opens a
transaction**: a request is a sequence of statements and file operations, other
requests run between any two of them, and what a request read may be stale when
it writes. The process can be killed between any two steps. That is where the
program is hard to test, and what the modules are about.

| part | state it keeps | operations | what makes it correct |
|---|---|---|---|
| build catalogue (`storage`, `handlers_admin`, `handlers_api`, `handlers_public`) | tables `apps`, `versions`; `uploads/`, `uploads/.tmp` | create app, upload, promote, prune, pin, delete version, delete app, download, orphan scan | a listed build has its own bytes on disk; no orphan files; the current version is never pruned; ids are never reused |
| accounts (`handlers_admin`, `session`, `middleware`) | tables `users`, `sessions`, `api_tokens` | login, logout, expiry, create, demote, disable, delete, tokens | an admin who can log in remains; disabling ends sessions; credentials stay with their account |
| bootstrap (`main`, `migrations`, `config`) | the same tables, `config.toml` | validate, promote the oldest user, create the first admin | a restart always serves, with an admin |
| signing certificate (`profile_signing`, `server`) | two PEM files, their `.tmp`, a copy in memory | upload with hot reload, remove, load at start | memory holds a matching pair, the same as the disk; a restart loads |
| download gate (`handlers_public`) | `apps.password_hash`, a cookie | rename, set or clear password, enter it, page, manifest, package | a gate opens for the password in force, and to everyone who entered it |
| icons (`handlers_public`, `storage`) | icon files stored before uploads converted them | rewriting by the first request, serving, deletion | a rewritten icon is whole; deletion leaves none behind |
| CgBI (`parser/cgbi`) | none | conversion of Apple's PNG variant | the picture stays the same |
| UDIDs (`handlers_public`, `queries`) | table `udids` | form, profile, device callback, page | what the page says is recorded is in the list, until the app is deleted |
| REST views, statistics, web pages | none of their own | formatting | - |
| command line client (`cmd/distsrv-cli`) | a saved token | create, list, upload | an upload is published once for the answer it got |
| configuration defaults, TLS, deployment | - | - | - |

Components interact through the tables, the files under `data_dir`, and the
certificate in memory. There are no background jobs: retention runs inside the
upload, and the orphan scan once, before the server listens. `PROJECT.json`
lists every component with what is modelled, and every hazard at its line.

## Modules

    Shelf        what the catalogue promises          <- implemented by Catalog
    Catalog      the build catalogue                     MCCatalog, CatalogProofs,
                                                         CatalogPolicyProofs
    CliUpload    the upload command, over Catalog        MCCliUpload, CliUploadProofs
    Accounts     users, sessions, tokens, bootstrap      MCAccounts, AccountsProofs
    SigningCert  the signing certificate                 MCSigningCert, SigningCertProofs
    DownloadGate the password of an app                  DownloadGateProofs
    Visitors     UDIDs and icons                         VisitorsProofs
    CgBI         the conversion of an icon
    IconPictures Visitors with CgBI's files              MCVisitors, CgBIProofs

### Catalog

One action per statement or file operation. `pc[p]` is the next step of the
request goroutine `p` serves, `job[p]` the locals it carries: the app id, the
version row it read or is building, the current-version id it read, whether the
app snapshot had no bundle id, and the rows left to delete.

| code | steps |
|---|---|
| `SaveUpload` | `UploadPart` (re-read of the app, temp file) -> `UploadMove` (rename to the stamped path) -> `UploadInsert`, or `UploadInsertFails` -> `UploadUndo` -> `UploadPromote` -> `UploadBundle` -> pruning; `UploadReject` for every failure before the rename |
| `pruneOldVersions` | `PruneRead`, `PruneList`, then `PruneFiles`, `PruneRow` for each row; `PruneSkip` for an error or a vanished app |
| upload handlers | `UploadBegin`, then one `SaveUpload` per file part, `UploadEnd` |
| `handleAdminVersionDelete` | `DeleteBegin`, `DeleteReadApp`, `DeleteClear`, `DeleteFiles`, `DeleteRow` |
| `handleAdminVersionSetCurrent` | `PinBegin`, `PinWrite` |
| `handleAdminAppDelete` | `AppDeleteList`, `AppDeleteFiles`, `AppDeleteRow` (cascade) |
| `handleFileDownload` | `DownloadRead`, `DownloadOpen` |
| process | `Crash`, `Boot`, `OrphanRemove`, `ScanCutShort`, `OrphanScanEnd` |

A path is the tuple of app, platform, version name and second; the wall clock is
a counter, so uploads in the same second are a case of their own. Where the code
ignores an error, the step has a second disjunct that does nothing, or only
part of its work, and spends `faults`: the statements after the INSERT
(`storage.go:184-198`), the removals of files (`storage.go:237`), that of a
refused upload's temporary file (`storage.go:72`, deferred), and the two lists
of rows that may end early and pass for the whole, of an app's versions
(`handlers_admin.go:256`) and of the known packages (`storage.go:298-312`, where
`rows.Err` is never asked: `ScanCutShort`). `os.CreateTemp` never reuses a name,
so `tmp` counts the temporary files each goroutine has created. `minted`,
`reused`, `torn`, `published` and `unclean` are history the code does not keep;
no guard reads them. Abstracted: package contents are a `sha`, version
names are already sanitised, icons that an upload stores share their package's
fate.

The read of the version and of its app in `handleFileDownload` are one step,
because nothing the handler does depends on a change between them other than
the answer. `handleAdminAppDelete` on an app that is gone changes nothing, so
`AppDeleteList` starts from one that is there.

### Shelf

The abstract specification: ids are published once and never listed again after
they were withdrawn, and a pointer moves only to a version published for its app
and platform. It deliberately does not promise that the current version is
still listed: `apps.current_*_version_id` has no foreign key, and with two
requests it may dangle. What stays safe is that a dangling pointer can never
come to designate another build. `Catalog!ImplementsShelf` maps `listed` to the
ids in `versions` and `current` to the non-null pointer columns.

### CliUpload

`cmdUpload` and `apiUploadFile` of the client beside every step of Catalog. A
command sends one file (`CliSend`, which is `UploadBegin` on the server's side)
and waits; `cli[c]` is what it waits for or how it ended, and `serves[p]` which
command the goroutine serves. `ServerStep` is a step of Catalog with what it
means for that command: the file part is taken once, a row may come of it, and
the end of the request is the answer (`Answer`). An upload that fails is refused.
After a saved file the answer is 201, or 400 when the rest of the body cannot be
read or goes beyond the size limit (`handlers_api.go:243-246`): the build is then
published and the client is told it was not. `CliLost` is the client's time limit or a broken connection: the
command ends, the server goes on. `ServerCrash` is Catalog's `Crash`, which
loses every waiting command. The user may run the command again after a refusal
or a loss. `OtherRequest` is anything else the server is asked for meanwhile.
`made`, `lost` and `spoiled` are history: the ids that came of a client's
commands, the commands whose answer did not arrive, and those refused after
their file was saved.

### Accounts

A login (`LoginVerify`, `LoginSession`), an authenticated request (`AuthSession`,
`AuthUser`, then one operation) and the guarded admin operations (`ReadTarget`,
`CountActiveAdmins`, then `SetUserAdmin`, `SetUserDisabled` + `KickSessions`, or
`UserDelete`) with the reads they act on carried in `job`. `Crash`, `Boot` (with
`config.validate` and the migration's promotion) and `BootstrapAdmin` cover
starts, from an empty database or from `Legacy` users without roles. Disabling is
two statements, and the second, which deletes the sessions, may fail or never
come after the first was committed (`queries.go:113-116`). `born` is history that
tells an account from a later one with its id; `stray` is history too: the
sessions that a login inserted for an account disabled meanwhile, or that a
failing deletion or a kill spared. Passwords and names are left out, so password
change and reset are too.

### SigningCert

`saveProfileSigningPEM` operation by operation, on a small file system: names
designate inodes, a rename moves one, and an open file keeps being written
wherever its inode has gone. Two uploads share the temporary names. Opening
truncates and writing is a step of its own, so a writer may overwrite what
another wrote after it truncated; the outcome is either content or a mixture
(`Garbled`). Then the reload, the removal and the start. `broken` is history: requests
overlapped, or one was stopped between its renames or removals, since an upload
last ran on its own from beginning to end. `job[p].alone` remembers whether a
request has had no company since it began.

### DownloadGate

`handleDownloadPage`, `handleManifest` and `handleFileDownload` read the app
(`PageBegin`, `PackageBegin`) and, if it has a password, `hasAppPasswordCookie`
reads it again and compares the cookie (`GatePass`, `GateAsk`).
`handleDownloadAuth` reads the app and compares the password (`AuthRead`,
`AuthWrong`); the browser stores the cookie when the answer arrives
(`AuthCookie`), or never does (`AuthLost`), and drops it a day later
(`CookieExpires`). `CreateApp`, `UpdateApp` (which can rename the short id),
`SetAppPassword`, `ClearAppPassword` and `DeleteApp` are single statements that
fall between any two of these.

The browser is modelled by what RFC 6265 asks of it: a cookie is replaced by one
of the same name and path, and sent only below its path, which the handler sets
to `/d/<short id>`. A hash is the index of the call of `SetAppPassword` that
made it, because bcrypt salts it; `secret` remembers the password it was made
from. The cookie's value is 64 bits of a digest of the hash; two hashes are taken
to have different digests. `entered` is history: which browser entered which
password. `holds` in a request is history as well: the browser has had the app's
cookie ever since the request began, and the app did not change. An app stands for its current iOS
build, and manifest and package, which have the same gate, are one request.

### Visitors

What people without an account write. `UDIDSubmit` (the form) and `UDIDCallback`
resolve a short id and read the app, `UpsertUDID` writes the row, `ShowRecorded`
is the page the answer leads to, if the visitor follows it. The callback is
meant for the answer of a device to a profile it was given, but the code takes
any POST with any UDID and any short id (`handlers_public.go:463-509`), and so
does the action: handing out a profile changes no state and is no action.
`CreateApp`, `UpdateApp` and `DeleteApp` can give the short id to another app, or
to none, between any two of these. A device stands for its UDID as it is
spelled; the details a callback brings beside it are left out. `shown` is
history: what a page told. `astray` marks a request whose short id changed hands
since it came, or whose row the database refused.

`IconRow`, `IconRead`, `IconOpen`, `IconWrite` and `IconServe` are the icon
handler, with the truncation by `os.WriteFile` apart from the write; `IconFails`
is the error it ignores. An icon is `"apple"` (the conversion changes it), `"odd"`
(a CgBI file the conversion gives back, for its depth, colour or damage, which is
served as it is, `handlers_public.go:351-352`), `"png"` or `"empty"` (truncated).
`VersionDeleteBegin`, `AppDeleteBegin`, `RemoveIcon`, `DeleteVersionRow`,
`DeleteApp` and `DeleteAppFails` are what deletions do to icons: the listing may
end early and a removal fail, and the deletion goes on without
(`handlers_admin.go:256`, `storage.go:239`); a file removed while a request has it
open takes its writes with it (`fd`). The database is one from before icons were
converted: new uploads store converted icons, which nothing rewrites, and their
races with deletion are Catalog's. `Crash` and `Boot` (the orphan scan) end what
was going on; `cut` and `ghosts` are history: the icons whose rewriting was
stopped, and those that a rewriting created anew after their removal or that an
ignored error spared from it.

The decision what to convert is `Converted`; what the conversion does to a
picture is CgBI's. `IconPictures` puts the two together: `Files` are the files
that a database from before may hold.

### CgBI

`NormalizeAppleCgBI` as a function: a file is a signature and chunks, data are
bytes below `Base`, compression is a pair of marks around its input, and `Files`
are what it is given. `FirstPass` and `SecondPass` are the two loops over the
chunks, each a function of the number of chunks gone through. The first reads
header and data, the second drops CgBI and writes one IDAT chunk, compressed as
zlib, in the place of the first; in between the data are inflated as raw DEFLATE
and `Swapped` exchanges red and blue in every pixel of every line that the
header's size promises, leaving bytes after them alone. `AsInt` is what an int
holds of the number of bytes promised, which is compared with the data.

The reference is what decoders make of a file, from the PNG standard. `Undo`
undoes the filter of one pixel (`Predict`, `Paeth`) from its neighbours; `Line`
and `Pixels` go through a line and through the lines. `ShownByApple` reads the
original, blue first, and `ShownAnywhere` the result. The colours of a CgBI file
with transparency are premultiplied; neither the code nor the reference divides
by the alpha, so what is compared is the order of the channels.

## What the runs show

| run | question | bounds | result |
|---|---|---|---|
| CatalogSerial | does every sequence of requests, with a kill and an ignored error anywhere, keep table, files, pointers and temporary files together, and the number of builds small? | 1 request at a time, 1 app, 3 versions of 2 iOS builds, 2 seconds, KeepN 1, 1 kill, 1 ignored error | holds, 2.1 M states |
| CatalogRace | which of it survives two overlapping requests? | 2 requests, 1 app, 3 versions, 2 seconds, KeepN 1 | holds, 1.3 M |
| CatalogPruneRace | is the current version never pruned? | as CatalogRace | violated |
| CatalogKeep | does the configured number of builds stay? | 1 request at a time, 2 versions, KeepN 1, no failure | violated |
| CliUpload | what does an answer, or none, tell of what was published? Ids, pointers, refinement and progress across platforms | 1 client with 2 commands, 2 other requests, 2 at a time, both platforms, 2 versions, 1 kill, fair | holds, 0.4 M |
| AccountsRace | credentials, last admin, sessions, tokens under overlap, a kill and the restart after it | 2 requests, 3 accounts, 2 sessions, 1 token, 1 kill, `admin.password` may be removed | holds, 3.1 M |
| AccountsLastAdmin | does an admin always remain? | 2 requests, 3 accounts | violated |
| AccountsReadme | does the restart of the README's first-start steps serve? | 1 account, 1 restart, fair | violated |
| SigningCert | can uploads, removals, kills and errors part memory from disk, or stop a start? | 2 requests, 2 pairs, 3 uploads, 1 kill, 1 failing operation | holds, 1.0 M |
| DownloadGate | does a gate open for the password in force, and only for it? | 1 browser, 2 apps, 2 short ids, 3 passwords set | holds, 1.1 M |
| DownloadGatePackage | does who entered the password get the package? | as DownloadGate | violated |
| Visitors | is what the page says was recorded in the list, and are rewritten icons whole and removed with their versions? Is a converted picture the same? | 2 requests, 1 device, 2 short ids, 2 apps, 2 icons, 2 kills or ignored errors | holds, 2.1 M |

Why the bounds are enough to be interesting. Three versions with `KeepN = 1` make
an upload prune while another build is current and one is kept; two seconds make
paths both collide and differ; two builds of one name differ in bytes; two requests are enough for every check-then-write pair of two statements.
CatalogSerial is the catalogue run with kills and ignored errors at full length;
with two requests as well, the state space is beyond a run of minutes, and what
files keep then is proved instead. In CliUpload two commands are a first one and
its repetition, which the kill may divide; two versions are too few to prune one,
which the other runs and the proofs cover.

Three accounts allow an admin to act on a second while a third is deleted and
its id would be reused. Three uploads over two pairs let a failing one follow an
overlap. In DownloadGate two apps can trade two short ids, or one be recreated
under the id of a deleted one, and three hashes make a password set anew and one
of another app; one browser is enough, because browsers share no state but the
tables, which administrators alone write. In Visitors two short ids and two apps
do the same, and two requests can rewrite one icon, or one rewrite and the other
delete; with two icons a listing can end in the middle. One device is enough,
because rows of different devices never meet in a statement. `MaxMishaps` is one
bound for kills and errors, and two of them can be one of each.

No step changes what `NormalizationKeepsPicture` says, so it is asked of the
initial state only, for the `Samples` that the configuration gives as `Files`: 2 x 2 RGB
under three pairs of filters and 1 x 2 RGBA under all pairs of the five, with every
assignment of the least and the greatest byte to the first line; the rest splits data over chunks,
cuts them short, appends bytes, contradicts size, colour or depth, promises more
bytes than an int counts, or misplaces and repeats the CgBI chunk. `Base` is 4:
every filter is arithmetic modulo it. CgBIProofs has no such bounds.

No deadlock is asked for in any run, because a server with no request, or a bound
used up, legitimately rests.

Properties that name an exception. `FilesBacked` excepts builds whose path was
used twice in one second (`storage.go:137`) and deletions cut short between the
file and the row. `RetentionBound` does not count the rows a pruning request has
still to delete, and allows one build more per upload that has still to prune,
per request a kill may have stopped, and per ignored error. `NoOrphans` excepts
files of deleted apps, since an upload that ends after the listing of
`handleAdminAppDelete` leaves its package; `FilesAreListed`, with one request at
a time, does not. `AdminRemainsUnlessOverlap` says what is left of the README's
promise. `DisabledKeepsOnlyStray` excepts the session of a login that had
checked the account before it was disabled (`handlers_admin.go:54`, `62`), and
those that a kill, or a failing DELETE, between the two statements of disabling
leaves. `PublishedOncePerAnswer` allows one version more per lost answer, because
the server may have published it, and one per refusal that came after the file
was saved. `TempFilesOwned` allows one temporary file more per kill and per
ignored error. `BannerTruthful` excepts what was sent before its short id changed
hands, and rows the database refused. `IconsIntact` and `ServedRepaired` except
an icon whose rewriting a kill or an error cut short (nothing repairs it, because
an empty file is not a CgBI picture), `NoOrphanIcons` one that a rewriting
created anew after its removal or that an ignored error spared.
`MemoryMatchesDisk` and `StartsAgain` except what requests that overlapped, or
one stopped between its renames, left in the files (`profile_signing.go:170`).

Some hazards go wrong in this code and no property of a run claims otherwise,
because nothing in the repository does. A pin that read its version before the
version was deleted leaves a dangling pointer. A deletion that compared the
pointer before an upload promoted its build clears the new build's pointer
(`handlers_admin.go:337`). Two first uploads of an app's platform both write its
bundle id, and the one that ends last wins (`storage.go:187`); with one request at
a time each of these two is a single test next to its write, and so they have no
property. `NoDanglingCurrent`, `FilesAreListed` and `NeverPrunesCurrent` hold, and
are proved, with one request at a time; with two, each fails. Only
`NeverPrunesCurrent` contradicts a promise in the documentation, and has a run
that shows it.

That a download never serves another build's bytes (`DownloadsServeOwnBytes`) is
proved and in no run: it takes a name given out again in a later second beside
two requests, more than a run of five minutes visits.

### Disagreements found

1. **The restart of the README's first-start steps fails** (`AccountsReadme`).
   `README.md:102-104` and the log line of `main.go:89` say to delete
   `[admin].password`; `config.go:164` requires it at every start.
2. **The last admin can be removed** (`AccountsLastAdmin`). `README.md:126`
   promises one remains; count and write are separate statements
   (`handlers_admin.go:637`, `665`, `722`).
3. **The current version can be pruned** (`CatalogPruneRace`).
   `config.example.toml:47` and `storage.go:197` say never; the current id is
   read before the rows are listed and deleted.
4. **A protected build cannot be downloaded by a browser** (`DownloadGatePackage`).
   The cookie's path is `/d/<short id>` (`handlers_public.go:210`); the gates at
   254 and 299 ask for it under `/manifest/` and `/file/`, where no browser sends
   it. `download_password.html:4` asks for the password to get in, and
   `README.md:13` lists the protection of apps as a feature.
5. **One build more is kept than configured** (`CatalogKeep`). `README.md:18` and
   `config.example.toml:47` say N builds of a platform are kept;
   `queries.go:366-370` keeps N beside the current one, as the comment at
   `storage.go:196` puts it. `RetentionBound` states what the code keeps.

A sixth has no run of its own, because it needs only an exception named above:
`README.md:113` says that disabling an account ends all its sessions at once, and
the comment at `queries.go:112` that existing sessions are deleted. A `stray`
session stays. Requests with it are refused while the account is disabled
(`middleware.go:62`), and served again once it is enabled.

## Fairness

`CliFairSpec`, and the `FairSpec` of Catalog and Accounts, ask weak fairness of each request's steps: the
Go scheduler runs every goroutine, and a client that stops sending is cut off by
`ReadTimeout` (300 s by default), after which the read fails and the handler
returns. They ask weak fairness of the start and the scan: `distsrv.service` has
`Restart=on-failure`. `CliFairSpec`, under which `RequestsFinish` is checked, asks
it of the server's steps below the command, and nothing of the client: it need
neither wait nor try again. The `FairSpec` of Accounts is that of AccountsReadme:
the violation of `RestartServes` does not rest on a start that never comes.
Nothing is asked of kills, of the clock or of the operator.

`SigningCert` has no liveness: a pair that does not load keeps the process down
on purpose. `DownloadGate` and `Visitors` have none either: whether a tester asks
again, or a device answers, is theirs to choose, and a request of either is a
bounded sequence of steps.

## What is proved

Every theorem is for any number of goroutines, apps, builds, accounts,
certificates, browsers, devices, kills and errors, and for files of any length.
Each state machine has an inductive invariant, which a run checks too: the property to be shown with what makes it
survive the steps of others. Proofs are split by the part of the invariant, then
by the steps of a running request, the beginning of one, and the environment.
They use the named assumptions on constants and nothing else, except that four
theorems of CatalogPolicyProofs have the hypothesis `OneAtATime`, that `Procs`
has one member at most.

**CatalogProofs**: `Invariance` (`IInv`), `TypeCorrectness`, `NoAliases`
(`CurrentNeverAliases`), `Refinement` (`ImplementsShelf`); and on the packages
on disk `FilesInvariance` (`FilesIInv`), `ListedHasPackage` (`FilesBacked`),
`ServesOwnBytes` (`DownloadsServeOwnBytes`), `NothingLeftBehind` (`NoOrphans`),
`TempFilesAreOwned` (`TempFilesOwned`).
`IInv == TypeOK /\ Carried /\ Anchored`. `TypeOK` bounds ids by the
AUTOINCREMENT counters. That is not enough: `PinWrite` and `UploadPromote` write
a pointer from a row read or inserted several steps before, so `Carried` says
that from the INSERT on, the row a request holds was published under its id, for
the app the request works on. `Anchored` adds that ids are published once and
that rows and non-null pointers designate what was published; then a pointer and
a listed row of one id are of the same app and platform, and each step is one of
Shelf. `BuildsAssumption` (there is a build of one of `Platforms`) and
`BoundsAssumption` (bounds are naturals) are used.

A package is written long
before its row and removed before it, by requests that hold what they read, so
the invariant follows a path from the rename to the last request that may use
it:

- `OneOwner`: the stamp of a path (app, platform, name, second) that was used
  once is of one row, listed or still held by a request, or of one upload that
  has no row yet. An undo can therefore remove no file but its own.
- `OwnBytes`: what is at such a path, if anything, is what was uploaded for the
  row; an upload about to insert has its package there.
- `GoneAtDeletion`: between the removal of a file and that of its row a request
  remembers the ids, and they are of the row or the app it is about to delete;
  so `gone` excuses a missing package only while a deletion is under way, and a
  kill turns it into `torn`.
- `Accounted`: `NoOrphans`, made inductive: a row whose file was removed
  accounts for no file, so deleting the row leaves none.
- `BusyServes`: requests run only while serving, so the scan meets no upload in
  flight. `TempFilesOwned` is inductive as it is.

**CatalogPolicyProofs**, with one request at a time: `SerialInvariance`
(`SerialIInv`), `NothingDangles` (`NoDanglingCurrent`), `EveryFileListed`
(`FilesAreListed`), `PruningSparesCurrent` (`NeverPrunesCurrent`).
Kills and ignored errors may come anywhere. `StillTrue` lists what each step
relies on from an earlier one: that the app seen is there, that the row about to become current is there, that the current id read is the current one
and none of the rows to delete, that the pointer compared before a deletion
designates no row about to go. `AppsOnce` makes the app updated the one that was
read, `ForeignKey` and `FilesHaveApps` say what the cascade and the listing of
`handleAdminAppDelete` leave. A second request can falsify `StillTrue`, which is
how the races described above come about.

With any number of requests: `RetentionInvariance` (`RetentionIInv`), `KeepsFew`
(`RetentionBound`). The bound itself is not inductive: a kill makes the rows that
pruning requests had still to delete count again, and the bound does not say how
many those are. So `Retained` says it for every set `done` of pruning requests
that are taken to have deleted what they have left: the rows that remain number
at most `Allowance` and one for each other upload between its INSERT and its last
DELETE. With no request in `done` that is the state after a kill, with all of
them it is the bound. An INSERT adds a row and a request to count; a listing,
one statement, leaves `KeepN` rows and the current one; a request that has
deleted all it listed has nothing left, so the count without it is the one with
it in `done`; a DELETE that fails, or a pruning that is skipped, costs one of
`faults`. `PrunesOwn` keeps what a request lists to its app and platform,
`ForeignKey` says that an app which vanished under an upload left no row, and
`ProcsAssumption` (there are finitely many requests) makes the count a number.

**CliUploadProofs**: `ServesAsCatalog` (`CliSpec => Spec`), so every theorem of
the two modules above holds beside clients; `CommandKeepsShelf`,
`CommandKeepsPointers` and `CommandKeepsDownloads` are those its run checks.
`CommandInvariance` (`CliIInv`), `PublishedOnce` (`PublishedOncePerAnswer`),
`CreatedIsPublished` (`CreatedMeansPublished`). `Attended` ties a waiting command
to one request and its file; `OneFile` says how far a request that serves a
command has come with it, and that it has an id exactly from the INSERT on.
`AccountedFor` makes the count inductive: a request that has published nothing
yet may still do so, so versions made and requests pending together number at
most the answers lost, the refusals after a saved file (`spoiled`) and the one
awaited or received. A repetition adds a request only after the earlier answer
arrived as a refusal or was lost.

**AccountsProofs**: `Invariance` (`IInv`), `TypeCorrectness`, `OwnedCredentials`
(`CredentialsBelongToTheirOwner`), `AdminStays` (`AdminRemainsUnlessOverlap`),
`DisablingEndsSessions` (`DisabledKeepsOnlyStray`), `OwnersRemoveTokens`
(`TokensRemovedByOwner`). That ids are given out once (`RowsOnce`) makes a row
found under an id the one read under it (`Owned`, `Carried`). For the last
admin, `Guarded` says what the count established: unless requests overlapped, a
request about to write leaves some active admin that is not its target; the
count of two or more gives that admin, by a fact on cardinalities, and no other
write can come between. Before the first start no admin is there, and the
migration or the bootstrap makes one before the server listens.

**SigningCertProofs**: `Invariance` (`IInv`), `MemoryHoldsAPair` (`LiveIsAPair`),
`DiskFollowsMemory` (`MemoryMatchesDisk`), `RestartLoads` (`StartsAgain`),
`KeysAreRenamedOrRemoved` (`NoKeyLeftBehind`). What an overlap leaves in the
files is anything, so the argument is about a request alone: while it is, no
other has begun (`Alone`), and the files hold what its step says they do
(`Undisturbed`). `Checked` says that what is about to be installed was compared,
which makes memory a pair whatever the overlap. `Together` says that unless
`broken`, disk and memory part only between the first change of the files and
that of the memory. `TempsOwned` gives every temporary key a request that will
rename or remove it, unless there was a kill or an error.

**DownloadGateProofs**: `Invariance` (`IInv`), `GateOpensForPassword`
(`OnlyPasswordInForceOpens`), `PageOpensForHolder` (`HolderSeesPage`).
`CookiesEntered`: a cookie in a jar, on its way to one or in a request was made
for a password this browser entered; the gate compares it with the row as it is
at that moment, so it opens for the password in force whatever the first read
saw. `HeldIsSent`: a page request whose browser still holds the app's cookie
brought it, and the app is as the request read it. `OneAppPerName` is what a URL
means.

**VisitorsProofs**: `Invariance` (`IInv`), `PageTellsTruth` (`BannerTruthful`),
`RewritingKeepsIcons` (`IconsIntact`), `RepairedWhenServed` (`ServedRepaired`),
`DeletionTakesIcons` (`NoOrphanIcons`). `Addressed` carries a request through the
two reads of its short id: until that changes hands, it designates the app the
request resolved to, and the row is there when the page says so. `Rewriters`
says that an open icon file is the version's, was one the conversion changes when
it was read and is not now, so any number of writers
over one icon end with a whole one. `Removing` says that a deletion about to
remove rows has removed their icons, or they are among `ghosts`.

**CgBIProofs**: `EveryPictureKept`, for every file of any chunks in any order, any
size, filters and bytes, and `PictureKept` (`NormalizationKeepsPicture`), for
whatever `Files` are. The one hypothesis is that the number of bytes the header
promises fits an int (`SizeFits`).

- Induction. The library's theorems take an operator and cannot be used, so
  `Induction` is stated of sets: one that has 0 and every successor has every
  natural number. It follows from the well-foundedness of `<`
  (`NatLessThanWellFounded`, `WFMin`), which gives every set of numbers a least
  one. The loops are functions for this reason: `FirstPassLoop`,
  `SecondPassLoop`, `LineLoop` and `PixelsLoop` show that each has one result
  after every step.
- Places. `LinesInOrder` and `SameLine` say that a byte is of one line only, so
  (`OnePixel`, `NoFilterOfPixel`) the bytes that are swapped are bytes 1 and 3 of
  a pixel, never a filter and never a byte of another channel; `InData` that they
  are among the data, and `SwappedBytes`, `FiltersStay` what the swap leaves.
- Filters. Undoing the filter of a byte looks at that channel of three pixels. If
  these have their colours swapped, so has the result (`UndoSwapped`), and by
  induction over the pixels and the lines so has the picture (`LineSwapped`,
  `PictureSwapped`).
- Streams and chunks. What was compressed is inflated again whatever follows it
  (`InflateDeflate`, `ZlibStream`), and the swap makes no end of a stream
  (`SwappedStream`). `Kept`, by induction over the chunks (`SecondPassKeeps`), is
  what the second pass has written, read again by the first: the header that
  counted, the new data once there was a place for them, no CgBI chunk.

Model-checked only: liveness (`RequestsFinish`; `RestartServes` is refuted), which needs
ENABLED, out of the prover's reach. No module has a RECURSIVE operator.

## Not modelled

- Passwords in Accounts, so password change and reset: a hash per account and
  one per request multiply its states beyond what a run can visit.
- An API token is created and deleted, never presented: `requireAPIToken` reads and
  changes only `last_used_at`.
- The details a device's callback brings beside its UDID, which a later form post
  replaces by nothing (`queries.go:431`).
- Between the redirect after a UDID and the page there may be an app password to
  enter; Visitors goes to the page.
- CgBI: what the loop does with a header whose number of bytes does not fit an
  int: the product wraps (`AsInt`), data that are too short may pass the check,
  and an index past them panics (`cgbi.go:99`). `NormalizationKeepsPicture` says
  nothing of such a file. A chunk that reaches past the end of the file gives it
  back unchanged, which is the file marked `cut`.
- Download counters, lists and exports, REST views, statistics and pages keep no
  state that another operation reads for more than display.
- The client's `config`, `list` and `create` commands and its saved token.
- Package parsers, the PKCS#7 signer, configuration defaults, the opening of the
  database and deployment keep no state that interleaves: their errors are those
  of formatting and parsing, better tested than modelled.
- TLS, net/http and SQLite are taken to do what the code relies on: atomic
  statements, cascades, ids that AUTOINCREMENT never reuses, `rename` that is
  atomic. SQLite runs with `synchronous(NORMAL)` in WAL mode, so a power failure
  may undo the last committed statements; kills of the process are modelled,
  power failures are not.

## Plan

What is left, in the order of what it would add:

1. Passwords in a module of their own: a change that verifies the hash its
   middleware read against a reset in between (`handlers_admin.go:86`).
2. The redirects of a disabled account with a stray session
   (`handlers_admin.go:26`), with the browser's side.
3. A negative `keep_versions_per_platform` (`queries.go:369`), once `KeepN` may be
   any integer in Catalog.
