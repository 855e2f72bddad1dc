# CDN file service: specifications and proofs

TLA+ modules, TLC configurations and TLAPS proofs about the CDN file service
in `src/` (ASP.NET Core, EF Core on SQL Server, a shared disk, several web
nodes behind a load balancer).

## 1. The system

| Component | State it keeps | Operations | What makes it correct |
|---|---|---|---|
| `FileStorageService` | none of its own: rows of `CDN.Files` and `CDN.FileVersions`, bytes on the shared disk | `UploadAsync`, `HandleExistingPathAsync`, `RegisterPhysicalFileAsync`, `OpenReadAsync` | the version rows of an asset are a chain; no acknowledged upload is lost; the served path holds the current bytes; older versions keep theirs |
| Database schema (`AppDbContext`) | five tables; unique indexes on (`FileAssetId`, `VersionNumber`) and on `UserName` | transactions of `SaveChangesAsync` | the only mutual exclusion in the system |
| `FileMetadataService` | `IsDeleted` of the rows | `SoftDeleteAsync`; reads scoped to a tenant | a deletion never disturbs the history |
| `CleanupTempJob` (Quartz, daily) | files under `temp/` | deletes those older than 24 hours | removes what dead uploads left, nothing that is in use |
| `GenerateThumbnailJob` (5 minutes), `ImageSharpProcessor` | `<name>.webp`, `<name>_thumb.webp` beside an image | generate variants | a variant shows the image it is named after |
| `VerifyFileIntegrityJob` (daily) | none, logs | compares rows and bytes | reports what is wrong, and only that |
| `FilesController`, `AuditService` | `CDN.AuditLogs` | list, get, upload, delete, download | tenants are kept apart; what was done is in the log |
| `ElFinderController` and the elFinder library | volumes, files on the disk | the library writes files and calls back `RegisterPhysicalFileAsync` | the database follows the disk |
| `SsoTokenService`, `SsoController` | none: signed tokens, two clocks | `Generate`, `Validate`, sign in | a token is accepted in its time window only |
| `JwtTicketDataFormat`, cookie options | signed cookies with an expiry, renewed by sliding expiration | `Protect`, `Unprotect` | every node accepts the same cookies |
| `DbSeeder` | `CDN.AppUsers`, `CDN.UserClaims` | migrate, insert or complete the administrator | one administrator with every permission after any start-up |
| `AccountController`, `UserService`, `PasswordHasher` | cookie | login, logout | |
| Client-side validation: `jquery.validate.unobtrusive.js` on the forms of the views | rules of the fields, what the page shows of them | parse, submit, type, leave a field, reset | a page shows the verdict on what is entered; the rules mean what the markup says |

**How they interact.** A request reads the database through EF Core, awaits,
moves files, awaits, and saves in one transaction at its end. There is no lock
and no transaction around a handler, and the nodes share the database and the
disk, so that everything between two awaits or two calls of the file system may
be interleaved with other requests, with elFinder (which writes files first and
tells the database later), with the Quartz jobs of each node, and with the end
of a process. The nodes share no memory: a session is in the cookie only, and
any node judges and renews it by a clock of its own. elFinder reaches the storage service through a callback; the API
writes its audit entry after the storage service has committed.

**What is hard.** The state is split between two stores without a common
transaction; the bytes are moved before the rows are saved; a version number is
chosen from rows read earlier; two rows may share one file (aliases); a move
that overwrites is two steps; nothing is rolled back on the disk. The list of
hazards, each at its line, is `hazards` in `PROJECT.json`.

## 2. Modules

| Module | Contents |
|---|---|
| `FileStorage` | the storage service with elFinder's callback, soft deletion, the cleanup job, exceptions and crashes |
| `VersionHistory` | the abstract promise: each asset has an append-only history; an acknowledged upload extends one history once |
| `FileStorageProperties` | the properties of `FileStorage`, and the refinement mapping to `VersionHistory` |
| `FileStorageProofs` | the inductive invariant of the version rows and their theorems |
| `HistoryProofs` | `FileStorage` implements `VersionHistory` |
| `BytesProofs` | the theorems about the bytes: temporary files, the watched paths, readers |
| `MCFileStorage` | instances of `FileStorage` for TLC |
| `StorageReaders` | composed with `FileStorage`: downloads and `VerifyFileIntegrityJob`, which read rows first and files later |
| `MCReaders` | its instance |
| `PathLayout` | relative paths as segments: `BuildRelativePath`, `ParseCompanyAndFolder` and the trees of the companies, pure |
| `FilesApi` | on `PathLayout`: `FilesController`, elFinder's callback and the audit log for callers of several companies |
| `FilesApiProofs`, `MCFilesApi` | its theorems; its instance |
| `Sessions` | SSO tokens, login and the cookie under clocks that differ |
| `SessionsProofs`, `MCSessions` | its theorems; its instance |
| `ImageVariants` | the variants of images: the end of an upload or of a registration, and `GenerateThumbnailJob` |
| `ImageVariantsProofs`, `MCImageVariants` | its theorems; its instance |
| `UnobtrusiveRules` | the validation library, pure: from markup to rules, and the methods that judge a text |
| `ClientValidation` | the life of a form in the browser, with the sign-in action of the server |
| `ClientValidationProofs`, `MCClientValidation` | its theorems; its instance, with the sign-in form and assertions about adapters |
| `Startup` | `DbSeeder`: nodes that migrate and seed one database at start-up, and its properties |
| `StartupProofs` | its inductive invariant and theorems |
| `MCStartup` | an instance of `Startup` for TLC |

### FileStorage and the code

`files` and `versions` are the two tables, `disk` maps the locations that exist
to their bytes, `pc` says where each request is in its handler and `req` holds
the handler's parameters and locals. The row that a request inserts is named
after the request (each inserts at most one), which is what an identity column
does: the name is new. A content stands for bytes and for their SHA-256.

| Code (`FileStorageService` unless named) | Actions |
|---|---|
| `WriteTempAsync` | `StartUpload`, `Receive`; the size cap, the validator and the path check are `Reject` |
| query by `RelativePath`, the duplicate answer | `LookUpPath` |
| query by `Hash`, alias | `LookUpHash`, `CommitAlias` |
| new file | `Place` (the two steps of `MoveOverwrite`), `CommitNew` |
| `HandleExistingPathAsync` | `ReadVersions`, `LookAtCanonical`, `ArchiveCurrent`, `Promote`, `CommitVersion` or `ConflictingVersion` |
| the `finally` block | `End` with `SafeDelete`, part of every action that leaves the handler |
| elFinder's upload, `RegisterPhysicalFileAsync` | `ConnectorWrites` (external), `HashFile`, `LookUpRow`, `CommitEnrolment`, `CommitUpdate` |
| `FileMetadataService.SoftDeleteAsync` | `SoftDelete` |
| `CleanupTempJob.Execute` | `CleanupTemp` |
| any exception; the end of a process | `Throw`, `Crash` |

Details that matter and are kept: neither query has an `ORDER BY`, so any
matching row may come first; the alias takes the path of the row it was found
by; `MoveOverwrite` throws when the source is gone or the target is back;
`SaveChangesAsync` inserts, updates and checks the unique index in one
transaction and rolls back as one; an asset without version rows gets a
synthesized one. The temporary file survives an exception inside `WriteTempAsync`, a
crash anywhere, and the end of any upload whose `SafeDelete` could not remove it: that is best
effort and swallows the exception (`FileStorageService.cs:412`), so that the upload
ends as if nothing had happened. `MaxFaults` bounds these together, and
`TempFilesAreOwned` counts: there are no more temporary files that nobody needs
than there were faults, and an upload that still needs its own finds it.

Abstractions: formats of paths and names, sizes, MIME types and users; the files
are not images (variants are a component of their own); a request is used once;
a crash ends one request (several nodes are running, and a node that loses more
is several crashes); elFinder's commands other than upload are not taken. An
exception raised by `SaveChangesAsync` means that nothing was saved.

### Startup and the code

`schema` counts what exists: nothing, EF's history table, then each migration of
`Persistence/Migrations`. `admins` holds the rows of `CDN.AppUsers` with the
seeded user's name, `claims` those of `CDN.UserClaims`; a row is named after the
node that inserted it, and `Deployed` stands for an earlier release. `seen`,
`account` and `missing` are what a node has read.

| Code | Actions |
|---|---|
| `Program.cs:200-203`, IIS | `Start`; an exception ends the start-up: `Fail` |
| `MigrateAsync` (EF Core 8 takes no lock) | `ReadHistory`, `CreateHistory`, `Migrate` |
| the query with `Include(u => u.Claims)` | `LookUpAdmin` |
| the new administrator | `InsertAdmin`, refused by the unique index on `UserName` |
| the upgrade path | `CompleteAdmin` |
| a stopped process | `Crash` |

Passwords, names and the tables of a migration are abstracted, and so is `IsActive`
of the administrator, which the seeder sets on insertion and never looks at again: an
administrator that somebody switched off exists and cannot sign in. The database
itself exists. The nodes are hosted in process (`web.config:16`): one whose `Main`
threw answers 500.30 until its application pool is recycled or the next release is
deployed, and no request starts it again.

### StorageReaders and the code

`StorageStep` is any step of `FileStorage`. `FindRow` is the query of
`OpenReadAsync`, `OpenFile` and `FindNoFile` what it does with the row
afterwards. `ReadRows` is the query of `VerifyFileIntegrityJob`, `Check` one
round of its loop, `Abandon` the exception of a file that goes away while the job opens
or reads it, which ends the whole scan; `alarms` is what it logs. `touched` is history: where a
request was at work since the job read the rows. An open stream does not stop
others from writing here: on Windows it would make `MoveOverwrite` throw, which
is `Throw` of `FileStorage`. One thing a reader sees and a user may: the path is
empty between the two moves of a re-upload, so that a download at that moment is
answered "not found" though the file was never deleted.

### FilesApi and the code

`files` is `CDN.Files` (a row's id is its place), `disk` the files, `audit` the
entries of `CDN.AuditLogs`, and `req` the requests. What the
storage service does is one step: `FileStorage` is about what happens inside.

A path is a sequence of segments (`PathLayout`), in the case of the disk. An upload builds
its path from the company, the folder and the name (`BuildRelativePath`), and its row has the
company it was built with; a row that elFinder's callback makes has the company that is
read back from the path (`ParseCompany`). `int.TryParse` reads a number in several
spellings, so that `companies/019/x` is a file of company 19 that does not lie in
its folder; `Reading` says which company is read in which segment.

A client names any folder (`FilesController.cs:57` asks that there is one,
`FileStorageService.cs:351` sanitizes it), that of the companies too. For a user of a company
this changes nothing, the path begins with its own folder in any case. An upload without
a company, with `companies` as its folder and `19/x` below it, gets a path in
company 19's tree for a row that has no company, or replaces the row that
company 19 has at that path. No part of the model rules this out: `RowsMatchPaths` and
`OnlyTheTenantChanges` name the rows without a company and the uploads without a
company as what is left when everything else agrees, and TLC finds a
counterexample to either as soon as that part is dropped. It is a divergence from the
integration guide ("only the users of that company see, edit and delete it",
`docs/Integrate-Cdn-File-Service.md:51`), whose list of accounts (`:184-185`) knows no uploader
without a company but the super-admin; the code has them: an account without a
company claim and with the permission to upload. What holds whatever they do
is `DownloadsComeFromTheZone`.

The guide says two things about the shared zone. A company reads it, read-only, in the
File Manager (`:48`, `:52`, `:109`), which `InVolume` has as no place to write to; the
API shows a company its own files only and answers 404 for all others (`:184`), which is `CanAccess` and
`BuildQuery`. `DownloadsComeFromTheZone` allows for both readings, `ListsWhatCanBeOpened` is
about the API's.

| Code | Actions |
|---|---|
| `Upload`, with the company of the session or, of a super-admin, of the form | `Upload`, then `Refuse` or one of `StoreDuplicate`, `StoreVersion`, `StoreAlias`, `StoreNew` |
| `Delete`, `Download`, `Get` after `GetAsync` and `CanAccess` | `Delete`, `SoftDelete`; `Download`, `OpenRead`, `OpenNothing`; `NotFound` |
| elFinder's upload and its callback | `Connect`, `ConnectorWrites`, `RegisterRow`, `RegisterNew`, `RegisterNothing` |
| elFinder's removal (external) | `ConnectorDeletes` |
| `AuditService.LogAsync`, then the answer | `Audit` |
| an exception or the end of a process between two steps | `Fail` |
| `List`, `BuildQuery` | the operators of that name |

What a reader of the code should know, and the model keeps: the row of an alias
takes path *and* company from the row found by its hash, so that an upload may
end in a row of another company or of the shared zone, which the uploader cannot open
(`FilesController.cs:60` says that a company user "always uploads into their own company";
the run `foreign_alias` shows that `UploadsStayHome` fails). A caller
without a company sees the rows without one, while a comment of
`Permissions.cs:12` reads as if an absent company meant all of them. Two deletions of one
file may both be logged. A download is logged with the file's name only. What is
removed or downloaded through elFinder is not logged at all.

### Sessions and the code

`drift` says by how much each clock is ahead of the slowest; a clock reads
`now + drift[clock]`. `token` is the last token of the company site, `cookie`
what the browser holds. Their history fields (`born`, `touched`, `login`) say
when things really happened.

| Code | Actions and operators |
|---|---|
| `SsoTokenService.Generate` | `Generate` |
| `SsoTokenService.Validate`: not expired, does not live too long, both with the allowance | `Valid` |
| `SsoController.Index`, which filters the permissions | `SsoSignIn`, `Granted` |
| `AccountController.Login`, `Logout` | `Login`, `Logout` |
| `JwtTicketDataFormat.Unprotect`, and the cookie handler after it | `Accepts` |
| `SlidingExpiration` | `Visit`, `ShouldRenew`, `Renewed` |

`Validate` limits what a token has *left* to live, not its age, which is what
`SsoOptions.cs:15` says it does: a token with a longer life is refused at first
and accepted later (`SignOnsAreTimely` states the window that there is). The
allowance of `JwtTicketDataFormat` has no effect at the end of a ticket, for the
cookie handler has none. The audit entry of a sign-on is written before the
answer goes out, so that a failure there means no session. The browser sends one
request at a time, and a request whose answer is lost changes nothing.

### ImageVariants and the code

`disk` maps the file names of one folder to what the file shows and how it was
made, `rows` holds the live row of each path, `work` what each request and each
job is at.

| Code | Actions |
|---|---|
| `UploadAsync` and `RegisterPhysicalFileAsync` up to the commit | `Duplicate`, `Alias`, `Place`, `Commit` |
| `ImageSharpProcessor.GenerateVariantsAsync` | `Load`, `SaveFull` (not for a .webp), `SaveThumb` |
| the `catch` around it; an exception in the middle of a file | `Swallow` |
| the end of a process | `Crash` |
| `GenerateThumbnailJob.Execute` | `Fire`, `Inspect`, `Finish`, and the generation again |
| the job's limit of one day | `Age` |
| `SoftDeleteAsync` | `SoftDelete`: all files stay |

Kept, and worth knowing: the job goes by `CreatedDate`, which a re-upload does not
renew, and never replaces a thumbnail that exists, be it truncated or of a former
version; when an image is replaced by one that cannot be decoded, the variants of
the former one stay; `a.png` and `a.jpg` share their variants, and an upload
named like a variant is overwritten by it. Archives of former versions lie
outside the folder. Two things are simpler than in the code: `Place` takes the lookups of
the rows together with the move, and a path has one live row; what two rows of one path do
to the bytes is `concurrent_uploads`, and the variants are made of the bytes, not of the rows.

### UnobtrusiveRules, ClientValidation and the code

The library is vendored but it is the program's own rule set in the browser:
every form goes through it. `Adapters` is the list of the registered adapters in
their order, `RulesOf` what each makes of its attributes, `ParseElement` (the
adapters have their turns, `Adapt`) and `Parse` build the options, `RegexMethod` and `NonAlphaMinMethod` are the methods
it adds. Texts are sequences of two kinds of characters; a pattern is the
function from texts to their first match.

| Code | Actions |
|---|---|
| `$(function () { ... parse(document) })`, `attachValidation` | `Ready` |
| the plugin's `onkeyup`, `onfocusout`, `form()` with `onError`, `onSuccess`, `onErrors` | `Type`, `FocusOut`, `Submit` |
| a text that gets in without an event; a form sent before the document is ready | `Paste`, `SubmitUnchecked` |
| `onReset` | `Reset` |
| `AccountController.Login` (POST) and the page it answers with | `RefuseFields`, `RefuseCredentials`, `SignIn` |

The views load the minified build of the same file. The sign-in page has no reset
button; `Reset` stands for what a script or a later form does. Kept: labels lose
the class by which the plugin would find them, so that each verdict makes a new
one; when two attributes of a field make the same rule, the adapter registered
later wins silently; an empty message leaves the plugin's own message in force.
Two comments of the library say what it does not do, without effect on the
adapters registered here: `addMinMax` reads `min` and `max` whatever names its
arguments `minAttribute` and `maxAttribute` give, and `addSingleVal` has no
default `val` for its attribute.

## 3. Runs

A run takes values for the constants from its `.cfg`. `Overlapping` says whether
requests for one path may run at the same time, `MayUpload` which content may be
sent to which path, `Watched` which paths the properties about bytes
speak of. `CHECK_DEADLOCK FALSE` everywhere: a request is used once, so
that a finite instance stops when all have ended; nodes that run have nothing
left to do at start-up; and a signed-in user has left the form. `sessions` checks
for deadlock.

| Run | Instance | What it shows |
|---|---|---|
| `versions` | 3 uploads, 1 registration, 2 paths, 2 contents, all at once, 1 deletion, 1 fault | `VersionChain`, `AssetHashIsCurrent`, `NoLostUpdate`, `TempFilesAreOwned`, `HistoryIsKept` and the refinement `HistorySpec` hold whatever interleaves |
| `bytes` | 3 uploads, 1 registration, 2 paths, one of them watched and left in peace, 3 contents, 1 fault, 1 deletion; 1 download, 1 scan | `CanonicalIsCurrent`, `VersionsLeadToBytes`, `BytesPreserved` and `DuplicatesAreStored` hold of the watched path whatever happens at the other one; `DownloadsAreCurrent` and `AlarmsAreExplained`: what readers see, an upload in progress explains |
| `termination` | 2 uploads, 1 registration, 1 path, 2 faults, a `SafeDelete` that removes nothing among them, fair | `UploadsEnd` and `OrphansAreRemoved` |
| `startup` | 3 nodes, 2 migrations, 2 permissions, an empty or any older database, 1 node stopped from outside, fair | `ReadyToServe`, `FailuresAreProgress`, `NodesStart` |
| `files_api` | 2 companies and the shared zone; a user of one company, a user without one who uploads, a super-admin; `companies/<id>` of the first company as the folder of uploads, 1 name, and a folder with the id in another spelling; 2 contents, 3 requests of any kind, elFinder removals and exceptions anywhere | `RowsMatchPaths`, `DownloadsComeFromTheZone`, `OnlyTheTenantChanges`, `AuditMatchesRows`, `ListsWhatCanBeOpened` |
| `sessions` | 1 site, 2 nodes, clocks up to 2 apart with an allowance of 1, tokens of 2 and 6 with a limit of 2, a session of 5, 10 moments | `NoFalseRejection`, `SignOnsAreTimely`, `ActiveUsersStaySignedIn`, `IdleSessionsEnd`, `SessionsHoldGrantedRights` |
| `variants` | 1 upload, 1 registration, 1 job, names that share both variants, none, or are one another's; an undecodable image; 1 deletion, 1 fault; fair | `OriginalsAreKept`, `VariantsAreCurrent`, `ThumbnailsAppear` |
| `client_validation` | the sign-in form, and a field with each of the 32 combinations of bounds and pattern, required or not, with and without its own text; 5 texts | `VerdictsAreShown`, `ResetForgets`, `RulesMeanTheMarkup`, `OnlyBlanksAreRefused` |
| `concurrent_uploads` | 3 uploads of one path at once, no fault | `CanonicalIsCurrent` fails |
| `interrupted_upload` | 3 uploads of one path one after the other, 1 fault | `BytesPreserved` fails |
| `shared_path` | 4 uploads, one at a time per path, no fault, contents shared by paths | `BytesPreserved` fails |
| `foreign_alias` | the instance of `files_api` | `UploadsStayHome` fails |

**Findings.** The last four are the system's real limits, each a disagreement
with a comment in the code or a document (`findings` in `PROJECT.json`). What `concurrent_uploads`
shows of uploads is true of registrations as well: two that run at once both find no
row and both insert one, though the interface calls `RegisterPhysicalFileAsync`
"Idempotent on (relativePath, hash)" (`IFileStorageService.cs:21`). The version *rows* are
right under every interleaving, and so is the refinement; the *bytes* are not, and
the first three of these runs say what a path needs. The properties about bytes
therefore speak of *watched* paths, which

- are left in peace (`LeftInPeace`, in `PeacefulSpec`): uploads of the path run one
  after the other, elFinder writes no file there, and exceptions and crashes strike
  anywhere but at the five stages of `Moves`, between the first change at the path and
  the commit of its row;
- share no content with other paths (`Apart`; in the run, `DistinctContents`), so
  that no upload there becomes an alias or is found by its hash;
- lie outside `temp/` (`WatchedAssumption`), where the cleanup job deletes files and
  keeps their rows.

All of this is local: at the other paths uploads overlap, fail half-way, crash,
share files and come from elFinder. And all of it is needed. In the instance of
`bytes`, TLC finds a counterexample as soon as one condition goes: to
`BytesPreserved` if uploads of the watched path may overlap or elFinder may write there
(it overwrites the file of a current version, by design), to `CanonicalIsCurrent` if a
content of the watched path is sent for the other one too, and for each of the
five stages, if a fault may strike there, to `DownloadsAreCurrent` (`moving`,
`inserting`) or `CanonicalIsCurrent` (`promoting`, `swapping`, `committing`).

**Bounds and why they are enough.** Three uploads are what a conflict over a
version number needs (one to make the asset, two to race for the next number),
and with the registration and the alias they reach the synthesized first version
and its race. Two contents let a request be a duplicate, an alias or a new
version; two paths separate aliases from versions. One deletion and one fault
are placed anywhere in every behaviour. In `bytes`, `MCSpec`
keeps two shares of the requests (`AllOrTwo`): all are for the watched path, which three
uploads find empty, replace and replace again, with a fault before or after each; or two uploads
are, and the other upload and the registration run at the other path, between any of
their steps. `termination` has no symmetry, as liveness demands.
In `bytes` one download and one scan start at any moment and take their steps
anywhere among those of the uploads. In `files_api` three requests give an
upload, the alias of it in another zone, and a deletion or a download of either, or
a file that elFinder puts into a company's folder, an upload without a company to the
same path, and a third request that meets both. All uploads name
the folder of the first company, and the super-admin does not download or delete: `CanAccess`
and the actions are the same for any folder, and for whoever has the permission. One of the
paths is of the shortest kind from which a company is read. In `sessions` the clocks differ by less and by
more than the allowance, tokens live shorter and longer than the limit, and ten
moments are two sessions, enough for renewals by both nodes and a return after
half of the span. In `variants` an upload and a registration can replace each other's image, or
make variants that the other's name is; the fault may leave either variant half
written. In `client_validation` the sign-in form is that of the view; the
other forms are made up, one for each use of the library that the program's data
annotations could make. Texts are longer and shorter than each bound, and
every pair and triple of attributes occurs.
In `startup` two nodes suffice for each race; the third is
one that starts again while the others race. Symmetry elsewhere: the requests, paths and contents of `versions` are
interchangeable; in `bytes` only the requests are.

**Fairness.** `Fairness` is weak fairness of the steps of each started request,
and of `CleanupTemp`. ASP.NET Core runs an accepted request to its end and no
step of a handler waits for another request; Quartz fires the job daily
(`DependencyInjection.cs:49-54`). Nothing is assumed of the start of a request,
of deletions or of faults. The cleanup job's age limit is the guard `Fresh`: a
request takes less than 24 hours, so that its own files are younger than that
while it runs; a file of an ended request may be of any age. In `Startup` the
steps of a node that was started are weakly fair, its start is not: nothing brings a node
back that failed but a recycle of its application pool or the next deployment
("IIS will restart the app", `Jenkinsfile:60`). `NodesStart` is therefore about nodes that are
started again whenever they went down: such a node runs in the end, which says that no
start-up hangs and that starting again is enough. Being stopped from outside is bounded by `MaxCrashes`. A
temporary file that the cleanup job cannot delete is tried again on the next day (the exception is
caught for each file), which is why the job's step is fair though one deletion may fail.
In `ImageVariants` a request that was started and a job that fired go on, and
Quartz fires the job every five minutes (`DependencyInjection.cs:42-47`); an image that
is waited for may be deleted, replaced or grow too old, which `ThumbnailsAppear`
allows for.

## 4. Proofs

`FileStorageProofs` proves for every set of requests, paths and contents, any
bound on deletions and faults, and with or without overlap:

| Theorem | Property |
|---|---|
| `TypeCorrectness` | `TypeOK` |
| `ChainCorrectness` | `VersionChain` |
| `HistoryCorrectness` | `HistoryIsKept` |
| `UpdateCorrectness` | `NoLostUpdate` |
| `AssetHashCorrectness` | `AssetHashIsCurrent` |

The assumptions of these theorems are the five named ones of `FileStorage` (requests are uploads
or registrations, inputs are well typed, bounds are numbers).

**The argument.** A request reads the version rows in `ReadVersions` and writes
in `CommitVersion`, many steps later; the rows it read may be stale. `VersionChain`
alone is not inductive: a commit would have to know that the number it
chose is still the next one. The invariant `IInv` adds what a request's locals
still say of the table (`Snapshots`): `last` is at most the greatest number of
its asset, the row it read is at `current`, and *if* `last` is still the greatest
then the row at `last` is the one that was read. Because the numbers have no gap,
the number `last + 1` is free exactly when `last` is still the greatest: the
unique index acts as an optimistic lock, and a commit that the index admits
(`SnapshotIsCurrent`) sees an unchanged asset. So a commit appends to one chain
and retires its last row, `CommitKeepsIInv`; every other action leaves the
version rows alone, and `Classified` sorts the actions accordingly. The action
property and `NoLostUpdate` follow from the same facts about a commit.

`HistoryProofs` proves `Refinement`, that `Spec` implies `HistorySpec`, from the
same assumptions and with no restriction on what interleaves or fails. The
histories of an asset are defined there for any set of rows, so that those before and
after a step are values of one operator (`HistoryOfRows`: rows with the numbers 1 to
n make a sequence of n contents). `CommitNew` begins a history, `CommitVersion` appends
to one by the facts above, together with the synthesized first version if the asset
(an alias, a registered file) had none; both are `Publish`. Every other step stutters:
it leaves the version rows alone and acknowledges no upload as a version.

`BytesProofs` proves

| Theorem | Property | Condition |
|---|---|---|
| `TempCorrectness` | `TempFilesAreOwned` | none |
| `CanonicalCorrectness` | `CanonicalIsCurrent` | `Apart`, `PeacefulSpec` |
| `VersionsCorrectness` | `VersionsLeadToBytes` | `Apart`, `PeacefulSpec` |
| `PreservationCorrectness` | `BytesPreserved` | `Apart`, `PeacefulSpec` |
| `DuplicateCorrectness` | `DuplicatesAreStored` | `Apart`, `PeacefulSpec` |
| `AlarmCorrectness` | `AlarmsAreExplained` | `Apart`, `PeacefulReadersSpec` |
| `DownloadCorrectness` | `DownloadsAreCurrent` | `Apart`, `PeacefulReadersSpec` |
| `UndisturbedExecutions` | that `Spec` implies `PeacefulSpec` | no overlap, no elFinder, no fault |

for any number of requests, paths, contents, deletions, faults, downloads and rows of
a scan, and any set of watched paths, one path or all. The conditions are those of
Section 3, and the counterexamples there show that none is there for the proof's
sake; `UndisturbedExecutions` says that executions which meet them without being
restricted are there: where uploads take turns, elFinder is not used and nothing fails, every
execution is a peaceful one. What the theorems say is that nothing *else* breaks the
bytes of a watched path: no deletion at any moment, no cleanup, no failure while a body is
received or before a file is moved, and nothing that goes wrong at another path.

The invariant is `InOrder`, which is `Setting /\ Order`, and has these parts on top of
`IInv`. `Turns` is about the rows of watched paths: the requests that are active there
have different paths, so that what one read of its path stays true until it writes
(`Target`, `LiveAt`), but for a deletion, which may come between any two steps.
`Others` is about everybody else: rows, requests and files elsewhere keep to foreign
contents and to rows of their own paths, so that a query by hash never brings them
to a watched path. `Order` is about the disk, watched path by watched path: where each
version of a row is at each stage of a re-upload (`RowIsServed`, with the stages at which the
path is empty, `Gap`, or no longer has the bytes of the row, `Swap`), what may lie at
the path (`CanonicalIsKnown`), and what the request relies on (`RequestIsOnCourse`).
A step of one request, wherever it works and however it ends, touches its own temporary
file, its path and that path's archives (`ActTouches`), and rows of its path; this leaves
every other watched path in order (`OrderStep`), so that each action is proved for the
path it works on only. A fault outside the moves has changed nothing but the
temporary file (`FaultOrder`), and the next upload starts as if it had not been.
`TempCorrectness` needs none of this: every step keeps the bodies of the other uploads
(`NextKeepsTemps`), and a temporary file becomes one that nobody needs only in a
step that counts a fault, one at a time (`OrphansAreCounted`, from `FewerOrphans` and
`OneMoreOrphan` about the cardinality of the set).
For the readers, `RInv` adds that what the job has read of a row and
not yet checked is still so where no request was at work since; a request at work is
known to the job from the moment it reads the rows.

`StartupProofs` proves, for any number of nodes, migrations, permissions and
crashes, from the three assumptions of `Startup`:

| Theorem | Property |
|---|---|
| `StartupTypeCorrectness` | `TypeOK` |
| `ReadinessCorrectness` | `ReadyToServe` |
| `FailureBound` | `FailuresAreProgress` |

Its invariant says what a node may still rely on between reading and writing
(`Snapshots`: tables and claims only grow, so that what was missing may have come
but nothing went), and by how much the failures of a node lag behind what it has
seen of the database (`Failures`): a conflict is always with a change after the
node's last read. The bound is what makes start-up end: with two migrations a
node fails at most four times, whatever the number of nodes.

`FilesApiProofs` proves, for any companies, callers with any permissions, names,
folders, paths, contents and requests, from the three assumptions of `PathLayout`
and the two of `FilesApi`:

| Theorem | Property |
|---|---|
| `ZoneCorrectness` | `RowsMatchPaths` |
| `DownloadCorrectness` | `DownloadsComeFromTheZone` |
| `ChangeCorrectness` | `OnlyTheTenantChanges` |
| `AuditCorrectness` | `AuditMatchesRows` |
| `ListCorrectness` | `ListsWhatCanBeOpened` |

Access is checked once, against the company of a row; the row is used later, and
the bytes are found by its path. The invariant says why that is enough: rows are
appended and updated, but company and path of a row never change and agree
(`RowsMatchPaths` again, which is inductive because an alias copies both, because a path
that is built for a company is read as that company's whatever folder it names,
`BuiltPath`, and because a request that put a file without a company stays its witness,
`RowsKeepMatching`); a request past its check may access the row it holds, or place a
file at its path (`RequestIsChecked`); and what lies at a path was put there, as
`provided` records. The assumption about `Reading` says no more than that a
number as the service writes it is read as itself.
For the log, `AuditInv` relates three things that are written at different
moments. A row has a witness, the request that
made it or gave it its content, and a deleted one the request that deleted it
(`RowIsExplained`); a request that is done has its entry (`RequestIsLogged`), and every entry
is that of a request that is done (`EntryIsTrue`). What a request found may be
deleted or replaced by another before its entry is written, but it was true then and
rows never come back. `ListCorrectness` compares two pieces of code, the filter of
`BuildQuery` and the check `CanAccess`, which have to agree on any row.

`SessionsProofs` proves, for any nodes, constant drifts, allowance, limits and
sets of permissions, and without an end of time, from the three assumptions of
`Sessions`:

| Theorem | Property |
|---|---|
| `AcceptanceCorrectness` | `NoFalseRejection` |
| `SignOnCorrectness` | `SignOnsAreTimely` |
| `ActivityCorrectness` | `ActiveUsersStaySignedIn` |
| `IdlenessCorrectness` | `IdleSessionsEnd` |
| `RightsCorrectness` | `SessionsHoldGrantedRights` |

The invariant ties the times written in a token and in a cookie to the moments
they were made at (`TokenMade`, `CookieMade`), and says that at the last visit
half of the span was left *by the clock of some node* (`HalfLeft`): a node that did not
renew saw that half was left, and a renewal gives all of it. `ActiveUsersStaySignedIn`
is not inductive without it, for the node that judges next has another clock.
(`MaxNow` bounds the time in `Tick`; it is any number.)

`ImageVariantsProofs` proves, for any names, contents, requests, jobs, deletions
and faults, from the four assumptions of `ImageVariants` (one says that a file name
has the three parts the model gives it):

| Theorem | Property |
|---|---|
| `OriginalsCorrectness` | `OriginalsAreKept` |
| `VariantsCorrectness` | `VariantsAreCurrent` |

Both speak of a name at rest, and are not inductive: how a name
comes to rest depends on who had it in hand. The invariant (`NameInOrder`) is about
names that share no file with other names and are not disturbed: at most one
request or job has such a name in hand, and what that one loaded and saved so far
is made of the bytes that lie there now (`OnCourse`); if nobody has it in hand, the
variants are complete. A job that finds the thumbnail missing and a request that
replaces the image at that moment mark the name as disturbed, so that nothing is
claimed of it before a request has gone through alone; that is where the code
does leave a variant of a former image.

`ClientValidationProofs` proves, for all forms, fields, attributes and texts, from
the one assumption that a text may be empty:

| Theorem | Property |
|---|---|
| `VerdictCorrectness` | `VerdictsAreShown` |
| `ResetCorrectness` | `ResetForgets` |
| `RulesCorrectness` | `RulesMeanTheMarkup` |
| `BlanksCorrectness` | `OnlyBlanksAreRefused` |
| `RulesOfElement` | what `ParseElement` makes of any element |

The first needs that a field judged before the handlers were attached does not
exist, the second that a field which was not judged since a reset is in none of
the plugin's objects.

The other two rest on what the registered adapters make of an element, which
`ParseElement` computes by a recursive function over their list. `RulesOfElement` says
it without the recursion: a rule is there exactly if some adapter whose attribute the
element has makes it (or it is the `__dummy__` that every field has), and its parameter
is that of the adapter registered last. The library's
induction over the numbers takes an operator, which the provers cannot instantiate; the
same induction for a *set* of numbers (`SetInduction`) follows from the minimal element that its
complement would have. On top of it there is one lemma for each kind of adapter,
saying when its rules pass a text (`RequiredPass`, `MinMaxPass`, `RegexPass`), and
`DemandedByAdapters`, saying that they pass together when the attributes are
obeyed. `RulesMeanTheMarkup` speaks of elements with the attributes that ASP.NET Core writes
(`Annotated`) of which no two make the same rule (`Unambiguous`): of two that do, the one
registered later counts and the other is not checked. The invariant (`Attached`) says
that the plugin has the rules of the page's form from the moment it is attached
until the form has been sent.

**Only model-checked** is liveness (`UploadsEnd`, `OrphansAreRemoved`, `NodesStart`,
`ThumbnailsAppear`), which needs ENABLED. What the four violation runs find is a
fact about their instances and needs no proof. Every other property of the runs is a
theorem: the invariants, the action properties and the refinement.

## 5. Plan

Done: `FileStorage`, its proofs and its refinement of `VersionHistory`; `Startup` and
its proofs; the readers (`StorageReaders`) and the theorems about the bytes, with
conditions on the watched paths only; `PathLayout`, `FilesApi` and its proofs; `Sessions`
and its proofs; `ImageVariants` and its proofs; `ClientValidation` and its proofs, down to
what each adapter contributes.

Left, most important first:

1. Contents shared by paths: the bytes of watched paths as long as the rows of those
   contents are not aliases, which would need the order of the hash lookups.
2. That a request of `FileStorage` can only end in an outcome, and each acknowledged
   outcome has its row, as a step property; with it the part of `UploadsEnd` that is
   safety (the stages decrease).
3. Downloads that keep a handle open while a re-upload moves the file under them:
   `MoveOverwrite` throws between its steps for as long as they last.
4. In `PathLayout`, sanitizing, and the logical folder: an upload keeps the folder
   as it was asked for, the callback the segment at its place in the path, which for
   a file right below a company's directory is the file's name.

## 6. Not modelled

- Startup wiring, middleware, views, logging and health checks: no state whose
  order matters.
- Password hashing, image coding, HMAC and JWT: library calls, whose results are
  data or free choices here.
- The `Sanitize` functions, the names of archived files, the validator's rules for
  names, and a row's `Folder` (a label that only filters a list): string
  processing; a segment is a value.
- elFinder's commands other than upload and removal: the library is not in the
  repository. Renaming, moving and copying are writes and removals to the disk;
  what the database learns of them is the same callback or nothing.
- Of jQuery Validate, the methods the sign-in form does not use and remote
  calls; of the other vendored assets (Bootstrap, jQuery, style sheets), nothing. `site.js`
  holds comments only.
- A sign-out that races a renewal in another tab of the same browser: no text of
  the repository promises what happens then; requests of a browser are serial
  in `Sessions`.
