---------------------------- MODULE FileStorage ----------------------------
(***************************************************************************)
(* FileStorageService: uploads of a CDN file store whose state is split    *)
(* between a SQL database (tables CDN.Files and CDN.FileVersions) and the  *)
(* shared disk, run by several requests at once on several web nodes.      *)
(*                                                                         *)
(* A request is used once.  Everything between two awaits or two file      *)
(* system calls of its handler is one action; SaveChangesAsync is one      *)
(* transaction and so one action.  The row of CDN.Files that a request     *)
(* inserts is named after the request.                                     *)
(*                                                                         *)
(* Data is abstract: a content stands for bytes and for their SHA-256, a   *)
(* path for a relative path and the absolute path it resolves to.  The     *)
(* files are not images: their variants are a matter of their own.         *)
(***************************************************************************)
EXTENDS Integers, FiniteSets

CONSTANTS
    Uploads,        \* calls of UploadAsync
    Registrations,  \* elFinder uploads, mirrored by RegisterPhysicalFileAsync
    Paths,          \* relative paths, under shared/ or companies/{id}/
    Contents,       \* file contents, identified with their hashes
    MayUpload,      \* the <<path, content>> pairs that clients send
    TempZone,       \* the paths under the temp/ folder, which is a legal one
    Overlapping,    \* whether two requests for one path may run at once
    MaxDeletes,     \* bound: how many assets are soft-deleted
    MaxFaults       \* bound: how many exceptions and crashes occur, and
                    \* how many deletions of temporary files fail

Requests == Uploads \cup Registrations

ASSUME RequestsAssumption == Uploads \cap Registrations = {}
ASSUME InputsAssumption == MayUpload \subseteq Paths \X Contents
ASSUME TempZoneAssumption == TempZone \subseteq Paths
ASSUME OverlappingAssumption == Overlapping \in BOOLEAN
ASSUME BoundsAssumption == MaxDeletes \in Nat /\ MaxFaults \in Nat

VARIABLES
    files,      \* CDN.Files: a row for each request that inserted one
    versions,   \* CDN.FileVersions: a set of rows
    disk,       \* the bytes found at each location that exists
    pc,         \* where each request is in its handler, or how it ended
    req,        \* the parameters and the local variables of each request
    faults      \* exceptions, crashes and failed deletions so far

vars == <<files, versions, disk, pc, req, faults>>

(* Places on the disk, as tuples of one length. *)
Canonical(p) == <<"canonical", p, 0>>
Archive(p, n) == <<"archive", p, n>>        \* <dir>/.versions/<name>/<n><ext>
Temp(r) == <<"temp", r, 0>>                 \* temp/<guid>.upload

Locations == ({"canonical"} \X Paths \X {0})
                \cup ({"archive"} \X Paths \X Nat)
                \cup ({"temp"} \X Requests \X {0})

IsDisk(d) ==
    DOMAIN d \subseteq Locations /\ \A l \in DOMAIN d : d[l] \in Contents

Exists(l) == l \in DOMAIN disk

(* Disks that result from deleting, writing and moving files. *)
Without(l) == [k \in DOMAIN disk \ {l} |-> disk[k]]
With(l, c) == [k \in DOMAIN disk \cup {l} |-> IF k = l THEN c ELSE disk[k]]
Moved(from, to) ==
    [k \in (DOMAIN disk \ {from}) \cup {to} |->
        IF k = to THEN disk[from] ELSE disk[k]]

FileRow == [path : Paths, hash : Contents, deleted : BOOLEAN]

VersionRow ==
    [asset : Requests, number : Nat, hash : Contents,
     archived : BOOLEAN,    \* PhysicalPath: the archive, or the canonical path
     isCurrent : BOOLEAN]

Locals ==
    [path : Paths, content : Contents,
     asset : Requests,      \* the row the request found, or its own
     hash : Contents,       \* the Hash of that row when it was read
     last : Nat,            \* maxVersion
     current : Nat,         \* currentRow.VersionNumber
     legacy : BOOLEAN,      \* currentRow is synthesized
     archived : BOOLEAN]    \* currentRow.PhysicalPath was set to the archive

(* Stages of an upload. *)
BeforeVersions == {"received", "newPath", "aliasing", "placing", "moving",
                   "inserting", "replacing"}
AfterVersions == {"archiving", "shelving", "shelved", "promoting", "swapping",
                  "committing"}
UploadStages == {"writing"} \cup BeforeVersions \cup AfterVersions
RegisterStages == {"registering", "hashed", "enrolling", "updating"}
Stages == UploadStages \cup RegisterStages

(* How a request ended; "stored", "aliased", "versioned", "enrolled" and   *)
(* "updated" have committed, the others changed no table.                  *)
Outcomes == {"stored", "aliased", "versioned", "duplicate", "rejected",
             "enrolled", "updated", "unchanged", "skipped",
             "failed", "crashed"}

Active(r) == pc[r] \in Stages

Live(a) == a \in DOMAIN files /\ ~files[a].deleted
LiveAt(p) == {a \in DOMAIN files : Live(a) /\ files[a].path = p}
LiveWith(c) == {a \in DOMAIN files : Live(a) /\ files[a].hash = c}

VersionsOf(a) == {v \in versions : v.asset = a}
NumbersOf(a) == {v.number : v \in VersionsOf(a)}

Goto(r, stage) == pc' = [pc EXCEPT ![r] = stage]

TypeOK ==
    /\ DOMAIN files \subseteq Requests
    /\ \A a \in DOMAIN files : files[a] \in FileRow
    /\ versions \subseteq VersionRow
    /\ IsDisk(disk)
    /\ pc \in [Requests -> {"idle"} \cup Stages \cup Outcomes]
    /\ req \in [Requests -> Locals]
    /\ faults \in Nat

(* The database and the disk are empty; each client has chosen what it     *)
(* will send.                                                              *)
Init ==
    /\ files = [a \in {} |-> {}]
    /\ versions = {}
    /\ disk = [l \in {} |-> {}]
    /\ pc = [r \in Requests |-> "idle"]
    /\ \E sent \in [Requests -> MayUpload] :
          req = [r \in Requests |->
                   [path |-> sent[r][1], content |-> sent[r][2],
                    asset |-> r, hash |-> sent[r][2],
                    last |-> 0, current |-> 0,
                    legacy |-> FALSE, archived |-> FALSE]]
    /\ faults = 0

----------------------------------------------------------------------------
(* UploadAsync: receiving the bytes and choosing what to do with them.     *)

MayStart(r) ==
    /\ pc[r] = "idle"
    /\ Overlapping \/ \A s \in Requests : Active(s) => req[s].path # req[r].path

(* WriteTempAsync creates the temporary file and starts to copy the body.  *)
StartUpload(u) ==
    /\ MayStart(u)
    /\ Goto(u, "writing")
    /\ disk' = With(Temp(u), req[u].content)
    /\ UNCHANGED <<files, versions, req, faults>>

(* The body is complete, within the size cap, and passes validation.       *)
Receive(u) ==
    /\ pc[u] = "writing"
    /\ Goto(u, "received")
    /\ UNCHANGED <<files, versions, disk, req, faults>>

(* SafeDelete is best effort: an exception in it is swallowed, the         *)
(* temporary file stays and the handler ends as if it were gone.           *)
SafeDelete(u) ==
    \/ /\ disk' = Without(Temp(u))
       /\ UNCHANGED faults
    \/ /\ Exists(Temp(u))
       /\ faults < MaxFaults
       /\ faults' = faults + 1
       /\ UNCHANGED disk

(* Mutant of End: no finally block. *)
EndWithoutFinally(u, outcome) == Goto(u, outcome) /\ UNCHANGED <<disk, faults>>

(* The handler returns or throws: the finally block, or the size cap in    *)
(* WriteTempAsync, deletes the temporary file if it is still there.        *)
End(u, outcome) == Goto(u, outcome) /\ SafeDelete(u)

(* The body exceeds the cap, the validator refuses it or the target leaves *)
(* the root.                                                               *)
Reject(u) ==
    /\ pc[u] = "writing"
    /\ End(u, "rejected")
    /\ UNCHANGED <<files, versions, req>>

(* The query by RelativePath has no ORDER BY: any live row may come first. *)
(* Identical content ends the request as a duplicate.                      *)
LookUpPath(u) ==
    /\ pc[u] = "received"
    /\ \/ \E a \in LiveAt(req[u].path) :
             /\ req' = [req EXCEPT ![u].asset = a, ![u].hash = files[a].hash]
             /\ IF files[a].hash = req[u].content
                THEN End(u, "duplicate")
                ELSE Goto(u, "replacing") /\ UNCHANGED <<disk, faults>>
       \/ /\ LiveAt(req[u].path) = {}
          /\ Goto(u, "newPath")
          /\ UNCHANGED <<disk, req, faults>>
    /\ UNCHANGED <<files, versions>>

(* The query by Hash looks at every live row, whatever its path.           *)
LookUpHash(u) ==
    /\ pc[u] = "newPath"
    /\ \/ \E a \in LiveWith(req[u].content) :
             /\ req' = [req EXCEPT ![u].asset = a]
             /\ Goto(u, "aliasing")
       \/ /\ LiveWith(req[u].content) = {}
          /\ Goto(u, "placing")
          /\ UNCHANGED req
    /\ UNCHANGED <<files, versions, disk, faults>>

(* Mutant of Insert: the row's Hash keeps its default, the empty string. *)
InsertWithoutHash(r, path, hash) ==
    files' = [a \in DOMAIN files \cup {r} |->
                IF a = r THEN [path |-> path, hash |-> "", deleted |-> FALSE]
                         ELSE files[a]]

(* A row is added to CDN.Files. *)
Insert(r, path, hash) ==
    files' = [a \in DOMAIN files \cup {r} |->
                IF a = r THEN [path |-> path, hash |-> hash, deleted |-> FALSE]
                         ELSE files[a]]

(* The alias takes the place of the row it was found by, not the path the  *)
(* client asked for, and has no version row.                               *)
CommitAlias(u) ==
    /\ pc[u] = "aliasing"
    /\ Insert(u, files[req[u].asset].path, req[u].content)
    /\ End(u, "aliased")
    /\ UNCHANGED <<versions, req>>

----------------------------------------------------------------------------
(* MoveOverwrite is two steps of the file system: the file at the target   *)
(* is deleted if it exists, then File.Move is called, which throws if the  *)
(* source is missing or the target exists again.                           *)

MoveOverwrite(u, from, to, clearing, moving, after) ==
    /\ \/ /\ pc[u] = clearing
          /\ disk' = Without(to)
          /\ Goto(u, moving)
          /\ UNCHANGED faults
       \/ /\ pc[u] = moving
          /\ Exists(from) /\ ~Exists(to)
          /\ disk' = Moved(from, to)
          /\ Goto(u, after)
          /\ UNCHANGED faults
       \/ /\ pc[u] = moving
          /\ ~Exists(from) \/ Exists(to)
          /\ End(u, "failed")
    /\ UNCHANGED <<files, versions, req>>

----------------------------------------------------------------------------
(* UploadAsync: a new path and new content.                                *)

Place(u) ==
    MoveOverwrite(u, Temp(u), Canonical(req[u].path),
                  "placing", "moving", "inserting")

CommitNew(u) ==
    /\ pc[u] = "inserting"
    /\ Insert(u, req[u].path, req[u].content)
    /\ versions' = versions \cup
          {[asset |-> u, number |-> 1, hash |-> req[u].content,
            archived |-> FALSE, isCurrent |-> TRUE]}
    /\ End(u, "stored")
    /\ UNCHANGED req

----------------------------------------------------------------------------
(* HandleExistingPathAsync: other content for a path that has a live row.  *)

MaxNumber(a) ==
    IF VersionsOf(a) = {} THEN 0
    ELSE CHOOSE n \in NumbersOf(a) : \A m \in NumbersOf(a) : m <= n

ReadVersions(u) ==
    LET a == req[u].asset
        current == {v \in VersionsOf(a) : v.isCurrent}
    IN /\ pc[u] = "replacing"
       /\ \/ \E v \in current :
                req' = [req EXCEPT ![u].last = MaxNumber(a),
                                   ![u].current = v.number,
                                   ![u].legacy = FALSE]
          \/ /\ current = {}
             /\ \E n \in {IF MaxNumber(a) = 0 THEN 1 ELSE MaxNumber(a)} :
                  req' = [req EXCEPT ![u].last = n, ![u].current = n,
                                     ![u].legacy = TRUE]
       /\ Goto(u, "archiving")
       /\ UNCHANGED <<files, versions, disk, faults>>

(* Mutant of LookAtCanonical: the bytes are never moved to the archive. *)
NeverArchive(u) ==
    /\ pc[u] = "archiving"
    /\ Goto(u, "promoting")
    /\ UNCHANGED <<files, versions, disk, req, faults>>

(* Without bytes at the canonical path there is nothing to archive.  The   *)
(* new PhysicalPath of the current row is noted here: the handler sets it  *)
(* after the move, and does not use it if the move throws.                 *)
LookAtCanonical(u) ==
    /\ pc[u] = "archiving"
    /\ IF Exists(Canonical(req[u].path))
       THEN Goto(u, "shelving") /\ req' = [req EXCEPT ![u].archived = TRUE]
       ELSE Goto(u, "promoting") /\ UNCHANGED req
    /\ UNCHANGED <<files, versions, disk, faults>>

(* Mutant of Shelf: the archive is named after the new version. *)
ShelfOfNewVersion(u) == Archive(req[u].path, req[u].last + 1)

Shelf(u) == Archive(req[u].path, req[u].current)

ArchiveCurrent(u) ==
    MoveOverwrite(u, Canonical(req[u].path), Shelf(u),
                  "shelving", "shelved", "promoting")

Promote(u) ==
    MoveOverwrite(u, Temp(u), Canonical(req[u].path),
                  "promoting", "swapping", "committing")

(* Mutant of InsertedRows: the new row takes the asset's Hash, which is     *)
(* assigned only afterwards.                                               *)
InsertedOldHash(u) ==
    {[asset |-> req[u].asset, number |-> req[u].last + 1,
      hash |-> req[u].hash, archived |-> FALSE, isCurrent |-> TRUE]}
    \cup IF req[u].legacy
         THEN {[asset |-> req[u].asset, number |-> req[u].last,
                hash |-> req[u].hash, archived |-> req[u].archived,
                isCurrent |-> FALSE]}
         ELSE {}

(* Mutant of UniqueIndexAllows: the index is not unique. *)
PlainIndexAllows(rows) == TRUE

(* The rows that SaveChangesAsync inserts, and the unique index on         *)
(* (FileAssetId, VersionNumber) that may refuse them.                      *)
InsertedRows(u) ==
    LET q == req[u] IN
    {[asset |-> q.asset, number |-> q.last + 1, hash |-> q.content,
      archived |-> FALSE, isCurrent |-> TRUE]}
    \cup IF q.legacy
         THEN {[asset |-> q.asset, number |-> q.last, hash |-> q.hash,
                archived |-> q.archived, isCurrent |-> FALSE]}
         ELSE {}

UniqueIndexAllows(rows) ==
    \A new \in rows : new.number \notin NumbersOf(new.asset)

(* Mutant of Retired: the superseded row takes the new content. *)
RetiredInPlace(u) ==
    {IF v.asset = req[u].asset /\ v.number = req[u].current
     THEN [v EXCEPT !.isCurrent = FALSE, !.hash = req[u].content]
     ELSE v : v \in versions}

(* The current row that was read, unless it was synthesized, is updated.   *)
Retired(u) ==
    LET q == req[u] IN
    {IF v.asset = q.asset /\ v.number = q.current /\ ~q.legacy
     THEN [v EXCEPT !.isCurrent = FALSE, !.archived = @ \/ q.archived]
     ELSE v : v \in versions}

(* Mutant of CommitVersion: the asset keeps its Hash. *)
CommitVersionRow(u) ==
    /\ pc[u] = "committing"
    /\ UniqueIndexAllows(InsertedRows(u))
    /\ versions' = Retired(u) \cup InsertedRows(u)
    /\ End(u, "versioned")
    /\ UNCHANGED <<files, req>>

CommitVersion(u) ==
    /\ pc[u] = "committing"
    /\ UniqueIndexAllows(InsertedRows(u))
    /\ versions' = Retired(u) \cup InsertedRows(u)
    /\ files' = [files EXCEPT ![req[u].asset].hash = req[u].content]
    /\ End(u, "versioned")
    /\ UNCHANGED req

(* Mutant of ConflictingVersion: the handler saves again, as it stands. *)
RetriedConflict(u) ==
    /\ pc[u] = "committing"
    /\ ~UniqueIndexAllows(InsertedRows(u))
    /\ UNCHANGED vars

(* The index refuses: the transaction is rolled back, DbUpdateException.   *)
ConflictingVersion(u) ==
    /\ pc[u] = "committing"
    /\ ~UniqueIndexAllows(InsertedRows(u))
    /\ End(u, "failed")
    /\ UNCHANGED <<files, versions, req>>

----------------------------------------------------------------------------
(* RegisterPhysicalFileAsync, called back by the elFinder connector.       *)

(* The connector (a library) writes the uploaded file in place.            *)
ConnectorWrites(g) ==
    /\ MayStart(g)
    /\ disk' = With(Canonical(req[g].path), req[g].content)
    /\ Goto(g, "registering")
    /\ UNCHANGED <<files, versions, req, faults>>

(* The hash is that of the bytes on the disk at this moment, if any.       *)
HashFile(g) ==
    /\ pc[g] = "registering"
    /\ IF Exists(Canonical(req[g].path))
       THEN /\ req' = [req EXCEPT ![g].hash = disk[Canonical(req[g].path)]]
            /\ Goto(g, "hashed")
       ELSE Goto(g, "skipped") /\ UNCHANGED req
    /\ UNCHANGED <<files, versions, disk, faults>>

LookUpRow(g) ==
    /\ pc[g] = "hashed"
    /\ \/ \E a \in LiveAt(req[g].path) :
             /\ req' = [req EXCEPT ![g].asset = a]
             /\ Goto(g, IF files[a].hash = req[g].hash THEN "unchanged"
                                                       ELSE "updating")
       \/ /\ LiveAt(req[g].path) = {}
          /\ Goto(g, "enrolling")
          /\ UNCHANGED req
    /\ UNCHANGED <<files, versions, disk, faults>>

(* No version row is written for a registered file. *)
CommitEnrolment(g) ==
    /\ pc[g] = "enrolling"
    /\ Insert(g, req[g].path, req[g].hash)
    /\ Goto(g, "enrolled")
    /\ UNCHANGED <<versions, disk, req, faults>>

CommitUpdate(g) ==
    /\ pc[g] = "updating"
    /\ files' = [files EXCEPT ![req[g].asset].hash = req[g].hash]
    /\ Goto(g, "updated")
    /\ UNCHANGED <<versions, disk, req, faults>>

----------------------------------------------------------------------------
(* The rest of the system as far as it touches this state.                 *)

(* SoftDeleteAsync: the row stays, its bytes and its versions too.         *)
SoftDelete(a) ==
    /\ Live(a)
    /\ Cardinality({b \in DOMAIN files : files[b].deleted}) < MaxDeletes
    /\ files' = [files EXCEPT ![a].deleted = TRUE]
    /\ UNCHANGED <<versions, disk, pc, req, faults>>

(* Mutant of Temporary: only the sub-folders of temp/ are looked at. *)
TemporaryBelow(l) == l[1] # "temp" /\ l[2] \in TempZone

(* CleanupTempJob deletes the files under temp/ last written 24 hours ago. *)
(* A request takes less than that, so its own bytes are younger while it   *)
(* runs; bytes of a request that ended may be of any age.                  *)
Fresh(l) ==
    \E r \in Requests :
       \/ l = Temp(r) /\ Active(r)
       \/ l = Canonical(req[r].path) /\ pc[r] \in {"inserting", "committing"}
                                                   \cup RegisterStages

Temporary(l) ==
    l[1] = "temp" \/ l[2] \in TempZone

CleanupTemp ==
    \E l \in DOMAIN disk :
       /\ Temporary(l) /\ ~Fresh(l)
       /\ disk' = Without(l)
       /\ UNCHANGED <<files, versions, pc, req, faults>>

(* An exception: an I/O error, a file held open by a download, a database  *)
(* error, the client's disconnection.  The finally block runs, and may     *)
(* fail for the same reason; an exception inside WriteTempAsync is outside *)
(* of it and leaves the temporary file.                                    *)
Throw(r) ==
    /\ faults < MaxFaults
    /\ Active(r)
    /\ Goto(r, "failed")
    /\ \/ UNCHANGED disk
       \/ /\ pc[r] \notin {"writing"} \cup RegisterStages
          /\ disk' = Without(Temp(r))
    /\ faults' = faults + 1
    /\ UNCHANGED <<files, versions, req>>

(* The web node stops: its request ends where it is.                       *)
Crash(r) ==
    /\ faults < MaxFaults
    /\ Active(r)
    /\ Goto(r, "crashed")
    /\ faults' = faults + 1
    /\ UNCHANGED <<files, versions, disk, req>>

----------------------------------------------------------------------------
UploadStep(u) ==
    \/ Receive(u) \/ Reject(u)
    \/ LookUpPath(u) \/ LookUpHash(u) \/ CommitAlias(u)
    \/ Place(u) \/ CommitNew(u)
    \/ ReadVersions(u) \/ LookAtCanonical(u) \/ ArchiveCurrent(u) \/ Promote(u)
    \/ CommitVersion(u) \/ ConflictingVersion(u)

RegisterStep(g) ==
    HashFile(g) \/ LookUpRow(g) \/ CommitEnrolment(g) \/ CommitUpdate(g)

Next ==
    \/ \E u \in Uploads : StartUpload(u) \/ UploadStep(u)
    \/ \E g \in Registrations : ConnectorWrites(g) \/ RegisterStep(g)
    \/ \E a \in DOMAIN files : SoftDelete(a)
    \/ CleanupTemp
    \/ \E r \in Requests : Throw(r) \/ Crash(r)

Spec == Init /\ [][Next]_vars

(* A request that has been accepted is run to its end by ASP.NET Core, and *)
(* Quartz fires the cleanup every day: neither waits on another request.   *)
(* A deletion that fails in the job is tried again on the next day.        *)
Fairness ==
    /\ \A u \in Uploads : WF_vars(UploadStep(u))
    /\ \A g \in Registrations : WF_vars(RegisterStep(g))
    /\ WF_vars(CleanupTemp)

FairSpec == Spec /\ Fairness
=============================================================================
