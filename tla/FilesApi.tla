------------------------------ MODULE FilesApi ------------------------------
(***************************************************************************)
(* The REST API of the files (FilesController), the upload callback of the *)
(* elFinder connector and the audit log, for callers of several companies. *)
(*                                                                         *)
(* A request runs in the steps that other requests can come between: the   *)
(* check of the caller, the work of the storage service, the audit entry.  *)
(* What the storage service does is one step here; FileStorage is about    *)
(* what can happen within it.                                              *)
(***************************************************************************)
EXTENDS PathLayout

CONSTANTS
    Callers,    \* signed-in users
    Claims,     \* caller -> [company, permissions] of its session
    Contents,   \* contents of files
    NoBytes,    \* what a path without a file holds
    Requests    \* requests that are ever made

Permissions == {"View", "Upload", "Edit", "Delete", "Download", "AllCompanies"}

ASSUME ClaimsAssumption ==
    Claims \in [Callers -> [company : Zones, permissions : SUBSET Permissions]]
ASSUME NoBytesAssumption == NoBytes \notin Contents

VARIABLES
    files,      \* CDN.Files: the rows, a row's id is its place
    disk,       \* path -> content
    audit,      \* CDN.AuditLogs: the entries
    req,        \* the requests
    provided    \* history: <<path, content>> that was written

vars == <<files, disk, audit, req, provided>>

Row == [path : Paths, company : Zones, name : Segments, content : Contents,
        deleted : BOOLEAN]

Idle == [stage |-> "idle"]

(* Every request of the API needs View, too: the policy of the controller. *)
Needs(action) == {"View"} \cup {action}

IsSuperAdmin(c) == "AllCompanies" \in Claims[c].permissions
CallerCompanyId(c) == Claims[c].company

(* Mutant of CanAccess: a company will do, whichever it is. *)
CanAccessOfAny(c, company) ==
    IsSuperAdmin(c) \/ (CallerCompanyId(c) = Shared <=> company = Shared)

CanAccess(c, company) == IsSuperAdmin(c) \/ company = CallerCompanyId(c)

Ids == DOMAIN files
Live == {f \in Ids : ~files[f].deleted}

(* Mutant of LiveAt: a row of any zone. *)
LiveAtName(path) == {f \in Live : FileName(files[f].path) = FileName(path)}

LiveAt(path) == {f \in Live : files[f].path = path}
LiveWith(content) == {f \in Live : files[f].content = content}

(* Mutant of BuildQuery: no company is no condition. *)
BuildQueryOfAny(allCompanies, company) ==
    {f \in Live : allCompanies \/ company \in {files[f].company, Shared}}

BuildQuery(allCompanies, company) ==
    {f \in Live : allCompanies \/ files[f].company = company}

(* GET /api/files, with ?companyId=asked unless that is Shared.            *)
List(c, asked) ==
    IF IsSuperAdmin(c) THEN BuildQuery(asked = Shared, asked)
                       ELSE BuildQuery(FALSE, CallerCompanyId(c))

Busy == {"storing", "connecting", "registering", "deleting", "opening",
         "auditing"}

Entry(r) ==
    [request |-> r, user |-> req[r].caller, action |-> req[r].op,
     file |-> IF req[r].op = "Download" THEN files[req[r].file].name
                                        ELSE req[r].path]

Goto(r, stage) == req' = [req EXCEPT ![r].stage = stage]

Stored(r, f, path) ==
    req' = [req EXCEPT ![r].stage = "auditing", ![r].file = f, ![r].path = path]

----------------------------------------------------------------------------
Init ==
    /\ files = <<>>
    /\ disk = [path \in Paths |-> NoBytes]
    /\ audit = {}
    /\ req = [r \in Requests |-> Idle]
    /\ provided = {}

Begin(r, stage, op, c, company, path, content, f) ==
    /\ req' = [req EXCEPT ![r] =
                  [stage |-> stage, op |-> op, caller |-> c,
                   company |-> company, path |-> path, content |-> content,
                   file |-> f]]
    /\ UNCHANGED <<files, disk, audit, provided>>

(***************************************************************************)
(* Upload.                                                                 *)
(***************************************************************************)

(* Mutant of TargetCompany: the company of the form counts. *)
TargetOfForm(c, company) == company

(* The company of the form counts for a super-admin only. *)
TargetCompany(c, company) ==
    IF IsSuperAdmin(c) THEN company ELSE CallerCompanyId(c)

Upload(r, c, company, folder, name, content) ==
    LET target == TargetCompany(c, company) IN
    /\ Needs("Upload") \subseteq Claims[c].permissions
    /\ Begin(r, "storing", "Upload", c, target,
             BuildRelativePath(target, folder, name), content, 0)

(* The storage service refuses the name, the size or the type. *)
Refuse(r) ==
    /\ req[r].stage = "storing"
    /\ Goto(r, "refused")
    /\ UNCHANGED <<files, disk, audit, provided>>

Write(path, content) ==
    /\ disk' = [disk EXCEPT ![path] = content]
    /\ provided' = provided \cup {<<path, content>>}

StoreDuplicate(r) ==
    /\ req[r].stage = "storing"
    /\ \E f \in LiveAt(req[r].path) :
          /\ files[f].content = req[r].content
          /\ Stored(r, f, files[f].path)
    /\ UNCHANGED <<files, disk, audit, provided>>

StoreVersion(r) ==
    /\ req[r].stage = "storing"
    /\ \E f \in LiveAt(req[r].path) :
          /\ files[f].content # req[r].content
          /\ files' = [files EXCEPT ![f].content = req[r].content]
          /\ Write(files[f].path, req[r].content)
          /\ Stored(r, f, files[f].path)
    /\ UNCHANGED audit

(* Mutant of Alias: the alias belongs to the company of the upload. *)
AliasOfUploader(r, f) ==
    [files[f] EXCEPT !.name = FileName(req[r].path),
                     !.company = req[r].company]

(* The row of an alias: path and company of the row found by the hash.     *)
Alias(r, f) == [files[f] EXCEPT !.name = FileName(req[r].path)]

StoreAlias(r) ==
    /\ req[r].stage = "storing"
    /\ LiveAt(req[r].path) = {}
    /\ \E f \in LiveWith(req[r].content) :
          /\ files' = Append(files, Alias(r, f))
          /\ Stored(r, Len(files) + 1, files[f].path)
    /\ UNCHANGED <<disk, audit, provided>>

NewRow(company, path, content) ==
    [path |-> path, company |-> company, name |-> FileName(path),
     content |-> content, deleted |-> FALSE]

StoreNew(r) ==
    /\ req[r].stage = "storing"
    /\ LiveAt(req[r].path) = {}
    /\ LiveWith(req[r].content) = {}
    /\ files' = Append(files, NewRow(req[r].company, req[r].path,
                                        req[r].content))
    /\ Write(req[r].path, req[r].content)
    /\ Stored(r, Len(files) + 1, req[r].path)
    /\ UNCHANGED audit

(***************************************************************************)
(* An upload through the connector, in the volume of the caller: all for a *)
(* super-admin, its company for another.  The shared zone is read-only.    *)
(***************************************************************************)

InVolume(c, path) ==
    \/ IsSuperAdmin(c)
    \/ CallerCompanyId(c) # Shared /\ InTree(CallerCompanyId(c), path)

Connect(r, c, path, content) ==
    /\ "View" \in Claims[c].permissions
    /\ InVolume(c, path)
    /\ Begin(r, "connecting", "Upload", c, ParseCompany(path), path, content, 0)

ConnectorWrites(r) ==
    /\ req[r].stage = "connecting"
    /\ Write(req[r].path, req[r].content)
    /\ Goto(r, "registering")
    /\ UNCHANGED <<files, audit>>

(* Removes a file of the disk and tells nobody. *)
ConnectorDeletes(c, path) ==
    /\ "View" \in Claims[c].permissions
    /\ InVolume(c, path)
    /\ disk[path] # NoBytes
    /\ disk' = [disk EXCEPT ![path] = NoBytes]
    /\ UNCHANGED <<files, audit, req, provided>>

(* Hashes what is at the path by now, into the row of the path.            *)
Registered(r, f) ==
    req' = [req EXCEPT ![r].stage = "auditing", ![r].file = f,
                       ![r].content = disk[req[r].path]]

RegisterRow(r) ==
    LET path == req[r].path IN
    /\ req[r].stage = "registering"
    /\ disk[path] # NoBytes
    /\ \E f \in LiveAt(path) :
          /\ files' = [files EXCEPT ![f].content = disk[path]]
          /\ Registered(r, f)
    /\ UNCHANGED <<disk, audit, provided>>

RegisterNew(r) ==
    LET path == req[r].path IN
    /\ req[r].stage = "registering"
    /\ disk[path] # NoBytes
    /\ LiveAt(path) = {}
    /\ files' = Append(files, NewRow(ParseCompany(path), path, disk[path]))
    /\ Registered(r, Len(files) + 1)
    /\ UNCHANGED <<disk, audit, provided>>

RegisterNothing(r) ==
    /\ req[r].stage = "registering"
    /\ disk[req[r].path] = NoBytes
    /\ Goto(r, "auditing")
    /\ UNCHANGED <<files, disk, audit, provided>>

(***************************************************************************)
(* Delete and Download.                                                    *)
(***************************************************************************)

(* GetAsync and CanAccess; any other id is not found. *)
Found(c, f) == f \in Live /\ CanAccess(c, files[f].company)

Delete(r, c, f) ==
    /\ Needs("Delete") \subseteq Claims[c].permissions
    /\ Found(c, f)
    /\ Begin(r, "deleting", "Delete", c, files[f].company, files[f].path,
             NoBytes, f)

Download(r, c, f) ==
    /\ Needs("Download") \subseteq Claims[c].permissions
    /\ Found(c, f)
    /\ Begin(r, "opening", "Download", c, files[f].company, files[f].path,
             NoBytes, f)

NotFound(r, c, f) ==
    /\ Needs("View") \subseteq Claims[c].permissions
    /\ ~Found(c, f)
    /\ Begin(r, "refused", "Delete", c, files[f].company, files[f].path,
             NoBytes, f)

(* Mutant of SoftDelete: the answer is given at once. *)
SoftDeleteUnaudited(r) ==
    /\ req[r].stage = "deleting"
    /\ files' = [files EXCEPT ![req[r].file].deleted = TRUE]
    /\ Goto(r, "done")
    /\ UNCHANGED <<disk, audit, provided>>

(* Whether the row was still live is not asked. *)
SoftDelete(r) ==
    /\ req[r].stage = "deleting"
    /\ files' = [files EXCEPT ![req[r].file].deleted = TRUE]
    /\ Goto(r, "auditing")
    /\ UNCHANGED <<disk, audit, provided>>

OpenRead(r) ==
    LET row == files[req[r].file] IN
    /\ req[r].stage = "opening"
    /\ ~row.deleted
    /\ disk[row.path] # NoBytes
    /\ req' = [req EXCEPT ![r].stage = "auditing", ![r].content = disk[row.path]]
    /\ UNCHANGED <<files, disk, audit, provided>>

OpenNothing(r) ==
    LET row == files[req[r].file] IN
    /\ req[r].stage = "opening"
    /\ row.deleted \/ disk[row.path] = NoBytes
    /\ Goto(r, "refused")
    /\ UNCHANGED <<files, disk, audit, provided>>

(***************************************************************************)
(* The last step of each: LogAsync, then the answer.                       *)
(***************************************************************************)

Audit(r) ==
    /\ req[r].stage = "auditing"
    /\ audit' = audit \cup {Entry(r)}
    /\ Goto(r, "done")
    /\ UNCHANGED <<files, disk, provided>>

(* An exception, or the end of the process. *)
Fail(r) ==
    /\ req[r].stage \in Busy
    /\ Goto(r, "failed")
    /\ UNCHANGED <<files, disk, audit, provided>>

----------------------------------------------------------------------------
Arrive(r) ==
    /\ req[r] = Idle
    /\ \E c \in Callers :
          \/ \E company \in Zones, folder \in Folders, name \in Names,
                content \in Contents :
                Upload(r, c, company, folder, name, content)
          \/ \E path \in Paths, content \in Contents :
                Connect(r, c, path, content)
          \/ \E f \in Ids : Delete(r, c, f) \/ Download(r, c, f)
          \/ \E f \in Ids : NotFound(r, c, f)

Store(r) ==
    \/ StoreDuplicate(r)
    \/ StoreVersion(r)
    \/ StoreAlias(r)
    \/ StoreNew(r)

Register(r) ==
    \/ RegisterRow(r)
    \/ RegisterNew(r)
    \/ RegisterNothing(r)

Step(r) ==
    \/ Refuse(r)
    \/ Store(r)
    \/ ConnectorWrites(r)
    \/ Register(r)
    \/ SoftDelete(r)
    \/ OpenRead(r)
    \/ OpenNothing(r)
    \/ Audit(r)

Next ==
    \/ \E r \in Requests : Arrive(r)
    \/ \E r \in Requests : Step(r)
    \/ \E r \in Requests : Fail(r)
    \/ \E c \in Callers, path \in Paths : ConnectorDeletes(c, path)

Spec == Init /\ [][Next]_vars
----------------------------------------------------------------------------
Request ==
    [stage : Busy \cup {"done", "refused", "failed"},
     op : {"Upload", "Delete", "Download"}, caller : Callers, company : Zones,
     path : Paths, content : Contents \cup {NoBytes}, file : Nat]

TypeOK ==
    /\ files \in Seq(Row)
    /\ disk \in [Paths -> Contents \cup {NoBytes}]
    /\ req \in [Requests -> {Idle} \cup Request]
    /\ provided \subseteq Paths \X Contents

(* A row belongs to the company in whose folder its path is read to lie,   *)
(* however it came about (upload, alias of an upload of another company,   *)
(* elFinder): access is decided by the one, bytes are found by the other.  *)
(* The exception are rows of no company: who uploads without one may name  *)
(* a folder of a company.                                                  *)
PutWithoutCompany(path) ==
    \E r \in Requests :
       /\ req[r] # Idle /\ req[r].stage # "storing"
       /\ req[r].op = "Upload" /\ req[r].company = Shared /\ req[r].path = path

RowsMatchPaths ==
    \A f \in Ids :
       \/ files[f].company = ParseCompany(files[f].path)
       \/ files[f].company = Shared /\ PutWithoutCompany(files[f].path)

(* What the user of a company downloads was never put into the tree of     *)
(* another company, whatever aliases, new versions, uploads into folders   *)
(* of companies and deletions came before.                                 *)
DownloadsComeFromTheZone ==
    \A r \in Requests :
       LET c == req[r].caller IN
       req[r].stage \in {"auditing", "done"} /\ req[r].op = "Download"
          /\ ~IsSuperAdmin(c) /\ CallerCompanyId(c) # Shared
        => \E path \in Paths :
              /\ ParseCompany(path) \in {CallerCompanyId(c), Shared}
              /\ <<path, req[r].content>> \in provided

(* The row of a file changes only by a request of a caller who may access  *)
(* the file, also when the check and the change are far apart, or by an    *)
(* upload to its path: of a user in whose company's tree the path lies, or *)
(* of a user without a company, who may name any folder.                   *)
MayChange(r, f) ==
    LET c == req[r].caller IN
    \/ CanAccess(c, files[f].company)
    \/ /\ req[r].op = "Upload"
       /\ CallerCompanyId(c) \in {ParseCompany(files[f].path), Shared}

OnlyTheTenantChanges ==
    [][\A f \in Ids :
          files'[f] # files[f] =>
             \E r \in Requests :
                req'[r] # req[r] /\ req[r] # Idle /\ MayChange(r, f)]_vars

(* A row and its content, and a deletion, have an entry in the audit log   *)
(* unless the request failed or is about to write it; and a Delete entry   *)
(* is about a file that is deleted, though another request may have been   *)
(* the one that deleted it.                                                *)
AuditMatchesRows ==
    LET Logged(r) == \/ Entry(r) \in audit
                     \/ req[r].stage \in {"auditing", "failed"}
        By(op, f) == {r \in Requests \ {q \in Requests : req[q] = Idle} :
                         req[r].op = op /\ req[r].file = f}
    IN /\ \A f \in Ids :
             /\ files[f].deleted => \E r \in By("Delete", f) : Logged(r)
             /\ \E r \in By("Upload", f) :
                   req[r].content = files[f].content /\ Logged(r)
       /\ \A e \in audit :
             e.action = "Delete" =>
                /\ req[e.request].file \in Ids \ Live
                /\ files[req[e.request].file].path = e.file

(* "A file that a company uploads is always in companies/{companyId}/...   *)
(* and only the users of that company see, edit or delete it": an upload   *)
(* of a user of a company ends in a row of a file in the company's tree.   *)
UploadsStayHome ==
    \A r \in Requests :
       LET company == CallerCompanyId(req[r].caller) IN
       req[r].stage \in {"auditing", "done"} /\ req[r].op = "Upload"
          /\ req[r].file # 0 /\ company # Shared
        => InTree(company, files[req[r].file].path)

(* What a caller is shown in the list is what the caller can open.         *)
ListsWhatCanBeOpened ==
    \A c \in Callers :
       LET found == {f \in Ids : Found(c, f)} IN
       \A asked \in Zones :
          LET listed == List(c, asked) IN
          IF IsSuperAdmin(c) /\ asked # Shared THEN listed \subseteq found
                                              ELSE listed = found
=============================================================================
