--------------------------- MODULE FilesApiProofs ---------------------------
(***************************************************************************)
(* For every set of companies, callers, permissions and requests: a row    *)
(* belongs to the company in whose folder its file is read to lie, changes *)
(* by a request of a caller who may access or place it, and what a company *)
(* downloads comes from its zone.                                          *)
(***************************************************************************)
EXTENDS FilesApi, TLAPS

(* A content on the disk was written where it lies. *)
DiskIsProvided ==
    \A path \in Paths :
       disk[path] # NoBytes => <<path, disk[path]>> \in provided

(* A content was not written into the tree of another company. *)
WasProvided(c, content) ==
    \E path \in Paths : /\ ParseCompany(path) \in {CallerCompanyId(c), Shared}
                        /\ <<path, content>> \in provided

(* A file of a path is one that a caller may place there. *)
MayPlace(c, path) ==
    IsSuperAdmin(c) \/ CallerCompanyId(c) \in {ParseCompany(path), Shared}

Writing == {"storing", "connecting", "registering"}
Chosen == {"deleting", "opening"}

(* What a request was checked for holds as long as it matters. *)
RequestIsChecked(r) ==
    /\ req[r].stage \in Writing =>
          /\ req[r].op = "Upload"
          /\ req[r].content \in Contents
          /\ req[r].company # Shared => ParseCompany(req[r].path) = req[r].company
          /\ MayPlace(req[r].caller, req[r].path)
    /\ req[r].stage \in Chosen =>
          /\ req[r].file \in Ids
          /\ CanAccess(req[r].caller, files[req[r].file].company)
    /\ req[r].stage = "deleting" => req[r].op = "Delete"
    /\ req[r].stage \in {"auditing", "done"} /\ req[r].op = "Download" =>
          \/ IsSuperAdmin(req[r].caller)
          \/ CallerCompanyId(req[r].caller) = Shared
          \/ WasProvided(req[r].caller, req[r].content)

IInv ==
    /\ TypeOK
    /\ RowsMatchPaths
    /\ DiskIsProvided
    /\ \A r \in Requests : RequestIsChecked(r)

(* A row keeps its place, path, company and name, and stays deleted. *)
RowsStay ==
    /\ Ids \subseteq Ids'
    /\ \A f \in Ids : /\ files'[f].path = files[f].path
                      /\ files'[f].company = files[f].company
                      /\ files'[f].name = files[f].name
                      /\ files[f].deleted => files'[f].deleted

(* A request that is past the storing keeps where it was put, and for whom. *)
RequestStays(r) ==
    req[r].stage \notin {"idle", "storing"} =>
       /\ req'[r].stage \notin {"idle", "storing"}
       /\ req'[r].op = req[r].op
       /\ req'[r].company = req[r].company
       /\ req'[r].path = req[r].path

RowMatches(f) ==
    \/ files[f].company = ParseCompany(files[f].path)
    \/ files[f].company = Shared /\ PutWithoutCompany(files[f].path)

----------------------------------------------------------------------------
(* A path that is read lies with one company, its own if in its tree.      *)
LEMMA ParsedZone ==
    ASSUME NEW path
    PROVE  ParseCompany(path) \in Zones
  BY ZonesAssumption, ReadingAssumption DEF ParseCompany, Zones

LEMMA ParsedTree ==
    ASSUME NEW path \in Seq(Segments), NEW company \in Companies,
           InTree(company, path)
    PROVE  ParseCompany(path) = company
<1>1. Len(path) \in Nat
  OBVIOUS
<1> QED
  BY <1>1, ReadingAssumption DEF ParseCompany, InTree

(* The path that is built for a company is read to lie with it.            *)
LEMMA BuiltPath ==
    ASSUME NEW company \in Zones, NEW folder \in Folders, NEW name \in Names
    PROVE  LET path == BuildRelativePath(company, folder, name)
           IN /\ path \in Seq(Segments) /\ Len(path) > 0
              /\ company # Shared => ParseCompany(path) = company
<1> DEFINE path == BuildRelativePath(company, folder, name)
<1>1. /\ folder \in Seq(Segments) /\ Len(folder) \in Nat
      /\ name \in Segments /\ CompaniesFolder \in Segments
  BY SegmentsAssumption
<1>2. CASE company = Shared
  <2>1. path = <<>> \o folder \o <<name>>
    BY <1>1, <1>2 DEF BuildRelativePath
  <2>2. path = folder \o <<name>>
    BY <1>1, <2>1
  <2> HIDE DEF path
  <2>3. path \in Seq(Segments) /\ Len(path) = Len(folder) + 1
    BY <1>1, <2>2
  <2> QED
    BY <1>1, <1>2, <2>3 DEF path
<1>3. CASE company # Shared
  <2>1. company \in Companies /\ company \in Segments
    BY <1>3, SegmentsAssumption DEF Zones
  <2> DEFINE base == <<CompaniesFolder, company>>
  <2>2. path = base \o folder \o <<name>>
    BY <1>3 DEF BuildRelativePath
  <2>3. /\ base \in Seq(Segments) /\ Len(base) = 2
        /\ base[1] = CompaniesFolder /\ base[2] = company
    BY <1>1, <2>1
  <2> HIDE DEF base, path
  <2>4. /\ base \o folder \in Seq(Segments)
        /\ Len(base \o folder) = 2 + Len(folder)
        /\ (base \o folder)[1] = base[1] /\ (base \o folder)[2] = base[2]
    <3>1. ASSUME NEW s \in Seq(Segments), NEW t \in Seq(Segments), Len(s) = 2
          PROVE  /\ s \o t \in Seq(Segments) /\ Len(s \o t) = 2 + Len(t)
                 /\ (s \o t)[1] = s[1] /\ (s \o t)[2] = s[2]
      <4>1. /\ s \o t \in Seq(Segments) /\ Len(t) \in Nat
            /\ Len(s \o t) = Len(s) + Len(t)
        OBVIOUS
      <4>2. 1 \in 1 .. Len(s \o t) /\ 2 \in 1 .. Len(s \o t)
        BY <3>1, <4>1
      <4> QED
        BY <3>1, <4>1, <4>2
    <3> QED
      BY <1>1, <2>3, <3>1
  <2>5. /\ path \in Seq(Segments) /\ Len(path) = 3 + Len(folder)
        /\ path[1] = CompaniesFolder /\ path[2] = company
    BY <1>1, <2>2, <2>3, <2>4
  <2>6. InTree(company, path)
    BY <1>1, <2>5 DEF InTree
  <2> QED
    BY <1>1, <2>1, <2>5, <2>6, ParsedTree DEF path
<1> QED
  BY <1>2, <1>3

LEMMA PathsAreSequences ==
    \A path \in Paths : path \in Seq(Segments) /\ Len(path) > 0
<1>1. \A path \in Elsewhere : path \in Seq(Segments) /\ Len(path) > 0
  BY SegmentsAssumption
<1> QED
  BY <1>1, BuiltPath DEF Paths

LEMMA FileNames == \A path \in Paths : FileName(path) \in Segments
  BY PathsAreSequences DEF FileName

----------------------------------------------------------------------------
LEMMA Typed ==
    ASSUME TypeOK, NEW r \in Requests, req[r].stage \in Busy
    PROVE  req[r] \in Request
  BY DEF TypeOK, Idle, Busy

(* An append adds one row behind the others. *)
LEMMA AppendRow ==
    ASSUME files \in Seq(Row), NEW row \in Row, files' = Append(files, row)
    PROVE  /\ files' \in Seq(Row)
           /\ RowsStay
           /\ Len(files) + 1 \in Nat
           /\ \A f \in Ids' : f \in Ids \/ files'[f] = row
  BY DEF RowsStay, Ids

(* The content or the mark of deletion of one row is set. *)
LEMMA UpdateRow ==
    ASSUME files \in Seq(Row), NEW f \in Ids,
           \/ files' = [files EXCEPT ![f].deleted = TRUE]
           \/ \E content \in Contents :
                 files' = [files EXCEPT ![f].content = content]
    PROVE  /\ files' \in Seq(Row)
           /\ RowsStay
           /\ Ids' = Ids
           /\ \A g \in Ids : g # f => files'[g] = files[g]
<1>1. files[f] \in Row /\ \A g \in Ids : files[g] \in Row
  BY DEF Ids
<1>2. Ids' = Ids /\ \A g \in Ids : g # f => files'[g] = files[g]
  BY DEF Ids
<1>3. /\ files'[f] \in Row
      /\ files'[f].path = files[f].path
      /\ files'[f].company = files[f].company
      /\ files'[f].name = files[f].name
      /\ files[f].deleted => files'[f].deleted
  BY <1>1, ZenonT(60) DEF Row, Ids
<1>4. files' \in Seq(Row)
  <2>1. Len(files) \in Nat /\ Ids = 1 .. Len(files) /\ Ids' = Ids
    BY <1>2 DEF Ids
  <2>2. files' = [g \in 1 .. Len(files) |-> files'[g]]
    BY <2>1 DEF Ids
  <2>3. \A g \in 1 .. Len(files) : files'[g] \in Row
    BY <1>1, <1>2, <1>3, <2>1
  <2> QED
    BY <2>1, <2>2, <2>3
<1> QED
  BY <1>1, <1>2, <1>3, <1>4 DEF RowsStay

(* Rows that stay match as long as the requests stay.                      *)
LEMMA RowsKeepMatching ==
    ASSUME TypeOK, RowsMatchPaths, RowsStay,
           \A r \in Requests : RequestStays(r), NEW f \in Ids
    PROVE  RowMatches(f)'
<1>1. ASSUME NEW path, PutWithoutCompany(path)
      PROVE  PutWithoutCompany(path)'
  <2>1. PICK r \in Requests :
           /\ req[r] # Idle /\ req[r].stage # "storing"
           /\ req[r].op = "Upload" /\ req[r].company = Shared
           /\ req[r].path = path
    BY <1>1 DEF PutWithoutCompany
  <2>2. req[r].stage # "idle"
    BY <2>1 DEF TypeOK, Request, Busy
  <2>3. req'[r].stage # "idle" /\ req'[r].stage # "storing"
        /\ req'[r].op = "Upload" /\ req'[r].company = Shared
        /\ req'[r].path = path
    BY <2>1, <2>2 DEF RequestStays
  <2>4. req'[r] # Idle
    BY <2>3 DEF Idle
  <2> QED
    BY <2>3, <2>4 DEF PutWithoutCompany
<1>2. files'[f].path = files[f].path /\ files'[f].company = files[f].company
  BY DEF RowsStay
<1>3. CASE files[f].company = ParseCompany(files[f].path)
  BY <1>2, <1>3 DEF RowMatches
<1>4. CASE files[f].company = Shared /\ PutWithoutCompany(files[f].path)
  <2>1. PICK path : path = files[f].path
    OBVIOUS
  <2>2. PutWithoutCompany(path)'
    BY <1>1, <1>4, <2>1
  <2> QED
    BY <1>2, <1>4, <2>1, <2>2 DEF RowMatches, PutWithoutCompany
<1> QED
  BY <1>3, <1>4 DEF RowsMatchPaths

LEMMA RowsStillMatch ==
    ASSUME TypeOK, RowsMatchPaths, RowsStay,
           \A r \in Requests : RequestStays(r),
           \A f \in Ids' : f \in Ids \/ RowMatches(f)'
    PROVE  RowsMatchPaths'
<1>1. \A f \in Ids' : RowMatches(f)'
  BY RowsKeepMatching
<1> QED
  BY <1>1 DEF RowsMatchPaths, RowMatches

(* A step of one request leaves the others checked.                        *)
LEMMA OthersStayChecked ==
    ASSUME IInv, NEW r \in Requests, NEW q \in Requests, q # r,
           req'[q] = req[q], RowsStay, provided \subseteq provided'
    PROVE  RequestIsChecked(q)'
  BY DEF IInv, RequestIsChecked, RowsStay, CanAccess, MayPlace, IsSuperAdmin,
         CallerCompanyId, WasProvided

(* What a step of a request has to show to keep the invariant.             *)
LEMMA RequestStep ==
    ASSUME IInv, NEW r \in Requests,
           req' \in [Requests -> {Idle} \cup Request],
           \A q \in Requests : q # r => req'[q] = req[q],
           RequestStays(r), files' \in Seq(Row), RowsStay,
           \A f \in Ids' : f \in Ids \/ RowMatches(f)',
           disk' \in [Paths -> Contents \cup {NoBytes}],
           provided' \subseteq Paths \X Contents, provided \subseteq provided',
           DiskIsProvided', RequestIsChecked(r)'
    PROVE  IInv'
<1>1. ASSUME NEW q \in Requests
      PROVE  RequestIsChecked(q)'
  BY OthersStayChecked
<1>2. \A q \in Requests : RequestStays(q)
  BY DEF RequestStays
<1>3. RowsMatchPaths'
  BY <1>2, RowsStillMatch DEF IInv
<1> QED
  BY <1>1, <1>3 DEF IInv, TypeOK

(* A content is written to a path. *)
LEMMA WriteKeeps ==
    ASSUME IInv, NEW path \in Paths, NEW content \in Contents,
           Write(path, content)
    PROVE  /\ disk' \in [Paths -> Contents \cup {NoBytes}]
           /\ provided' \subseteq Paths \X Contents
           /\ provided \subseteq provided'
           /\ DiskIsProvided'
  BY DEF Write, IInv, TypeOK, DiskIsProvided

LEMMA SameFiles ==
    ASSUME files' = files
    PROVE  RowsStay /\ Ids' = Ids
  BY DEF RowsStay, Ids

LEMMA NewRowIsRow ==
    ASSUME NEW company \in Zones, NEW path \in Paths, NEW content \in Contents
    PROVE  NewRow(company, path, content) \in Row
  BY FileNames DEF NewRow, Row

LEMMA InitIInv == Init => IInv
  BY DEF Init, IInv, TypeOK, RowsMatchPaths, DiskIsProvided, RequestIsChecked,
         Ids, Idle, Writing, Chosen

(* A request arrives. *)
LEMMA BeginKeeps ==
    ASSUME IInv, NEW r \in Requests,
           NEW stage \in Busy \cup {"refused"},
           NEW op \in {"Upload", "Delete", "Download"}, NEW c \in Callers,
           NEW company \in Zones, NEW path \in Paths, NEW content \in Contents \cup {NoBytes},
           NEW f \in Nat,
           Begin(r, stage, op, c, company, path, content, f),
           req[r] = Idle, stage # "auditing",
           stage \in Writing => /\ op = "Upload" /\ content \in Contents
                                /\ company # Shared
                                      => ParseCompany(path) = company
                                /\ MayPlace(c, path),
           stage \in Chosen => f \in Ids /\ CanAccess(c, files[f].company),
           stage = "deleting" => op = "Delete"
    PROVE  IInv'
<1> DEFINE new == [stage |-> stage, op |-> op, caller |-> c,
                   company |-> company, path |-> path, content |-> content,
                   file |-> f]
<1>1. new \in Request
  BY DEF Request, Busy
<1>2. /\ req' \in [Requests -> {Idle} \cup Request]
      /\ req'[r] = new
      /\ \A q \in Requests : q # r => req'[q] = req[q]
  BY <1>1 DEF Begin, IInv, TypeOK
<1>3. files' = files /\ disk' = disk /\ provided' = provided
  BY DEF Begin
<1>4. RowsStay /\ Ids' = Ids
  BY <1>3, SameFiles
<1>5. RequestIsChecked(r)'
  BY <1>2, <1>3, <1>4
  DEF RequestIsChecked, Busy, CanAccess, MayPlace, IsSuperAdmin, CallerCompanyId
<1>6. DiskIsProvided' /\ RequestStays(r)
  BY <1>3 DEF IInv, DiskIsProvided, RequestStays, Idle
<1> QED
  BY <1>2, <1>3, <1>4, <1>5, <1>6, RequestStep DEF IInv, TypeOK

LEMMA ArriveKeeps ==
    ASSUME IInv, NEW r \in Requests, Arrive(r)
    PROVE  IInv'
<1>0. req[r] = Idle
  BY DEF Arrive
<1>1. PICK c \in Callers :
         \/ \E company \in Zones, folder \in Folders, name \in Names,
               content \in Contents :
               Upload(r, c, company, folder, name, content)
         \/ \E path \in Paths, content \in Contents :
               Connect(r, c, path, content)
         \/ \E f \in Ids : Delete(r, c, f) \/ Download(r, c, f)
         \/ \E f \in Ids : NotFound(r, c, f)
  BY DEF Arrive
<1>2. ASSUME NEW f \in Ids
      PROVE  f \in Nat /\ files[f].path \in Paths /\ files[f].company \in Zones
  <2>1. f \in Nat /\ files[f] \in Row
    BY DEF IInv, TypeOK, Ids
  <2> QED
    BY <2>1 DEF Row
<1>3. ASSUME NEW company \in Zones, NEW folder \in Folders, NEW name \in Names,
             NEW content \in Contents,
             Upload(r, c, company, folder, name, content)
      PROVE  IInv'
  <2> DEFINE target == TargetCompany(c, company)
             path == BuildRelativePath(target, folder, name)
  <2>1. target \in Zones /\ (IsSuperAdmin(c) \/ target = CallerCompanyId(c))
    BY ClaimsAssumption DEF TargetCompany, CallerCompanyId
  <2>2. path \in Paths /\ (target # Shared => ParseCompany(path) = target)
    BY <2>1, BuiltPath DEF Paths
  <2>4. MayPlace(c, path)
    BY <2>1, <2>2 DEF MayPlace
  <2>3. Begin(r, "storing", "Upload", c, target, path, content, 0)
    BY <1>3 DEF Upload
  <2> HIDE DEF target, path
  <2> QED
    BY <1>0, <2>1, <2>2, <2>3, <2>4, BeginKeeps DEF Busy, Writing, Chosen
<1>4. ASSUME NEW path \in Paths, NEW content \in Contents,
             Connect(r, c, path, content)
      PROVE  IInv'
  <2> DEFINE company == ParseCompany(path)
  <2>1. company \in Zones
    BY ParsedZone
  <2>2. MayPlace(c, path)
    <3>1. CASE IsSuperAdmin(c)
      BY <3>1 DEF MayPlace
    <3>2. CASE ~IsSuperAdmin(c)
      <4>1. /\ CallerCompanyId(c) \in Zones /\ CallerCompanyId(c) # Shared
            /\ InTree(CallerCompanyId(c), path)
        BY <1>4, <3>2, ClaimsAssumption DEF Connect, InVolume, CallerCompanyId
      <4>2. CallerCompanyId(c) = ParseCompany(path)
        BY <4>1, PathsAreSequences, ParsedTree DEF Zones
      <4> QED
        BY <4>2 DEF MayPlace
    <3> QED
      BY <3>1, <3>2
  <2>3. Begin(r, "connecting", "Upload", c, company, path, content, 0)
    BY <1>4 DEF Connect
  <2>4. company # Shared => ParseCompany(path) = company
    OBVIOUS
  <2> HIDE DEF company
  <2> QED
    BY <1>0, <2>1, <2>2, <2>3, <2>4, BeginKeeps DEF Busy, Writing, Chosen
<1>5. ASSUME NEW f \in Ids, Delete(r, c, f)
      PROVE  IInv'
  BY <1>0, <1>2, <1>5, BeginKeeps DEF Delete, Found, Busy, Writing, Chosen
<1>6. ASSUME NEW f \in Ids, Download(r, c, f)
      PROVE  IInv'
  <2>1. CanAccess(c, files[f].company)
    BY <1>6 DEF Download, Found
  <2>2. Begin(r, "opening", "Download", c, files[f].company, files[f].path,
              NoBytes, f)
    BY <1>6 DEF Download
  <2>3. /\ "opening" \in Busy \ (Writing \cup {"auditing", "deleting"})
        /\ f \in Nat /\ files[f].path \in Paths /\ files[f].company \in Zones
    BY <1>2 DEF Busy, Writing
  <2> QED
    BY <1>0, <2>1, <2>2, <2>3, BeginKeeps
<1>7. ASSUME NEW f \in Ids, NotFound(r, c, f)
      PROVE  IInv'
  <2>1. Begin(r, "refused", "Delete", c, files[f].company, files[f].path,
              NoBytes, f)
    BY <1>7 DEF NotFound
  <2>2. /\ "refused" \notin Writing \cup Chosen \cup {"auditing", "deleting"}
        /\ f \in Nat /\ files[f].path \in Paths /\ files[f].company \in Zones
    BY <1>2 DEF Writing, Chosen
  <2> QED
    BY <1>0, <2>1, <2>2, BeginKeeps
<1> QED
  BY <1>1, <1>3, <1>4, <1>5, <1>6, <1>7

----------------------------------------------------------------------------
(* A busy request only changes its stage, its row or its content. *)
LEMMA StageKeeps ==
    ASSUME IInv, NEW r \in Requests, req[r].stage \in Busy,
           NEW stage \in {"done", "refused", "failed"},
           Goto(r, stage), stage = "done" => req[r].stage = "auditing",
           files' = files, disk' = disk, provided' = provided
    PROVE  IInv'
<1>1. req[r] \in Request
  BY Typed DEF IInv
<1>2. /\ req' \in [Requests -> {Idle} \cup Request]
      /\ req'[r].stage = stage /\ req'[r].op = req[r].op
      /\ req'[r].caller = req[r].caller /\ req'[r].content = req[r].content
      /\ req'[r].company = req[r].company /\ req'[r].path = req[r].path
      /\ \A q \in Requests : q # r => req'[q] = req[q]
  BY <1>1 DEF IInv, TypeOK, Goto, Request
<1>3. RequestIsChecked(r)' /\ RequestStays(r)
  BY <1>2 DEF IInv, RequestIsChecked, Writing, Chosen, IsSuperAdmin,
              CallerCompanyId, WasProvided, RequestStays
<1>4. RowsStay /\ Ids' = Ids /\ DiskIsProvided'
  BY SameFiles DEF IInv, DiskIsProvided
<1> QED
  BY <1>2, <1>3, <1>4, RequestStep DEF IInv, TypeOK

(* An upload, by the API or the connector, is done but for the entry.      *)
LEMMA UploadStored ==
    ASSUME IInv, NEW r \in Requests, req[r].stage \in Writing,
           NEW f \in Nat, NEW path \in Paths,
           \/ Stored(r, f, path) /\ req[r].stage = "storing"
           \/ Registered(r, f) /\ path = req[r].path
           \/ Goto(r, "auditing") /\ path = req[r].path
    PROVE  /\ req' \in [Requests -> {Idle} \cup Request]
           /\ \A q \in Requests : q # r => req'[q] = req[q]
           /\ req'[r] # req[r] /\ req'[r].stage = "auditing"
           /\ req'[r].op = "Upload" /\ req'[r].path = path
           /\ req'[r].company = req[r].company
           /\ RequestStays(r)
           /\ RequestIsChecked(r)'
<1>1. req[r] \in Request /\ req[r].op = "Upload"
  BY Typed DEF IInv, Writing, Busy, RequestIsChecked
<1>2. disk[req[r].path] \in Contents \cup {NoBytes}
  BY <1>1 DEF IInv, TypeOK, Request
<1>3. /\ req' \in [Requests -> {Idle} \cup Request]
      /\ req'[r].stage = "auditing" /\ req'[r].op = "Upload"
      /\ req'[r].path = path /\ req'[r].company = req[r].company
      /\ \A q \in Requests : q # r => req'[q] = req[q]
  BY <1>1, <1>2 DEF IInv, TypeOK, Request, Busy, Stored, Registered, Goto
<1>4. RequestStays(r)
  <2>1. CASE req[r].stage = "storing"
    BY <2>1 DEF RequestStays
  <2>2. CASE req[r].stage # "storing"
    BY <1>1, <1>3, <2>2 DEF RequestStays
  <2> QED
    BY <2>1, <2>2
<1> QED
  BY <1>3, <1>4 DEF RequestIsChecked, Writing, Chosen

(* The row that an upload finds or makes is at a path, too. *)
LEMMA Rows ==
    ASSUME IInv
    PROVE  /\ files \in Seq(Row) /\ Ids = 1 .. Len(files) /\ Len(files) \in Nat
           /\ \A f \in Ids : /\ f \in Nat /\ files[f] \in Row
                             /\ files[f].path \in Paths
                             /\ files[f].company \in Zones
                             /\ RowMatches(f)
<1>1. files \in Seq(Row) /\ Ids = 1 .. Len(files) /\ Len(files) \in Nat
  BY DEF IInv, TypeOK, Ids
<1>2. \A f \in Ids : f \in Nat /\ files[f] \in Row
  BY <1>1
<1> QED
  BY <1>1, <1>2 DEF Row, IInv, RowsMatchPaths, RowMatches

LEMMA Uploading ==
    ASSUME IInv, NEW r \in Requests, req[r].stage \in Writing
    PROVE  /\ req[r] \in Request /\ req[r].path \in Paths
           /\ req[r].content \in Contents
           /\ req[r] # Idle
           /\ req[r].company \in Zones
           /\ req[r].op = "Upload"
           /\ req[r].company # Shared
                => ParseCompany(req[r].path) = req[r].company
           /\ MayPlace(req[r].caller, req[r].path)
  BY Typed DEF IInv, Writing, Busy, Request, RequestIsChecked, Idle

LEMMA StoreKeeps ==
    ASSUME IInv, NEW r \in Requests, Store(r)
    PROVE  IInv'
<1>1. req[r].stage \in Writing /\ req[r].stage = "storing"
  BY DEF Store, StoreDuplicate, StoreVersion, StoreAlias, StoreNew, Writing
<1>2. CASE StoreDuplicate(r)
  <2>1. PICK f \in LiveAt(req[r].path) : Stored(r, f, files[f].path)
    BY <1>2 DEF StoreDuplicate
  <2>2. f \in Ids
    BY DEF LiveAt, Live
  <2>3. files' = files /\ disk' = disk /\ provided' = provided
    BY <1>2 DEF StoreDuplicate
  <2>4. RowsStay /\ Ids' = Ids /\ DiskIsProvided'
    BY <2>3, SameFiles DEF IInv, DiskIsProvided
  <2> QED
    BY <1>1, <2>1, <2>2, <2>3, <2>4, Rows, UploadStored, RequestStep
    DEF IInv, TypeOK
<1>3. CASE StoreVersion(r)
  <2>1. PICK f \in LiveAt(req[r].path) :
           /\ files' = [files EXCEPT ![f].content = req[r].content]
           /\ Write(files[f].path, req[r].content)
           /\ Stored(r, f, files[f].path)
    BY <1>3 DEF StoreVersion
  <2>2. f \in Ids /\ files[f].path \in Paths /\ f \in Nat
    BY Rows DEF LiveAt, Live
  <2>3. files' \in Seq(Row) /\ RowsStay /\ Ids' = Ids
    BY <1>1, <2>1, <2>2, Rows, Uploading, UpdateRow
  <2> QED
    BY <1>1, <2>1, <2>2, <2>3, Uploading, WriteKeeps, UploadStored,
       RequestStep
<1>4. CASE StoreAlias(r)
  <2>1. PICK f \in LiveWith(req[r].content) :
           /\ files' = Append(files, Alias(r, f))
           /\ Stored(r, Len(files) + 1, files[f].path)
    BY <1>4 DEF StoreAlias
  <2>2. f \in Ids /\ files[f] \in Row /\ files[f].path \in Paths
    BY Rows DEF LiveWith, Live
  <2>3. /\ Alias(r, f) \in Row
        /\ Alias(r, f).company = files[f].company
        /\ Alias(r, f).path = files[f].path
    <3>1. FileName(req[r].path) \in Segments
      BY <1>1, Uploading, FileNames
    <3> QED
      BY <2>2, <3>1 DEF Alias, Row
  <2>4. /\ files' \in Seq(Row) /\ RowsStay
        /\ \A g \in Ids' : g \in Ids \/ files'[g] = Alias(r, f)
    BY <2>1, <2>3, Rows, AppendRow
  <2>5. ASSUME NEW g \in Ids' PROVE g \in Ids \/ RowMatches(g)'
    (* The row that was found matches, and its requests stay. *)
    <3>1. Len(files) + 1 \in Nat
      BY Rows
    <3>2. /\ \A q \in Requests : q # r => req'[q] = req[q]
          /\ RequestStays(r)
      BY <1>1, <2>1, <2>2, <3>1, UploadStored
    <3>3. \A q \in Requests : RequestStays(q)
      BY <3>2 DEF RequestStays
    <3>4. RowMatches(f)' /\ files'[f].path = files[f].path
                         /\ files'[f].company = files[f].company
      BY <2>2, <2>4, <3>3, RowsKeepMatching DEF IInv, RowsStay
    <3>5. ASSUME files'[g] = Alias(r, f)
          PROVE  RowMatches(g)'
      BY <2>3, <3>4, <3>5 DEF RowMatches, PutWithoutCompany
    <3> QED
      BY <2>4, <3>5
  <2>6. disk' = disk /\ provided' = provided
    BY <1>4 DEF StoreAlias
  <2>7. DiskIsProvided'
    BY <2>6 DEF IInv, DiskIsProvided
  <2>8. Len(files) + 1 \in Nat
    BY Rows
  <2> QED
    BY <1>1, <2>1, <2>2, <2>4, <2>5, <2>6, <2>7, <2>8, UploadStored, RequestStep
    DEF IInv, TypeOK
<1>5. CASE StoreNew(r)
  <2> DEFINE row == NewRow(req[r].company, req[r].path, req[r].content)
  <2>1. /\ files' = Append(files, row)
        /\ Write(req[r].path, req[r].content)
        /\ Stored(r, Len(files) + 1, req[r].path)
    BY <1>5 DEF StoreNew
  <2>2. /\ row \in Row /\ row.company = req[r].company
        /\ row.path = req[r].path
    BY <1>1, Uploading, NewRowIsRow DEF NewRow
  <2> HIDE DEF row
  <2>3. /\ files' \in Seq(Row) /\ RowsStay
        /\ \A g \in Ids' : g \in Ids \/ files'[g] = row
    BY <2>1, <2>2, Rows, AppendRow
  <2>5. Len(files) + 1 \in Nat
    BY Rows
  <2>4. ASSUME NEW g \in Ids' PROVE g \in Ids \/ RowMatches(g)'
    (* Without a company, the request is the one that put the file there. *)
    <3>1. ASSUME files'[g] = row, req[r].company # Shared
          PROVE  RowMatches(g)'
      BY <1>1, <2>2, <3>1, Uploading DEF RowMatches
    <3>2. ASSUME files'[g] = row, req[r].company = Shared
          PROVE  RowMatches(g)'
      <4>1. /\ req'[r].stage = "auditing" /\ req'[r].op = "Upload"
            /\ req'[r].company = Shared /\ req'[r].path = req[r].path
        BY <1>1, <2>1, <2>5, <3>2, Uploading, UploadStored
      <4>2. PutWithoutCompany(files[g].path)'
        BY <2>2, <3>2, <4>1 DEF PutWithoutCompany, Idle
      <4> QED
        BY <2>2, <3>2, <4>2 DEF RowMatches
    <3> QED
      BY <2>3, <3>1, <3>2
  <2> QED
    BY <1>1, <2>1, <2>3, <2>4, <2>5, Uploading, WriteKeeps, UploadStored,
       RequestStep
<1> QED
  BY <1>2, <1>3, <1>4, <1>5 DEF Store

LEMMA RegisterKeeps ==
    ASSUME IInv, NEW r \in Requests, Register(r)
    PROVE  IInv'
<1>1. /\ req[r].stage \in Writing
      /\ disk' = disk /\ provided' = provided
  BY DEF Register, RegisterRow, RegisterNew, RegisterNothing, Writing
<1>2. DiskIsProvided'
  BY <1>1 DEF IInv, DiskIsProvided
<1>3. disk[req[r].path] # NoBytes => disk[req[r].path] \in Contents
  BY <1>1, Uploading DEF IInv, TypeOK
<1>4. CASE RegisterRow(r)
  <2>1. PICK f \in LiveAt(req[r].path) :
           /\ files' = [files EXCEPT ![f].content = disk[req[r].path]]
           /\ Registered(r, f)
    BY <1>4 DEF RegisterRow
  <2>2. f \in Ids /\ f \in Nat /\ disk[req[r].path] \in Contents
    BY <1>3, <1>4, Rows DEF LiveAt, Live, RegisterRow
  <2>3. files' \in Seq(Row) /\ RowsStay /\ Ids' = Ids
    BY <2>1, <2>2, Rows, UpdateRow
  <2> QED
    BY <1>1, <1>2, <2>1, <2>2, <2>3, Uploading, UploadStored, RequestStep
    DEF IInv, TypeOK
<1>5. CASE RegisterNew(r)
  <2> DEFINE company == ParseCompany(req[r].path)
             row == NewRow(company, req[r].path, disk[req[r].path])
  <2>0. company \in Zones
    BY ParsedZone
  <2>1. files' = Append(files, row) /\ Registered(r, Len(files) + 1)
    BY <1>5 DEF RegisterNew
  <2>2. row \in Row /\ row.company = ParseCompany(row.path)
    BY <1>1, <1>3, <1>5, <2>0, Uploading, NewRowIsRow DEF RegisterNew, NewRow
  <2> HIDE DEF row
  <2>3. /\ files' \in Seq(Row) /\ RowsStay
        /\ \A g \in Ids' : g \in Ids \/ files'[g] = row
    BY <2>1, <2>2, Rows, AppendRow
  <2>4. \A g \in Ids' : g \in Ids \/ RowMatches(g)'
    BY <2>2, <2>3 DEF RowMatches
  <2>5. Len(files) + 1 \in Nat
    BY Rows
  <2> QED
    BY <1>1, <1>2, <2>1, <2>3, <2>4, <2>5, Uploading, UploadStored, RequestStep
    DEF IInv, TypeOK
<1>6. CASE RegisterNothing(r)
  <2>1. Goto(r, "auditing") /\ files' = files
    BY <1>6 DEF RegisterNothing
  <2>2. RowsStay /\ Ids' = Ids
    BY <2>1, SameFiles
  <2>3. 0 \in Nat
    OBVIOUS
  <2> QED
    BY <1>1, <1>2, <2>1, <2>2, <2>3, Uploading, UploadStored, RequestStep
    DEF IInv, TypeOK
<1> QED
  BY <1>4, <1>5, <1>6 DEF Register

LEMMA ConnectorWritesKeeps ==
    ASSUME IInv, NEW r \in Requests, ConnectorWrites(r)
    PROVE  IInv'
<1>1. req[r].stage \in Writing /\ req[r] \in Request /\ req[r].path \in Paths
      /\ req[r].content \in Contents
  BY Uploading DEF ConnectorWrites, Writing
<1>2. /\ req' \in [Requests -> {Idle} \cup Request]
      /\ req'[r] = [req[r] EXCEPT !.stage = "registering"]
      /\ \A q \in Requests : q # r => req'[q] = req[q]
  BY <1>1 DEF ConnectorWrites, Goto, IInv, TypeOK, Request, Busy
<1>3. /\ req'[r].stage = "registering" /\ req'[r].op = req[r].op
      /\ req'[r].caller = req[r].caller /\ req'[r].path = req[r].path
      /\ req'[r].company = req[r].company
      /\ req'[r].content = req[r].content
  BY <1>1, <1>2 DEF Request
<1>4. RequestIsChecked(r)' /\ RequestStays(r)
  BY <1>1, <1>3 DEF IInv, RequestIsChecked, Writing, Chosen, MayPlace,
                    IsSuperAdmin, CallerCompanyId, RequestStays
<1>5. files' = files /\ Write(req[r].path, req[r].content)
  BY DEF ConnectorWrites
<1>6. RowsStay /\ Ids' = Ids
  BY <1>5, SameFiles
<1> QED
  BY <1>1, <1>2, <1>4, <1>5, <1>6, WriteKeeps, RequestStep DEF IInv, TypeOK

LEMMA SoftDeleteKeeps ==
    ASSUME IInv, NEW r \in Requests, SoftDelete(r)
    PROVE  IInv'
<1>1. /\ req[r].stage = "deleting" /\ req[r] \in Request
      /\ req[r].op = "Delete" /\ req[r].file \in Ids
  BY Typed DEF SoftDelete, IInv, RequestIsChecked, Busy, Chosen
<1>2. /\ req' \in [Requests -> {Idle} \cup Request]
      /\ req'[r].stage = "auditing" /\ req'[r].op = req[r].op
      /\ req'[r].company = req[r].company /\ req'[r].path = req[r].path
      /\ \A q \in Requests : q # r => req'[q] = req[q]
  BY <1>1 DEF SoftDelete, Goto, IInv, TypeOK, Request, Busy
<1>3. RequestIsChecked(r)' /\ RequestStays(r)
  BY <1>1, <1>2 DEF RequestIsChecked, Writing, Chosen, RequestStays
<1>4. files' = [files EXCEPT ![req[r].file].deleted = TRUE]
      /\ disk' = disk /\ provided' = provided
  BY DEF SoftDelete
<1>5. files' \in Seq(Row) /\ RowsStay /\ Ids' = Ids
  BY <1>1, <1>4, Rows, UpdateRow
<1>6. DiskIsProvided'
  BY <1>4 DEF IInv, DiskIsProvided
<1> QED
  BY <1>2, <1>3, <1>4, <1>5, <1>6, RequestStep DEF IInv, TypeOK

LEMMA OpenReadKeeps ==
    ASSUME IInv, NEW r \in Requests, OpenRead(r)
    PROVE  IInv'
<1> DEFINE row == files[req[r].file]
<1>1. /\ req[r].stage = "opening" /\ req[r] \in Request
      /\ req[r].file \in Ids /\ CanAccess(req[r].caller, row.company)
  BY Typed DEF OpenRead, IInv, RequestIsChecked, Busy, Chosen
<1>2. row.path \in Paths /\ RowMatches(req[r].file)
  BY <1>1, Rows
<1>3. /\ disk[row.path] # NoBytes /\ disk[row.path] \in Contents
      /\ <<row.path, disk[row.path]>> \in provided
  BY <1>2 DEF OpenRead, IInv, TypeOK, DiskIsProvided
<1>4. /\ req' \in [Requests -> {Idle} \cup Request]
      /\ req'[r].stage = "auditing" /\ req'[r].caller = req[r].caller
      /\ req'[r].content = disk[row.path] /\ req'[r].op = req[r].op
      /\ req'[r].company = req[r].company /\ req'[r].path = req[r].path
      /\ \A q \in Requests : q # r => req'[q] = req[q]
  BY <1>1, <1>3 DEF OpenRead, IInv, TypeOK, Request, Busy
<1>5. files' = files /\ disk' = disk /\ provided' = provided
  BY DEF OpenRead
<1>6. RequestIsChecked(r)' /\ RequestStays(r)
  <2>1. IsSuperAdmin(req[r].caller)' <=> IsSuperAdmin(req[r].caller)
    BY <1>4 DEF IsSuperAdmin
  <2>2. \/ IsSuperAdmin(req[r].caller)
        \/ CallerCompanyId(req[r].caller) = Shared
        \/ WasProvided(req[r].caller, disk[row.path])
    BY <1>1, <1>2, <1>3 DEF WasProvided, CanAccess, RowMatches
  <2>3. WasProvided(req[r].caller, disk[row.path])
           => WasProvided(req[r].caller, req[r].content)'
    BY <1>4, <1>5 DEF WasProvided, CallerCompanyId
  <2> QED
    BY <1>1, <1>4, <2>1, <2>2, <2>3
    DEF RequestIsChecked, Writing, Chosen, CallerCompanyId, RequestStays
<1>7. RowsStay /\ Ids' = Ids /\ DiskIsProvided'
  BY <1>5, SameFiles DEF IInv, DiskIsProvided
<1> QED
  BY <1>4, <1>5, <1>6, <1>7, RequestStep DEF IInv, TypeOK

LEMMA ConnectorDeletesKeeps ==
    ASSUME IInv, NEW c \in Callers, NEW path \in Paths, ConnectorDeletes(c, path)
    PROVE  IInv'
<1>1. /\ disk' = [disk EXCEPT ![path] = NoBytes]
      /\ files' = files /\ req' = req /\ provided' = provided
  BY DEF ConnectorDeletes
<1>2. TypeOK' /\ DiskIsProvided'
  BY <1>1 DEF IInv, TypeOK, DiskIsProvided
<1>3. RowsMatchPaths' /\ \A r \in Requests : RequestIsChecked(r)'
  BY <1>1, SameFiles DEF IInv, RowsMatchPaths, PutWithoutCompany, MayPlace,
     RequestIsChecked, CanAccess, IsSuperAdmin, CallerCompanyId, WasProvided
<1> QED
  BY <1>2, <1>3 DEF IInv

LEMMA NextIInv == IInv /\ [Next]_vars => IInv'
<1> SUFFICES ASSUME IInv, [Next]_vars PROVE IInv'
  OBVIOUS
<1>1. ASSUME NEW r \in Requests, Arrive(r) PROVE IInv'
  BY <1>1, ArriveKeeps
<1>2. ASSUME NEW r \in Requests, Step(r) PROVE IInv'
  <2>1. CASE Refuse(r) \/ OpenNothing(r) \/ Audit(r)
    BY <2>1, StageKeeps DEF Refuse, OpenNothing, Audit, Busy
  <2>2. CASE Store(r)
    BY <2>2, StoreKeeps
  <2>3. CASE ConnectorWrites(r)
    BY <2>3, ConnectorWritesKeeps
  <2>4. CASE Register(r)
    BY <2>4, RegisterKeeps
  <2>5. CASE SoftDelete(r)
    BY <2>5, SoftDeleteKeeps
  <2>6. CASE OpenRead(r)
    BY <2>6, OpenReadKeeps
  <2> QED
    BY <1>2, <2>1, <2>2, <2>3, <2>4, <2>5, <2>6 DEF Step
<1>3. ASSUME NEW r \in Requests, Fail(r) PROVE IInv'
  BY <1>3, StageKeeps DEF Fail
<1>4. ASSUME NEW c \in Callers, NEW path \in Paths, ConnectorDeletes(c, path)
      PROVE  IInv'
  BY <1>4, ConnectorDeletesKeeps
<1>5. CASE UNCHANGED vars
  <2>1. TypeOK' /\ DiskIsProvided'
    BY <1>5 DEF vars, IInv, TypeOK, DiskIsProvided
  <2>2. RowsMatchPaths' /\ \A r \in Requests : RequestIsChecked(r)'
    BY <1>5, SameFiles DEF vars, IInv, RowsMatchPaths, PutWithoutCompany,
       MayPlace, RequestIsChecked, CanAccess, IsSuperAdmin, CallerCompanyId,
       WasProvided
  <2> QED
    BY <2>1, <2>2 DEF IInv
<1> QED
  BY <1>1, <1>2, <1>3, <1>4, <1>5 DEF Next

(* The row of a file changes only where the caller was checked for it.     *)
LEMMA NextChanges ==
    ASSUME IInv, [Next]_vars, NEW f \in Ids, files'[f] # files[f]
    PROVE  \E r \in Requests : /\ req'[r] # req[r]
                              /\ req[r] # Idle
                              /\ MayChange(r, f)
<1>1. PICK r \in Requests :
         StoreVersion(r) \/ RegisterRow(r) \/ SoftDelete(r)
  <2>1. ASSUME NEW row, files' = Append(files, row) PROVE FALSE
    BY <2>1, Rows
  <2> QED
    BY <2>1, ZenonT(60) DEF Next, Arrive, Upload, Connect, Delete, Download, NotFound, Begin,
       Step, Refuse, Store, StoreDuplicate, StoreAlias, StoreNew, ConnectorWrites,
       Register, RegisterNew, RegisterNothing, OpenRead, OpenNothing, Audit,
       Fail, ConnectorDeletes, vars
<1>2. CASE StoreVersion(r) \/ RegisterRow(r)
  <2>1. req[r].stage \in Writing
    BY <1>2 DEF StoreVersion, RegisterRow, Writing
  <2>2. PICK g \in LiveAt(req[r].path),
             content \in {req[r].content, disk[req[r].path]} :
           files' = [files EXCEPT ![g].content = content]
    BY <1>2 DEF StoreVersion, RegisterRow
  <2>3. g = f
    BY <2>2 DEF Ids
  <2>4. MayChange(r, f)
    BY <2>1, <2>3, Uploading DEF LiveAt, MayChange, MayPlace, CanAccess
  <2>5. req'[r] # req[r]
    <3>1. PICK h \in Nat, path \in Paths :
             \/ Stored(r, h, path) /\ req[r].stage = "storing"
             \/ Registered(r, h) /\ path = req[r].path
      BY <1>2, <2>1, Uploading, Rows DEF StoreVersion, RegisterRow, LiveAt, Live
    <3> QED
      BY <1>2, <2>1, <3>1, Uploading, UploadStored
         DEF StoreVersion, RegisterRow
  <2> QED
    BY <2>1, <2>4, <2>5, Uploading
<1>3. CASE SoftDelete(r)
  <2>1. /\ req[r].stage = "deleting" /\ req[r] # Idle
        /\ CanAccess(req[r].caller, files[req[r].file].company)
    <3>1. req[r].stage = "deleting"
      BY <1>3 DEF SoftDelete
    <3>2. req[r] # Idle
      BY <3>1 DEF Idle
    <3> QED
      BY <3>1, <3>2 DEF IInv, RequestIsChecked, Chosen
  <2>2. req[r].file = f
    BY <1>3 DEF SoftDelete, Ids
  <2>3. req'[r].stage = "auditing"
    BY <1>3, <2>1, Typed DEF SoftDelete, Goto, IInv, TypeOK, Busy, Request
  <2> QED
    BY <2>1, <2>2, <2>3 DEF MayChange
<1> QED
  BY <1>1, <1>2, <1>3

LEMMA IInvImplies ==
    IInv => RowsMatchPaths /\ DownloadsComeFromTheZone
  BY DEF IInv, RequestIsChecked, DownloadsComeFromTheZone, WasProvided

(* A row belongs to the company in whose folder its file is read to lie,   *)
(* or to none when one without a company put a file there.                 *)
THEOREM ZoneCorrectness == Spec => []RowsMatchPaths
  BY InitIInv, NextIInv, IInvImplies, PTL DEF Spec

(* The user of a company downloads nothing that was written into the tree  *)
(* of another.                                                             *)
THEOREM DownloadCorrectness == Spec => []DownloadsComeFromTheZone
  BY InitIInv, NextIInv, IInvImplies, PTL DEF Spec

(* Only a request of a caller who may access a file, or an upload to its   *)
(* path by its company or by a caller without one, changes its row.        *)
THEOREM ChangeCorrectness == Spec => OnlyTheTenantChanges
<1>1. IInv /\ [Next]_vars =>
         [\A f \in Ids :
            files'[f] # files[f] =>
               \E r \in Requests :
                  req'[r] # req[r] /\ req[r] # Idle /\ MayChange(r, f)]_vars
  BY NextChanges
<1> QED
  BY <1>1, InitIInv, NextIInv, PTL DEF Spec, OnlyTheTenantChanges

----------------------------------------------------------------------------
(***************************************************************************)
(* The audit log and the rows.  A request that has done its work is at the *)
(* entry, has written it, or failed before it; it keeps the row and the    *)
(* content it worked on, and so stays a witness of what became of the row. *)
(***************************************************************************)
Settled == {"auditing", "done", "failed"}

(* A request names the row that it works on. *)
RequestIsPlaced(r) ==
    /\ req[r].stage \in Writing => req[r].file = 0
    /\ req[r].stage = "opening" => req[r].op = "Download"
    /\ req[r].stage = "deleting" => req[r].path = files[req[r].file].path
    /\ req[r].stage \in {"auditing", "done"} =>
          /\ req[r].op = "Download" => req[r].file \in Ids
          /\ req[r].op = "Delete" =>
                /\ req[r].file \in Ids \ Live
                /\ req[r].path = files[req[r].file].path

RequestIsLogged(r) == req[r].stage = "done" => Entry(r) \in audit

EntryIsTrue(e) ==
    /\ e.request \in Requests
    /\ req[e.request].stage = "done"
    /\ e = Entry(e.request)

Worked(r, op, f) ==
    req[r].stage \in Settled /\ req[r].op = op /\ req[r].file = f

RowIsExplained(f) ==
    /\ files[f].deleted => \E r \in Requests : Worked(r, "Delete", f)
    /\ \E r \in Requests :
          Worked(r, "Upload", f) /\ req[r].content = files[f].content

AuditInv ==
    /\ \A r \in Requests : RequestIsPlaced(r) /\ RequestIsLogged(r)
    /\ \A e \in audit : EntryIsTrue(e)
    /\ \A f \in Ids : RowIsExplained(f)

LEMMA StaysPlaced ==
    ASSUME IInv, RowsStay, NEW r \in Requests, RequestIsPlaced(r),
           req'[r] = req[r]
    PROVE  RequestIsPlaced(r)'
<1>1. req[r].stage = "deleting" => req[r].file \in Ids
  BY DEF IInv, RequestIsChecked, Chosen
<1>2. ASSUME NEW f \in Ids, f \notin Live
      PROVE  f \in Ids' /\ f \notin Live'
  BY <1>2 DEF RowsStay, Live
<1> QED
  BY <1>1, <1>2 DEF RequestIsPlaced, RowsStay

(* What a step of a request has to show to keep the audit invariant.       *)
LEMMA AuditStep ==
    ASSUME IInv, AuditInv, NEW r \in Requests, RowsStay,
           \A q \in Requests : q # r => req'[q] = req[q],
           req[r].stage \in Settled =>
              /\ req[r].stage = "auditing"
              /\ req'[r].stage \in Settled
              /\ req'[r].op = req[r].op
              /\ req'[r].file = req[r].file
              /\ req'[r].content = req[r].content,
           RequestIsPlaced(r)',
           \/ audit' = audit /\ req'[r].stage # "done"
           \/ audit' = audit \cup {Entry(r)'} /\ req'[r].stage = "done",
           \A f \in Ids' : (f \in Ids /\ files'[f] = files[f])
                              \/ RowIsExplained(f)'
    PROVE  AuditInv'
<1>1. ASSUME NEW q \in Requests, q # r
      PROVE  RequestIsPlaced(q)'
  BY <1>1, StaysPlaced DEF AuditInv
<1>2. ASSUME NEW q \in Requests, q # r, req[q].stage = "done"
      PROVE  Entry(q)' = Entry(q)
  <2>1. req'[q] = req[q] /\ (req[q].op = "Download" => req[q].file \in Ids)
    BY <1>2 DEF AuditInv, RequestIsPlaced
  <2> QED
    BY <2>1 DEF Entry, RowsStay
<1>3. ASSUME NEW q \in Requests
      PROVE  RequestIsLogged(q)'
  <2>1. CASE q = r
    BY <2>1 DEF RequestIsLogged
  <2>2. CASE q # r
    <3>1. req'[q] = req[q] /\ (req[q].stage = "done" => Entry(q) \in audit)
      BY <2>2 DEF AuditInv, RequestIsLogged
    <3> QED
      BY <1>2, <2>2, <3>1 DEF RequestIsLogged
  <2> QED
    BY <2>1, <2>2
<1>4. ASSUME NEW e \in audit'
      PROVE  EntryIsTrue(e)'
  <2>1. CASE e \in audit
    <3>1. /\ e.request \in Requests /\ req[e.request].stage = "done"
          /\ e = Entry(e.request)
      BY <2>1 DEF AuditInv, EntryIsTrue
    <3>2. e.request # r
      BY <3>1 DEF Settled
    <3>3. PICK q \in Requests : q = e.request
      BY <3>1
    <3>4. Entry(q)' = Entry(q) /\ req'[q] = req[q]
      BY <1>2, <3>1, <3>2, <3>3
    <3> QED
      BY <3>1, <3>3, <3>4 DEF EntryIsTrue
  <2>2. CASE e \notin audit
    <3>1. e = Entry(r)' /\ req'[r].stage = "done"
      BY <2>2
    <3>2. e.request = r
      BY <3>1 DEF Entry
    <3> QED
      BY <3>1, <3>2 DEF EntryIsTrue
  <2> QED
    BY <2>1, <2>2
<1>5. ASSUME NEW f \in Ids, files'[f] = files[f]
      PROVE  RowIsExplained(f)'
  <2>1. ASSUME NEW q \in Requests, NEW op, Worked(q, op, f)
        PROVE  Worked(q, op, f)' /\ req'[q].content = req[q].content
    BY <2>1 DEF Worked
  <2> QED
    BY <1>5, <2>1 DEF AuditInv, RowIsExplained
<1> QED
  BY <1>1, <1>3, <1>4, <1>5 DEF AuditInv

(* A step that touches no row and no entry. *)
LEMMA AuditQuiet ==
    ASSUME IInv, AuditInv, NEW r \in Requests,
           files' = files, audit' = audit,
           \A q \in Requests : q # r => req'[q] = req[q],
           req[r].stage \in Settled =>
              /\ req[r].stage = "auditing"
              /\ req'[r].stage \in Settled
              /\ req'[r].op = req[r].op
              /\ req'[r].file = req[r].file
              /\ req'[r].content = req[r].content,
           req'[r].stage # "done",
           RequestIsPlaced(r)'
    PROVE  AuditInv'
  BY SameFiles, AuditStep

----------------------------------------------------------------------------
LEMMA ArriveAudits ==
    ASSUME IInv, AuditInv, NEW r \in Requests, Arrive(r)
    PROVE  AuditInv'
<1>1. PICK stage, op, c, company, path, content, f :
         /\ stage \in {"storing", "connecting", "deleting", "opening", "refused"}
         /\ Begin(r, stage, op, c, company, path, content, f)
         /\ stage \in {"storing", "connecting"} => f = 0
         /\ stage = "opening" => op = "Download"
         /\ stage = "deleting" => path = files[f].path
  BY DEF Arrive, Upload, Connect, Delete, Download, NotFound
<1>2. /\ files' = files /\ audit' = audit
      /\ req[r] = Idle
      /\ req'[r].stage = stage /\ req'[r].op = op /\ req'[r].path = path
      /\ req'[r].file = f
      /\ \A q \in Requests : q # r => req'[q] = req[q]
  BY <1>1 DEF Begin, Arrive, IInv, TypeOK
<1>3. RequestIsPlaced(r)'
  BY <1>1, <1>2 DEF RequestIsPlaced, Writing
<1>4. req[r].stage \notin Settled
  BY <1>2 DEF Idle, Settled
<1> QED
  BY <1>1, <1>2, <1>3, <1>4, AuditQuiet

(* What has become of an upload when only the entry is left to write.      *)
LEMMA UploadIsPlaced ==
    ASSUME IInv, NEW r \in Requests, req[r].stage \in Writing,
           NEW f \in Nat, NEW path \in Paths,
           NEW content \in Contents \cup {NoBytes},
           \/ Stored(r, f, path) /\ content = req[r].content
           \/ Registered(r, f) /\ path = req[r].path /\ content = disk[path]
    PROVE  /\ req'[r].stage = "auditing" /\ req'[r].op = "Upload"
           /\ req'[r].caller = req[r].caller
           /\ req'[r].file = f /\ req'[r].content = content
           /\ \A q \in Requests : q # r => req'[q] = req[q]
<1>1. req[r] \in Request /\ req[r].op = "Upload"
  BY Typed DEF IInv, Writing, Busy, RequestIsChecked
<1>2. req \in [Requests -> {Idle} \cup Request]
  BY DEF IInv, TypeOK
<1>3. CASE Stored(r, f, path) /\ content = req[r].content
  BY <1>1, <1>2, <1>3 DEF Request, Stored
<1>4. CASE Registered(r, f) /\ path = req[r].path /\ content = disk[path]
  BY <1>1, <1>2, <1>4 DEF Request, Registered
<1> QED
  BY <1>3, <1>4

(* An upload that ends in a row: one it found at its path, or a new one.   *)
LEMMA UploadAudits ==
    ASSUME IInv, AuditInv, NEW r \in Requests, req[r].stage \in Writing,
           NEW f \in Nat, NEW path \in Paths,
           NEW content \in Contents \cup {NoBytes},
           \/ Stored(r, f, path) /\ content = req[r].content
           \/ Registered(r, f) /\ path = req[r].path /\ content = disk[path],
           audit' = audit, RowsStay, f # 0,
           files'[f].content = content, ~files'[f].deleted,
           \A g \in Ids' : g # f => g \in Ids /\ files'[g] = files[g]
    PROVE  AuditInv'
<1>1. /\ req'[r].stage = "auditing" /\ req'[r].op = "Upload"
      /\ req'[r].caller = req[r].caller
      /\ req'[r].file = f /\ req'[r].content = content
      /\ \A q \in Requests : q # r => req'[q] = req[q]
  <2>1. CASE Stored(r, f, path) /\ content = req[r].content
    BY <2>1, UploadIsPlaced
  <2>2. CASE Registered(r, f) /\ path = req[r].path /\ content = disk[path]
    BY <2>2, UploadIsPlaced
  <2> QED
    BY <2>1, <2>2
<1>2. req[r].stage \notin Settled
  BY DEF Writing, Settled
<1>5. RequestIsPlaced(r)'
  BY <1>1 DEF RequestIsPlaced, Writing
<1>6. RowIsExplained(f)'
  BY <1>1 DEF RowIsExplained, Worked, Settled
<1> QED
  BY <1>1, <1>2, <1>5, <1>6, AuditStep

(* The same for the callback of the connector. *)
LEMMA CallbackAudits ==
    ASSUME IInv, AuditInv, NEW r \in Requests, req[r].stage \in Writing,
           NEW f \in Nat, Registered(r, f),
           NEW path \in Paths, path = req[r].path,
           NEW content \in Contents \cup {NoBytes}, content = disk[path],
           audit' = audit, RowsStay, f # 0,
           files'[f].content = content, ~files'[f].deleted,
           \A g \in Ids' : g # f => g \in Ids /\ files'[g] = files[g]
    PROVE  AuditInv'
  BY UploadAudits

(* The row at a path. *)
LEMMA RowAtPath ==
    ASSUME IInv, NEW path, NEW f \in LiveAt(path)
    PROVE  /\ f \in Ids /\ f \in Nat /\ f # 0 /\ ~files[f].deleted
           /\ files[f] \in Row /\ files[f].path = path
<1>1. f \in Ids /\ ~files[f].deleted /\ files[f].path = path
  BY DEF LiveAt, Live
<1> QED
  BY <1>1, Rows

LEMMA StoreAudits ==
    ASSUME IInv, AuditInv, NEW r \in Requests, Store(r)
    PROVE  AuditInv'
<1>1. req[r].stage \in Writing /\ audit' = audit
  BY DEF Store, StoreDuplicate, StoreVersion, StoreAlias, StoreNew, Writing
<1>2. PICK content, at :
         content = req[r].content /\ at = req[r].path
  OBVIOUS
<1>3. /\ content \in Contents /\ at \in Paths /\ req[r].company \in Zones
  BY <1>1, <1>2, Uploading
<1>4. CASE StoreDuplicate(r) \/ StoreVersion(r)
  <2>1. PICK f \in LiveAt(at) :
           /\ Stored(r, f, at)
           /\ \/ files' = files /\ files[f].content = content
              \/ files' = [files EXCEPT ![f].content = content]
    BY <1>2, <1>4 DEF StoreDuplicate, StoreVersion, LiveAt
  <2>2. /\ f \in Ids /\ f \in Nat /\ f # 0 /\ ~files[f].deleted
        /\ files[f] \in Row
    BY RowAtPath
  <2>3. /\ RowsStay /\ Ids' = Ids
        /\ \A g \in Ids : g # f => files'[g] = files[g]
    <3>1. CASE files' = files
      BY <3>1, SameFiles
    <3>2. CASE files' = [files EXCEPT ![f].content = content]
      BY <1>3, <2>2, <3>2, Rows, UpdateRow
    <3> QED
      BY <2>1, <3>1, <3>2
  <2>4. files'[f].content = content /\ ~files'[f].deleted
    BY <2>1, <2>2 DEF Row, Ids
  <2> QED
    BY <1>1, <1>2, <1>3, <2>1, <2>2, <2>3, <2>4, UploadAudits
<1>5. CASE StoreAlias(r)
  <2>1. PICK f, path :
           /\ f \in LiveWith(content)
           /\ files' = Append(files, Alias(r, f))
           /\ Stored(r, Len(files) + 1, path)
           /\ path = files[f].path
    BY <1>2, <1>5 DEF StoreAlias
  <2>2. PICK new : new = Len(files) + 1
    OBVIOUS
  <2>3. /\ f \in Ids /\ files[f] \in Row /\ path \in Paths
        /\ ~files[f].deleted /\ files[f].content = content
    BY <2>1, Rows DEF LiveWith, Live
  <2>4. PICK row \in Row : row = Alias(r, f)
    <3>1. FileName(at) \in Segments
      BY <1>3, FileNames
    <3> QED
      BY <1>2, <2>3, <3>1 DEF Alias, Row
  <2>5. row.path = path /\ row.content = content /\ ~row.deleted
    BY <2>1, <2>3, <2>4 DEF Alias, Row
  <2>6. /\ RowsStay /\ new \in Nat /\ new # 0 /\ new \in Ids' /\ f < new
        /\ files'[new] = row
        /\ \A g \in Ids' : g # new => g \in Ids /\ files'[g] = files[g]
    <3>1. RowsStay
      BY <2>1, <2>4, Rows, AppendRow
    <3>2. files' = Append(files, row) /\ files \in Seq(Row)
      BY <2>1, <2>4, Rows
    <3> QED
      BY <2>2, <2>3, <3>1, <3>2, Rows DEF Ids
  <2>9. Stored(r, new, path)
    BY <2>1, <2>2
  <2> QED
    BY <1>1, <1>2, <1>3, <2>3, <2>5, <2>6, <2>9, UploadAudits
<1>6. CASE StoreNew(r)
  <2>1. PICK new, row : new = Len(files) + 1
                        /\ row = NewRow(req[r].company, at, content)
    OBVIOUS
  <2>2. /\ files' = Append(files, row)
        /\ Stored(r, new, at)
    BY <1>2, <1>6, <2>1 DEF StoreNew
  <2>3. row \in Row /\ row.content = content /\ ~row.deleted
    BY <1>3, <2>1, FileNames DEF NewRow, Row
  <2>4. /\ RowsStay /\ new \in Nat /\ new # 0 /\ new \in Ids'
        /\ files'[new] = row
        /\ \A g \in Ids' : g # new => g \in Ids /\ files'[g] = files[g]
    <3>1. RowsStay
      BY <2>2, <2>3, Rows, AppendRow
    <3> QED
      BY <2>1, <2>2, <2>3, <3>1, Rows DEF Ids
  <2> QED
    BY <1>1, <1>2, <1>3, <2>2, <2>3, <2>4, UploadAudits
<1> QED
  BY <1>4, <1>5, <1>6 DEF Store

LEMMA RegisterAudits ==
    ASSUME IInv, AuditInv, NEW r \in Requests, Register(r)
    PROVE  AuditInv'
<1>1. /\ req[r].stage \in Writing /\ audit' = audit
      /\ req[r].stage = "registering"
  BY DEF Register, RegisterRow, RegisterNew, RegisterNothing, Writing
<1>2. PICK content, at :
         content = disk[at] /\ at = req[r].path
  OBVIOUS
<1>3. /\ at \in Paths /\ req[r].company \in Zones
      /\ content \in Contents \cup {NoBytes}
  BY <1>1, <1>2, Uploading DEF IInv, TypeOK
<1>4. CASE RegisterRow(r)
  <2>1. PICK f \in LiveAt(at) :
           /\ Registered(r, f)
           /\ files' = [files EXCEPT ![f].content = content]
           /\ content # NoBytes
    BY <1>2, <1>4 DEF RegisterRow
  <2>2. /\ f \in Ids /\ f \in Nat /\ f # 0 /\ ~files[f].deleted
        /\ files[f] \in Row
    BY RowAtPath
  <2>3. /\ RowsStay /\ Ids' = Ids
        /\ \A g \in Ids : g # f => files'[g] = files[g]
    BY <1>3, <2>1, <2>2, Rows, UpdateRow
  <2>4. files'[f].content = content /\ ~files'[f].deleted
    BY <2>1, <2>2 DEF Row, Ids
  <2> QED
    BY <1>1, <1>2, <1>3, <2>1, <2>2, <2>3, <2>4, CallbackAudits
<1>5. CASE RegisterNew(r)
  <2>1. PICK new, row : new = Len(files) + 1
                        /\ row = NewRow(ParseCompany(at), at, content)
    OBVIOUS
  <2>2. /\ files' = Append(files, row)
        /\ Registered(r, new)
        /\ content # NoBytes
    BY <1>2, <1>5, <2>1 DEF RegisterNew
  <2>4. row \in Row /\ row.content = content /\ ~row.deleted
    BY <1>3, <2>1, <2>2, ParsedZone, FileNames DEF NewRow, Row
  <2>5. /\ RowsStay /\ new \in Nat /\ new # 0 /\ new \in Ids'
        /\ files'[new] = row
        /\ \A g \in Ids' : g # new => g \in Ids /\ files'[g] = files[g]
    <3>1. RowsStay
      BY <2>2, <2>4, Rows, AppendRow
    <3> QED
      BY <2>1, <2>2, <2>4, <3>1, Rows DEF Ids
  <2>7. files'[new].content = content /\ ~files'[new].deleted
    BY <2>4, <2>5
  <2>8. Registered(r, new) /\ audit' = audit
    BY <1>1, <2>2
  <2> QED
    BY <1>1, <1>2, <1>3, <2>5, <2>7, <2>8, CallbackAudits
<1>6. CASE RegisterNothing(r)
  <2>1. files' = files /\ Goto(r, "auditing")
    BY <1>6 DEF RegisterNothing
  <2>2. /\ req[r] \in Request /\ req[r].op = "Upload" /\ req[r].file = 0
    BY <1>1, Typed DEF IInv, Writing, Busy, RequestIsChecked, AuditInv,
                       RequestIsPlaced
  <2>3. /\ req'[r] = [req[r] EXCEPT !.stage = "auditing"]
        /\ \A q \in Requests : q # r => req'[q] = req[q]
    BY <2>1, <2>2 DEF Goto, IInv, TypeOK
  <2>4. RequestIsPlaced(r)'
    BY <2>2, <2>3 DEF RequestIsPlaced, Writing, Request
  <2>5. req[r].stage \notin Settled /\ req'[r].stage = "auditing"
    BY <1>1, <2>2, <2>3 DEF Settled, Request
  <2> QED
    BY <1>1, <2>1, <2>3, <2>4, <2>5, AuditQuiet
<1> QED
  BY <1>4, <1>5, <1>6 DEF Register

(* A request that ends without an entry, or has its bytes on the disk.     *)
LEMMA GotoAudits ==
    ASSUME IInv, AuditInv, NEW r \in Requests, req[r].stage \in Busy,
           NEW stage \in {"refused", "failed", "registering"},
           Goto(r, stage), files' = files, audit' = audit,
           stage = "registering" => req[r].stage = "connecting",
           stage = "refused" => req[r].stage \in {"storing", "opening"}
    PROVE  AuditInv'
<1>1. req[r] \in Request /\ req \in [Requests -> {Idle} \cup Request]
  BY Typed DEF IInv, TypeOK
<1>2. /\ req'[r] = [req[r] EXCEPT !.stage = stage]
      /\ \A q \in Requests : q # r => req'[q] = req[q]
  BY <1>1 DEF Goto
<1>3. /\ req'[r].stage = stage /\ req'[r].op = req[r].op
      /\ req'[r].file = req[r].file /\ req'[r].content = req[r].content
  BY <1>1, <1>2 DEF Request
<1>4. RequestIsPlaced(r)'
  BY <1>3 DEF RequestIsPlaced, Writing, AuditInv
<1>5. req[r].stage \in Settled => /\ req[r].stage = "auditing"
                                  /\ stage \in Settled
  BY DEF Settled, Busy
<1> QED
  BY <1>2, <1>3, <1>4, <1>5, AuditQuiet

LEMMA SoftDeleteAudits ==
    ASSUME IInv, AuditInv, NEW r \in Requests, SoftDelete(r)
    PROVE  AuditInv'
<1>1. PICK f : f = req[r].file
  OBVIOUS
<1>2. /\ req[r].stage = "deleting" /\ req[r] \in Request
      /\ req[r].op = "Delete" /\ f \in Ids
      /\ req[r].path = files[f].path
  BY <1>1, Typed
  DEF SoftDelete, IInv, RequestIsChecked, Busy, Chosen, AuditInv, RequestIsPlaced
<1>3. /\ req'[r] = [req[r] EXCEPT !.stage = "auditing"]
      /\ \A q \in Requests : q # r => req'[q] = req[q]
  BY <1>2 DEF SoftDelete, Goto, IInv, TypeOK
<1>4. /\ req'[r].stage = "auditing" /\ req'[r].op = "Delete"
      /\ req'[r].file = f /\ req'[r].path = req[r].path
  BY <1>1, <1>2, <1>3 DEF Request
<1>5. files' = [files EXCEPT ![f].deleted = TRUE] /\ audit' = audit
  BY <1>1 DEF SoftDelete
<1>6. /\ RowsStay /\ Ids' = Ids
      /\ \A g \in Ids : g # f => files'[g] = files[g]
  BY <1>2, <1>5, Rows, UpdateRow
<1>7. files[f] \in Row
  BY <1>2, Rows
<1>8. /\ files'[f].deleted /\ files'[f].content = files[f].content
      /\ files'[f].path = files[f].path
  BY <1>2, <1>5, <1>7 DEF Row, Ids
<1>9. RequestIsPlaced(r)'
  BY <1>2, <1>4, <1>6, <1>8 DEF RequestIsPlaced, Writing, Live
<1>10. RowIsExplained(f)'
  <2>1. PICK q \in Requests :
           Worked(q, "Upload", f) /\ req[q].content = files[f].content
    BY <1>2 DEF AuditInv, RowIsExplained
  <2>2. q # r
    BY <1>2, <2>1 DEF Worked
  <2>3. Worked(q, "Upload", f)' /\ req'[q].content = files'[f].content
    BY <1>3, <1>8, <2>1, <2>2 DEF Worked
  <2>4. Worked(r, "Delete", f)'
    BY <1>4 DEF Worked, Settled
  <2> QED
    BY <2>3, <2>4 DEF RowIsExplained
<1>11. req[r].stage \notin Settled
  BY <1>2 DEF Settled
<1> QED
  BY <1>3, <1>4, <1>5, <1>6, <1>9, <1>10, <1>11, AuditStep

LEMMA OpenReadAudits ==
    ASSUME IInv, AuditInv, NEW r \in Requests, OpenRead(r)
    PROVE  AuditInv'
<1>1. /\ req[r].stage = "opening" /\ req[r] \in Request
      /\ req[r].op = "Download" /\ req[r].file \in Ids
  BY Typed DEF OpenRead, IInv, RequestIsChecked, Busy, Chosen, AuditInv,
               RequestIsPlaced
<1>2. PICK content : content = disk[files[req[r].file].path]
  OBVIOUS
<1>3. req' = [req EXCEPT ![r].stage = "auditing", ![r].content = content]
  BY <1>2 DEF OpenRead
<1>4. /\ req'[r].stage = "auditing" /\ req'[r].op = "Download"
      /\ req'[r].file = req[r].file
      /\ \A q \in Requests : q # r => req'[q] = req[q]
  BY <1>1, <1>3 DEF IInv, TypeOK, Request
<1>5. files' = files /\ audit' = audit
  BY DEF OpenRead
<1>6. RequestIsPlaced(r)'
  BY <1>1, <1>4, <1>5, SameFiles DEF RequestIsPlaced, Writing
<1>7. req[r].stage \notin Settled
  BY <1>1 DEF Settled
<1> QED
  BY <1>4, <1>5, <1>6, <1>7, AuditQuiet

LEMMA AuditAudits ==
    ASSUME IInv, AuditInv, NEW r \in Requests, Audit(r)
    PROVE  AuditInv'
<1>1. /\ req[r].stage = "auditing" /\ req[r] \in Request
      /\ RequestIsPlaced(r)
  BY Typed DEF Audit, IInv, Busy, AuditInv
<1>2. /\ req'[r] = [req[r] EXCEPT !.stage = "done"]
      /\ \A q \in Requests : q # r => req'[q] = req[q]
  BY <1>1 DEF Audit, Goto, IInv, TypeOK
<1>3. /\ req'[r].stage = "done" /\ req'[r].op = req[r].op
      /\ req'[r].file = req[r].file /\ req'[r].content = req[r].content
      /\ req'[r].path = req[r].path /\ req'[r].caller = req[r].caller
  BY <1>1, <1>2 DEF Request
<1>4. files' = files /\ audit' = audit \cup {Entry(r)}
  BY DEF Audit
<1>5. Entry(r)' = Entry(r)
  BY <1>3, <1>4 DEF Entry
<1>6. RequestIsPlaced(r)'
  BY <1>1, <1>3, <1>4, SameFiles DEF RequestIsPlaced, Writing, Live
<1>7. RowsStay /\ Ids' = Ids
  BY <1>4, SameFiles
<1> QED
  BY <1>1, <1>2, <1>3, <1>4, <1>5, <1>6, <1>7, AuditStep DEF Settled

(* The requests, the rows and the entries are as they were. *)
LEMMA NothingAudits ==
    ASSUME AuditInv, req' = req, files' = files, audit' = audit
    PROVE  AuditInv'
<1>1. Ids' = Ids
  BY DEF Ids
<1>2. \A r \in Requests : RequestIsPlaced(r)' /\ RequestIsLogged(r)'
  BY <1>1 DEF AuditInv, RequestIsPlaced, RequestIsLogged, Entry, Live
<1>3. \A e \in audit' : EntryIsTrue(e)'
  BY DEF AuditInv, EntryIsTrue, Entry
<1>4. \A f \in Ids' : RowIsExplained(f)'
  BY <1>1 DEF AuditInv, RowIsExplained, Worked
<1> QED
  BY <1>2, <1>3, <1>4 DEF AuditInv

LEMMA InitAuditInv == Init => AuditInv
  BY DEF Init, AuditInv, RequestIsPlaced, RequestIsLogged, Idle, Ids, Writing

LEMMA NextAuditInv == IInv /\ AuditInv /\ [Next]_vars => AuditInv'
<1> SUFFICES ASSUME IInv, AuditInv, [Next]_vars PROVE AuditInv'
  OBVIOUS
<1>1. ASSUME NEW r \in Requests, Arrive(r) PROVE AuditInv'
  BY <1>1, ArriveAudits
<1>2. ASSUME NEW r \in Requests, Step(r) PROVE AuditInv'
  <2>1. CASE Refuse(r) \/ OpenNothing(r)
    BY <2>1, GotoAudits DEF Refuse, OpenNothing, Busy
  <2>2. CASE Store(r)
    BY <2>2, StoreAudits
  <2>3. CASE ConnectorWrites(r)
    BY <2>3, GotoAudits DEF ConnectorWrites, Busy
  <2>4. CASE Register(r)
    BY <2>4, RegisterAudits
  <2>5. CASE SoftDelete(r)
    BY <2>5, SoftDeleteAudits
  <2>6. CASE OpenRead(r)
    BY <2>6, OpenReadAudits
  <2>7. CASE Audit(r)
    BY <2>7, AuditAudits
  <2> QED
    BY <1>2, <2>1, <2>2, <2>3, <2>4, <2>5, <2>6, <2>7 DEF Step
<1>3. ASSUME NEW r \in Requests, Fail(r) PROVE AuditInv'
  BY <1>3, GotoAudits DEF Fail
<1>4. ASSUME NEW c \in Callers, NEW path \in Paths, ConnectorDeletes(c, path)
      PROVE  AuditInv'
  BY <1>4, NothingAudits DEF ConnectorDeletes
<1>5. CASE UNCHANGED vars
  BY <1>5, NothingAudits DEF vars
<1> QED
  BY <1>1, <1>2, <1>3, <1>4, <1>5 DEF Next

LEMMA Invariance == Spec => [](IInv /\ AuditInv)
  BY InitIInv, InitAuditInv, NextIInv, NextAuditInv, PTL DEF Spec

(* The witnesses of a row have their entry, failed, or are about to write. *)
LEMMA Witnessed ==
    ASSUME AuditInv, NEW r \in Requests, NEW op, NEW f, Worked(r, op, f)
    PROVE  /\ req[r] # Idle /\ req[r].op = op /\ req[r].file = f
           /\ Entry(r) \in audit \/ req[r].stage \in {"auditing", "failed"}
  BY DEF AuditInv, RequestIsLogged, Worked, Settled, Idle

LEMMA AuditInvImplies ==
    IInv /\ AuditInv => AuditMatchesRows
<1> SUFFICES ASSUME IInv, AuditInv PROVE AuditMatchesRows
  OBVIOUS
<1>1. ASSUME NEW f \in Ids
      PROVE  /\ files[f].deleted => \E r \in Requests : Worked(r, "Delete", f)
             /\ \E r \in Requests :
                   Worked(r, "Upload", f) /\ req[r].content = files[f].content
  BY DEF AuditInv, RowIsExplained
<1>2. ASSUME NEW e \in audit, e.action = "Delete"
      PROVE  /\ req[e.request].file \in Ids \ Live
             /\ files[req[e.request].file].path = e.file
  <2>1. PICK r \in Requests : r = e.request /\ req[r].stage = "done" /\ e = Entry(r)
    BY DEF AuditInv, EntryIsTrue
  <2>2. req[r].op = "Delete" /\ e.file = req[r].path
    BY <1>2, <2>1 DEF Entry
  <2> QED
    BY <2>1, <2>2 DEF AuditInv, RequestIsPlaced
<1> QED
  BY <1>1, <1>2, Witnessed DEF AuditMatchesRows

(* Every row and every deletion has its entry in the audit log, or the     *)
(* request that made it failed or is about to write the entry; and a       *)
(* Delete entry names a row that is deleted and its path.                  *)
THEOREM AuditCorrectness == Spec => []AuditMatchesRows
  BY Invariance, AuditInvImplies, PTL

(* The list and the checks of Delete and Download agree.                   *)
THEOREM ListCorrectness == Spec => []ListsWhatCanBeOpened
<1>1. ListsWhatCanBeOpened
  BY DEF ListsWhatCanBeOpened, List, BuildQuery, Found, CanAccess, Live
<1> QED
  BY <1>1, PTL
=============================================================================
