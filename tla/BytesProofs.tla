----------------------------- MODULE BytesProofs -----------------------------
(***************************************************************************)
(* The bytes.  What becomes of temporary files is proved for every         *)
(* execution of FileStorage.  That the disk agrees with the rows is proved of the       *)
(* watched paths, a set of paths outside temp/ of which two things are     *)
(* asked: they are left in peace (LeftInPeace: uploads there run one after *)
(* the other, elFinder writes no file of theirs, no exception or crash     *)
(* falls between the first change at the path and the commit), and the     *)
(* contents sent for them are not sent for other paths (Apart).  Nothing   *)
(* is asked of the other paths: there requests overlap, fail, crash and    *)
(* register files as they like.  Each condition is one without which TLC   *)
(* finds disk and rows of the path apart.                                  *)
(***************************************************************************)
EXTENDS FileStorageProofs, StorageReaders, FiniteSetTheorems

(***************************************************************************)
(* Lemmas about the disk.                                                  *)
(***************************************************************************)

(* Nothing happens to a location. *)
SameAt(l) == /\ Exists(l) <=> Exists(l)'
             /\ Exists(l) => disk'[l] = disk[l]

LEMMA AfterWithout ==
    ASSUME NEW l, disk' = Without(l)
    PROVE  ~Exists(l)' /\ \A k : k # l => SameAt(k)
  BY DEF Without, Exists, SameAt

LEMMA AfterWith ==
    ASSUME NEW l, NEW c, disk' = With(l, c)
    PROVE  /\ Exists(l)' /\ disk'[l] = c
           /\ \A k : k # l => SameAt(k)
  BY DEF With, Exists, SameAt

LEMMA AfterMoved ==
    ASSUME NEW from, NEW to, from # to, disk' = Moved(from, to)
    PROVE  /\ ~Exists(from)'
           /\ Exists(to)' /\ disk'[to] = disk[from]
           /\ \A k : k # from /\ k # to => SameAt(k)
  BY DEF Moved, Exists, SameAt

LEMMA SameDisk == ASSUME disk' = disk PROVE \A k : SameAt(k)
  BY DEF Exists, SameAt

(* Temporary files, canonical files and archives are different places. *)
LEMMA Places ==
    /\ \A p, q : Canonical(p) = Canonical(q) => p = q
    /\ \A p, q, m, n : Archive(p, m) = Archive(q, n) => p = q /\ m = n
    /\ \A r, s : Temp(r) = Temp(s) => r = s
    /\ \A p, q, n : Canonical(p) # Archive(q, n)
    /\ \A p, r : Canonical(p) # Temp(r)
    /\ \A p, n, r : Archive(p, n) # Temp(r)
  BY DEF Canonical, Archive, Temp

(* No content that is sent for a watched path is sent for another one.     *)
Apart ==
    \A s, t \in MayUpload : s[1] \in Watched /\ s[2] = t[2] => t[1] = s[1]

(***************************************************************************)
(* The requests and the rows of the watched paths.                         *)
(***************************************************************************)

OfNewPath == {"newPath", "placing", "moving", "inserting"}
OfVersion == {"replacing"} \cup AfterVersions

OneAtATime ==
    \A r, s \in Requests :
       /\ Active(r) /\ Active(s)
       /\ req[r].path \in Watched /\ req[r].path = req[s].path
       => r = s

(* The row a re-upload found is still the only live one of the path. *)
Target(r) ==
    LET q == req[r] IN
    /\ q.asset \in DOMAIN files
    /\ files[q.asset].path = q.path
    /\ files[q.asset].hash = q.hash
    /\ LiveAt(q.path) \subseteq {q.asset}

InTurn(r) ==
    LET q == req[r] IN
    /\ <<q.path, q.content>> \in MayUpload
    /\ r \in Registrations => pc[r] = "idle"
    /\ pc[r] # "aliasing"
    /\ pc[r] \in OfNewPath => LiveAt(q.path) = {}
    /\ pc[r] \in OfVersion => Target(r)
    /\ pc[r] \in AfterVersions =>
          ~q.legacy /\ \A v \in VersionsOf(q.asset) : v.number <= q.last

RowInTurn(a) ==
    /\ <<files[a].path, files[a].hash>> \in MayUpload
    /\ \E v \in VersionsOf(a) : v.isCurrent

OneLiveRow == \A p \in Watched : \A a, b \in LiveAt(p) : a = b

Turns ==
    /\ OneAtATime
    /\ \A r \in Requests : req[r].path \in Watched => InTurn(r)
    /\ \A a \in DOMAIN files : files[a].path \in Watched => RowInTurn(a)
    /\ OneLiveRow

(***************************************************************************)
(* The others: their rows and files are at other paths, whatever they do   *)
(* there, and have other contents, so that no upload of a watched path is  *)
(* taken for one of theirs.                                                *)
(***************************************************************************)

Foreign(c) == \A s \in MayUpload : s[2] = c => s[1] \notin Watched

StaysAway(r) ==
    LET q == req[r] IN
    /\ <<q.path, q.content>> \in MayUpload
    /\ pc[r] \in {"hashed", "enrolling", "updating"} => Foreign(q.hash)
    /\ pc[r] \in Referring => files[q.asset].path \notin Watched

Others ==
    /\ \A r \in Requests : req[r].path \notin Watched => StaysAway(r)
    /\ \A a \in DOMAIN files :
          files[a].path \notin Watched => Foreign(files[a].hash)
    /\ \A p : p \notin Watched /\ Exists(Canonical(p))
                 => Foreign(disk[Canonical(p)])

(***************************************************************************)
(* The disk.                                                               *)
(***************************************************************************)

Holds(l, c) == Exists(l) /\ disk[l] = c

(* A request at work on the path is at one of the stages. *)
At(p, stages) == \E r \in Requests : pc[r] \in stages /\ req[r].path = p

Gap == {"moving", "promoting", "swapping"}
Swap == {"promoting", "swapping", "committing"}
Placed == {"inserting", "committing"}

TempIsThere(r) == pc[r] \in HoldsTemp => Holds(Temp(r), req[r].content)

RowIsServed(a) ==
    LET p == files[a].path IN
    /\ Exists(Canonical(p)) \/ At(p, Gap)
    /\ Live(a) /\ ~At(p, Swap) => Holds(Canonical(p), files[a].hash)
    /\ \A v \in VersionsOf(a) :
          /\ v.archived <=> ~v.isCurrent
          /\ Live(a) /\ v.archived => Holds(Archive(p, v.number), v.hash)

CanonicalIsKnown(p) ==
    Exists(Canonical(p)) =>
       \/ \E a \in DOMAIN files :
             files[a].path = p /\ files[a].hash = disk[Canonical(p)]
       \/ \E r \in Requests :
             /\ pc[r] \in Placed /\ req[r].path = p
             /\ req[r].content = disk[Canonical(p)]

RequestIsOnCourse(r) ==
    LET q == req[r]
        c == Canonical(q.path)
    IN /\ pc[r] \in {"moving", "swapping"} => ~Exists(c)
       /\ pc[r] \in Placed => Holds(c, q.content)
       /\ pc[r] = "shelved" => ~Exists(Shelf(r))
       /\ pc[r] \in AfterVersions \ {"archiving"} => q.archived
       /\ pc[r] \in Swap /\ Live(q.asset) => Holds(Shelf(r), q.hash)

PathInOrder(p) ==
    /\ \A a \in DOMAIN files : files[a].path = p => RowIsServed(a)
    /\ CanonicalIsKnown(p)
    /\ \A r \in Requests : req[r].path = p => RequestIsOnCourse(r)

Bodies == \A r \in Requests : TempIsThere(r)

Order ==
    /\ Bodies
    /\ \A p \in Watched : PathInOrder(p)

(***************************************************************************)
(* Uploads take turns: what the step of one shows to the others.           *)
(***************************************************************************)

Setting == Apart /\ IInv /\ AssetHashIsCurrent /\ Turns /\ Others

(* An exception or a crash that spares the moves. *)
Fault(r) == pc[r] \notin Moves /\ (Throw(r) \/ Crash(r))

(* A request does something. *)
Acts(r) ==
    \/ r \in Uploads /\ (StartUpload(r) \/ UploadStep(r))
    \/ r \in Registrations /\ (ConnectorWrites(r) \/ RegisterStep(r))
    \/ Throw(r) \/ Crash(r)

(* At the watched paths there are only uploads. *)
LEMMA Steps ==
    ASSUME Setting, Next, LeftInPeace
    PROVE  \/ \E u \in Uploads :
                 /\ req[u].path \in Watched
                 /\ \/ StartUpload(u) /\ Quiet(req[u].path)
                    \/ UploadStep(u) \/ Fault(u)
           \/ \E r \in Requests : req[r].path \notin Watched /\ Acts(r)
           \/ \E a \in DOMAIN files : SoftDelete(a)
           \/ CleanupTemp
<1>1. Uploads \subseteq Requests /\ Registrations \subseteq Requests
      /\ Requests \subseteq Uploads \cup Registrations
  BY DEF Requests
<1>2. ASSUME NEW g \in Registrations, req[g].path \in Watched
      PROVE  pc[g] = "idle"
  BY <1>1, <1>2 DEF Setting, Turns, InTurn
<1>3. ASSUME NEW g \in Registrations, req[g].path \in Watched
      PROVE  ~ConnectorWrites(g) /\ ~RegisterStep(g)
  BY <1>2, <1>3 DEF LeftInPeace, RegisterStep, HashFile, LookUpRow,
     CommitEnrolment, CommitUpdate
<1>4. ASSUME NEW r \in Requests, req[r].path \in Watched, Throw(r) \/ Crash(r)
      PROVE  r \in Uploads /\ Fault(r)
  <2>1. pc[r] # "idle"
    BY <1>4 DEF Throw, Crash, Active, Stages, UploadStages, BeforeVersions,
       AfterVersions, RegisterStages
  <2> QED
    BY <1>1, <1>2, <1>4, <2>1 DEF LeftInPeace, Fault
<1>5. \A u \in Uploads :
         req[u].path \in Watched /\ StartUpload(u) => Quiet(req[u].path)
  BY DEF LeftInPeace
<1>6. CASE \E u \in Uploads : StartUpload(u) \/ UploadStep(u)
  BY <1>1, <1>5, <1>6 DEF Acts
<1>7. CASE \E g \in Registrations : ConnectorWrites(g) \/ RegisterStep(g)
  BY <1>1, <1>3, <1>7 DEF Acts
<1>8. CASE \E r \in Requests : Throw(r) \/ Crash(r)
  BY <1>4, <1>8 DEF Acts
<1> QED
  BY <1>6, <1>7, <1>8 DEF Next

(* The hash of a row is that of its current version: elFinder does not     *)
(* update the rows of watched paths.                                       *)
LEMMA HashOfCurrent ==
    ASSUME Setting, NEW v \in versions, v.isCurrent,
           files[v.asset].path \in Watched
    PROVE  files[v.asset].hash = v.hash
<1>1. ASSUME NEW g \in Registrations, pc[g] = "updated", req[g].asset = v.asset
      PROVE  FALSE
  <2>1. g \in Requests
    BY DEF Requests
  <2>2. req[g].path \notin Watched
    BY <1>1, <2>1 DEF Setting, Turns, InTurn
  <2> QED
    BY <1>1, <2>1, <2>2 DEF Setting, Others, StaysAway, Referring
<1> QED
  BY <1>1 DEF Setting, AssetHashIsCurrent

(* The stages that say something are stages of active requests. *)
LEMMA SpokenOfIsActive ==
    ASSUME NEW r \in Requests, pc[r] \in OfNewPath \cup OfVersion \cup AfterVersions
    PROVE  Active(r)
  BY DEF OfNewPath, OfVersion, Active, Stages, UploadStages, BeforeVersions,
         AfterVersions

(* What a step of r at p may do to the rows: nothing to those of a watched *)
(* path from elsewhere, nor to those of another path from a watched one.   *)
RowsMove(r, p) ==
    /\ DOMAIN files \subseteq DOMAIN files'
    /\ \A a \in DOMAIN files :
          /\ files'[a].path = files[a].path
          /\ files[a].deleted => files'[a].deleted
          /\ files[a].path # p /\ {p, files[a].path} \cap Watched # {} =>
                files'[a].hash = files[a].hash /\ VersionsOf(a)' = VersionsOf(a)
    /\ \A a \in DOMAIN files' \ DOMAIN files :
          {p, files'[a].path} \cap Watched # {} =>
             a = r /\ files'[a].path = p /\ LiveAt(p) = {}

LEMMA LiveElsewhere ==
    ASSUME NEW r, NEW p, RowsMove(r, p), NEW q \in Watched, q # p
    PROVE  LiveAt(q)' \subseteq LiveAt(q)
  BY DEF RowsMove, LiveAt, Live

LEMMA SameRows ==
    ASSUME files' = files, versions' = versions
    PROVE  /\ \A r, p : RowsMove(r, p)
           /\ \A p : LiveAt(p)' = LiveAt(p)
           /\ \A a : VersionsOf(a)' = VersionsOf(a)
  BY DEF RowsMove, LiveAt, Live, VersionsOf

(* r has the path for itself, or is about to start and may have it. *)
HasPath(r) ==
    \A s \in Requests : s # r /\ Active(s) => req[s].path # req[r].path

LEMMA ActiveHasPath ==
    ASSUME Turns, NEW r \in Requests, Active(r), req[r].path \in Watched
    PROVE  HasPath(r)
  BY DEF Turns, OneAtATime, HasPath

LEMMA OthersInTurn ==
    ASSUME Turns, NEW r \in Requests, NEW p, p = req[r].path,
           p \in Watched => HasPath(r),
           RowsMove(r, p), NEW s \in Requests, s # r, req[s].path \in Watched,
           pc'[s] = pc[s], req'[s] = req[s]
    PROVE  InTurn(s)'
<1>1. InTurn(s)
  BY DEF Turns
<1>2. CASE pc[s] \in OfNewPath \cup OfVersion \cup AfterVersions
  <2>1. PICK q, a : q = req[s].path /\ a = req[s].asset
    OBVIOUS
  <2>2. q # p
    BY <1>2, <2>1, SpokenOfIsActive DEF HasPath
  <2>0. q \in Watched
    BY <2>1
  <2>3. LiveAt(q)' \subseteq LiveAt(q)
    BY <2>0, <2>2, LiveElsewhere
  <2>4. pc[s] \in OfNewPath => LiveAt(req[s].path)' = {}
    BY <1>1, <2>1, <2>3 DEF InTurn, LiveAt, Live
  <2>5. ASSUME pc[s] \in OfVersion
        PROVE  Target(s)'
    <3>1. /\ a \in DOMAIN files /\ files[a].path = q /\ files[a].hash = req[s].hash
          /\ LiveAt(q) \subseteq {a}
      BY <1>1, <2>1, <2>5 DEF InTurn, Target
    <3>2. a \in DOMAIN files' /\ files'[a].path = q /\ files'[a].hash = req[s].hash
      BY <2>0, <2>2, <3>1 DEF RowsMove
    <3>3. LiveAt(q)' \subseteq {a}
      BY <2>3, <3>1
    <3> QED
      BY <2>1, <3>2, <3>3 DEF Target, LiveAt, Live
  <2>6. ASSUME pc[s] \in AfterVersions
        PROVE  ~req[s].legacy /\ \A v \in VersionsOf(a)' : v.number <= req[s].last
    <3>1. a \in DOMAIN files /\ files[a].path = q
      BY <1>1, <2>1, <2>6 DEF InTurn, Target, OfVersion
    <3>2. VersionsOf(a)' = VersionsOf(a)
      BY <2>0, <2>2, <3>1 DEF RowsMove
    <3> QED
      BY <1>1, <2>1, <2>6, <3>2 DEF InTurn
  <2>7. \A v : v \in VersionsOf(a)' <=> v \in VersionsOf(req[s].asset)'
    BY <2>1 DEF VersionsOf
  <2>8. LiveAt(req[s].path)' = LiveAt(q)'
    BY <2>1 DEF LiveAt
  <2> QED
    BY <1>1, <2>4, <2>5, <2>6, <2>7 DEF InTurn
<1>3. CASE pc[s] \notin OfNewPath \cup OfVersion \cup AfterVersions
  BY <1>1, <1>3 DEF InTurn
<1> QED
  BY <1>2, <1>3

(* What a step of a request has to show for the others to stay in turn.    *)
LEMMA TurnStep ==
    ASSUME Turns, NEW r \in Requests, NEW p, p = req[r].path,
           p \in Watched => HasPath(r) /\ InTurn(r)',
           \A s \in Requests : s # r => pc'[s] = pc[s] /\ req'[s] = req[s],
           req'[r].path = p, RowsMove(r, p),
           \A a \in DOMAIN files' : files'[a].path \in Watched => RowInTurn(a)'
    PROVE  Turns'
<1>1. \A s \in Requests : req'[s].path \in Watched => InTurn(s)'
  BY OthersInTurn
<1>2. OneAtATime'
  <2> SUFFICES ASSUME NEW s \in Requests, NEW t \in Requests,
                      Active(s)', Active(t)', req'[s].path \in Watched,
                      req'[s].path = req'[t].path, s # t
               PROVE  FALSE
    BY DEF OneAtATime
  <2>1. CASE s # r /\ t # r
    BY <2>1 DEF Turns, OneAtATime, Active
  <2>2. CASE s = r \/ t = r
    BY <2>2 DEF HasPath, Active
  <2> QED
    BY <2>1, <2>2
<1>3. OneLiveRow'
  <2> SUFFICES ASSUME NEW q \in Watched, NEW a \in LiveAt(q)', NEW b \in LiveAt(q)'
               PROVE  a = b
    BY DEF OneLiveRow
  <2>1. CASE q # p
    BY <2>1, LiveElsewhere DEF Turns, OneLiveRow
  <2>2. CASE q = p
    <3>1. \A c \in LiveAt(q)' : c \in LiveAt(q) \/ (c = r /\ LiveAt(p) = {})
      BY <2>2 DEF RowsMove, LiveAt, Live
    <3> QED
      BY <2>2, <3>1 DEF Turns, OneLiveRow
  <2> QED
    BY <2>1, <2>2
<1> QED
  BY <1>1, <1>2, <1>3 DEF Turns

(* A step that touches no table. *)
LEMMA QuietTurn ==
    ASSUME Turns, NEW r \in Requests, HasPath(r), InTurn(r)',
           \A s \in Requests : s # r => pc'[s] = pc[s] /\ req'[s] = req[s],
           req'[r].path = req[r].path,
           files' = files, versions' = versions
    PROVE  Turns'
<1>1. PICK p : p = req[r].path
  OBVIOUS
<1>2. \A a \in DOMAIN files' : files'[a].path \in Watched => RowInTurn(a)'
  BY DEF Turns, RowInTurn, VersionsOf
<1> QED
  BY <1>1, <1>2, SameRows, TurnStep

LEMMA StageTurn ==
    ASSUME Turns, TypeOK, NEW r \in Requests, HasPath(r), NEW stage,
           req[r].path \in Watched, r \in Uploads,
           pc' = [pc EXCEPT ![r] = stage],
           req' = req, files' = files, versions' = versions,
           stage # "aliasing",
           stage \in OfNewPath => pc[r] \in OfNewPath \/ LiveAt(req[r].path) = {},
           stage \in OfVersion => pc[r] \in OfVersion,
           stage \in AfterVersions => pc[r] \in AfterVersions
    PROVE  Turns'
<1>1. /\ pc'[r] = stage
      /\ \A s \in Requests : s # r => pc'[s] = pc[s] /\ req'[s] = req[s]
  BY DEF TypeOK
<1>2. InTurn(r)
  BY DEF Turns
<1>3. InTurn(r)'
  <2>1. stage \in OfNewPath => LiveAt(req[r].path) = {}
    BY <1>2 DEF InTurn
  <2>2. LiveAt(req[r].path)' = LiveAt(req[r].path)
        /\ VersionsOf(req[r].asset)' = VersionsOf(req[r].asset)
    BY DEF LiveAt, Live, VersionsOf
  <2>3. Target(r)' <=> Target(r)
    BY <2>2 DEF Target
  <2> QED
    BY <1>1, <1>2, <2>1, <2>2, <2>3, RequestsAssumption DEF InTurn
<1> QED
  BY <1>1, <1>3, QuietTurn

(* An upload that is at work has its path for itself. *)
LEMMA AtWork ==
    ASSUME Setting, NEW u \in Uploads, req[u].path \in Watched,
           pc[u] \in UploadStages
    PROVE  /\ u \in Requests /\ Active(u) /\ HasPath(u) /\ InTurn(u)
           /\ req[u] \in Locals
<1>1. u \in Requests /\ Active(u)
  BY DEF Requests, Active, Stages
<1>2. HasPath(u) /\ InTurn(u)
  BY <1>1, ActiveHasPath DEF Setting, Turns
<1> QED
  BY <1>1, <1>2 DEF Setting, IInv, Types, TypeOK

LEMMA StartTurns ==
    ASSUME Setting, NEW u \in Uploads, req[u].path \in Watched, StartUpload(u),
           Quiet(req[u].path)
    PROVE  Turns' /\ HasPath(u)
<1>1. u \in Requests /\ TypeOK
  BY DEF Setting, Requests, IInv, Types
<1>2. HasPath(u)
  BY DEF Quiet, HasPath
<1>3. pc' = [pc EXCEPT ![u] = "writing"]
      /\ files' = files /\ versions' = versions /\ req' = req
  BY DEF StartUpload, Goto
<1> QED
  BY <1>1, <1>2, <1>3, StageTurn
  DEF Setting, OfNewPath, OfVersion, AfterVersions

(* The steps that change a stage and no table. *)
LEMMA StagesTurn ==
    ASSUME Setting, NEW u \in Uploads, req[u].path \in Watched,
           \/ Receive(u) \/ Reject(u) \/ ConflictingVersion(u)
           \/ Place(u) \/ ArchiveCurrent(u) \/ Promote(u)
           \/ LookUpPath(u) /\ LiveAt(req[u].path) = {}
    PROVE  Turns'
<1> USE DEF UploadStages, BeforeVersions, OfNewPath, OfVersion, AfterVersions
<1>1. pc[u] \in UploadStages
  BY DEF Receive, Reject, ConflictingVersion, Place, ArchiveCurrent, Promote,
         LookUpPath, MoveOverwrite
<1>2. u \in Requests /\ HasPath(u) /\ TypeOK /\ Turns
  BY <1>1, AtWork DEF Setting, IInv, Types
<1>3. req' = req /\ files' = files /\ versions' = versions
  BY DEF Receive, Reject, ConflictingVersion, Place, ArchiveCurrent, Promote,
         LookUpPath, MoveOverwrite
<1>4. ASSUME NEW stage \in {"rejected", "failed", "received", "newPath"},
             pc' = [pc EXCEPT ![u] = stage],
             stage = "newPath" => LiveAt(req[u].path) = {}
      PROVE  Turns'
  BY <1>2, <1>3, <1>4, StageTurn
<1>5. CASE Receive(u) \/ Reject(u) \/ ConflictingVersion(u)
           \/ (LookUpPath(u) /\ LiveAt(req[u].path) = {})
  BY <1>4, <1>5 DEF Receive, Reject, ConflictingVersion, LookUpPath, End, Goto
<1>6. CASE Place(u)
  <2>1. PICK stage \in {"moving", "inserting", "failed"} :
           pc' = [pc EXCEPT ![u] = stage] /\ pc[u] \in {"placing", "moving"}
    BY <1>6 DEF Place, MoveOverwrite, End, Goto
  <2> QED
    BY <1>2, <1>3, <2>1, StageTurn
<1>7. CASE ArchiveCurrent(u) \/ Promote(u)
  <2>1. PICK stage \in {"shelved", "promoting", "swapping", "committing", "failed"} :
           pc' = [pc EXCEPT ![u] = stage]
           /\ pc[u] \in {"shelving", "shelved", "promoting", "swapping"}
    BY <1>7 DEF ArchiveCurrent, Promote, MoveOverwrite, End, Goto
  <2> QED
    BY <1>2, <1>3, <2>1, StageTurn
<1> QED
  BY <1>5, <1>6, <1>7

(* A row found at the path is the one there is. *)
LEMMA FoundTurns ==
    ASSUME Setting, NEW u \in Uploads, req[u].path \in Watched,
           LookUpPath(u), LiveAt(req[u].path) # {}
    PROVE  Turns'
<1>1. pc[u] = "received" /\ files' = files /\ versions' = versions
  BY DEF LookUpPath
<1>2. u \in Requests /\ HasPath(u) /\ InTurn(u) /\ req[u] \in Locals /\ Turns
  BY <1>1, AtWork DEF UploadStages, BeforeVersions, Setting
<1>3. PICK a \in LiveAt(req[u].path) :
         /\ req' = [req EXCEPT ![u].asset = a, ![u].hash = files[a].hash]
         /\ \E stage \in {"duplicate", "replacing"} :
               pc' = [pc EXCEPT ![u] = stage]
  BY DEF LookUpPath, End, Goto
<1>4. PICK stage \in {"duplicate", "replacing"} : pc' = [pc EXCEPT ![u] = stage]
  BY <1>3
<1>5. req \in [Requests -> Locals]
      /\ pc \in [Requests -> {"idle"} \cup Stages \cup Outcomes]
  BY DEF Setting, IInv, Types, TypeOK
<1>6. /\ pc'[u] = stage
      /\ req'[u].asset = a /\ req'[u].hash = files[a].hash
      /\ req'[u].path = req[u].path /\ req'[u].content = req[u].content
      /\ \A s \in Requests : s # u => pc'[s] = pc[s] /\ req'[s] = req[s]
  BY <1>2, <1>3, <1>4, <1>5 DEF Locals
<1>7. /\ a \in DOMAIN files /\ files[a].path = req[u].path
      /\ LiveAt(req[u].path) \subseteq {a}
  BY <1>2 DEF LiveAt, Turns, OneLiveRow, Locals
<1>8. Target(u)'
  BY <1>1, <1>6, <1>7 DEF Target, LiveAt, Live
<1>9. InTurn(u)'
  BY <1>2, <1>6, <1>8, RequestsAssumption DEF InTurn, OfNewPath, AfterVersions
<1> QED
  BY <1>1, <1>2, <1>6, <1>9, QuietTurn

(* No other path has the content, and this one has no row: no alias.       *)
LEMMA HashTurns ==
    ASSUME Setting, NEW u \in Uploads, req[u].path \in Watched, LookUpHash(u)
    PROVE  Turns' /\ Goto(u, "placing") /\ req' = req
<1>1. pc[u] = "newPath" /\ files' = files /\ versions' = versions
  BY DEF LookUpHash
<1>2. u \in Requests /\ HasPath(u) /\ InTurn(u) /\ Turns /\ TypeOK
  BY <1>1, AtWork DEF UploadStages, BeforeVersions, Setting, IInv, Types
<1>3. LiveWith(req[u].content) = {}
  <2> SUFFICES ASSUME NEW a \in LiveWith(req[u].content) PROVE FALSE
    OBVIOUS
  <2>1. /\ a \in DOMAIN files /\ Live(a) /\ files[a].hash = req[u].content
    BY DEF LiveWith
  <2>2. PICK s : s = <<req[u].path, req[u].content>> /\ s \in MayUpload
    BY <1>2 DEF InTurn
  <2>3. files[a].path = req[u].path
    <3>1. CASE files[a].path \in Watched
      <4>1. PICK t : t = <<files[a].path, files[a].hash>> /\ t \in MayUpload
        BY <1>2, <2>1, <3>1 DEF Turns, RowInTurn
      <4>2. s[1] \in Watched /\ s[2] = t[2] /\ t[1] = files[a].path
        BY <2>1, <2>2, <4>1
      <4> QED
        BY <2>2, <4>1, <4>2 DEF Setting, Apart
    <3>2. CASE files[a].path \notin Watched
      BY <2>1, <2>2, <3>2 DEF Setting, Others, Foreign
    <3> QED
      BY <3>1, <3>2
  <2>4. LiveAt(req[u].path) = {}
    BY <1>1, <1>2 DEF InTurn, OfNewPath
  <2> QED
    BY <2>1, <2>3, <2>4 DEF LiveAt
<1>4. req' = req /\ Goto(u, "placing")
  BY <1>3 DEF LookUpHash
<1> QED
  BY <1>1, <1>2, <1>4, StageTurn
  DEF Goto, OfNewPath, OfVersion, AfterVersions

(* Every row has a current version, and its number is the last one.        *)
LEMMA ReadTurns ==
    ASSUME Setting, NEW u \in Uploads, req[u].path \in Watched, ReadVersions(u)
    PROVE  Turns'
<1>1. pc[u] = "replacing" /\ pc' = [pc EXCEPT ![u] = "archiving"]
      /\ files' = files /\ versions' = versions
  BY DEF ReadVersions, Goto
<1>2. /\ u \in Requests /\ HasPath(u) /\ InTurn(u) /\ req[u] \in Locals
      /\ Turns
  BY <1>1, AtWork DEF UploadStages, BeforeVersions, Setting
<1>3. Target(u)
  BY <1>1, <1>2 DEF InTurn, OfVersion
<1>4. PICK a : a = req[u].asset
  OBVIOUS
<1>5. a \in DOMAIN files /\ \E v \in VersionsOf(a) : v.isCurrent
  BY <1>2, <1>3, <1>4 DEF Target, Turns, RowInTurn
<1>6. PICK v \in VersionsOf(a) :
         /\ v.isCurrent
         /\ req' = [req EXCEPT ![u].last = MaxNumber(a),
                               ![u].current = v.number,
                               ![u].legacy = FALSE]
  BY <1>4, <1>5 DEF ReadVersions
<1>7. v \in versions /\ v.asset = a /\ v.number \in Nat
      /\ \A w \in VersionsOf(a) : w.number <= v.number
  BY <1>6 DEF VersionsOf, Setting, IInv, Types, TypeOK, VersionRow, Chain,
              VersionChain, CurrentIsLatest
<1>8. MaxNumber(a) = v.number
  BY <1>6, <1>7, MaxIsCurrent DEF Setting, IInv, Types
<1>9. req \in [Requests -> Locals]
      /\ pc \in [Requests -> {"idle"} \cup Stages \cup Outcomes]
  BY DEF Setting, IInv, Types, TypeOK
<1>10. PICK n : n = v.number
  OBVIOUS
<1>11. req' = [req EXCEPT ![u].last = n, ![u].current = n, ![u].legacy = FALSE]
  BY <1>6, <1>8, <1>10
<1>12. /\ req'[u].last = n /\ req'[u].legacy = FALSE
       /\ req'[u].asset = req[u].asset /\ req'[u].hash = req[u].hash
       /\ req'[u].path = req[u].path /\ req'[u].content = req[u].content
       /\ \A s \in Requests : s # u => req'[s] = req[s]
  BY <1>2, <1>9, <1>11 DEF Locals
<1>13. pc'[u] = "archiving" /\ \A s \in Requests : s # u => pc'[s] = pc[s]
  BY <1>1, <1>2, <1>9
<1>14. Target(u)'
  BY <1>1, <1>3, <1>12 DEF Target, LiveAt, Live
<1>15. \A w \in VersionsOf(req[u].asset)' : w.number <= n
  BY <1>1, <1>4, <1>7, <1>10, <1>12 DEF VersionsOf
<1>16. InTurn(u)'
  BY <1>2, <1>12, <1>13, <1>14, <1>15, RequestsAssumption
  DEF InTurn, OfNewPath, VersionsOf
<1> QED
  BY <1>1, <1>2, <1>12, <1>13, <1>16, QuietTurn

LEMMA LookTurns ==
    ASSUME Setting, NEW u \in Uploads, req[u].path \in Watched,
           LookAtCanonical(u)
    PROVE  Turns'
<1>1. pc[u] = "archiving" /\ files' = files /\ versions' = versions
  BY DEF LookAtCanonical
<1>2. /\ u \in Requests /\ HasPath(u) /\ InTurn(u) /\ req[u] \in Locals
      /\ Turns /\ TypeOK
  BY <1>1, AtWork DEF UploadStages, AfterVersions, Setting, IInv, Types
<1>3. CASE req' = req /\ Goto(u, "promoting")
  BY <1>1, <1>2, <1>3, StageTurn
  DEF Goto, OfNewPath, OfVersion, AfterVersions
<1>4. CASE req' = [req EXCEPT ![u].archived = TRUE] /\ Goto(u, "shelving")
  <2>1. req \in [Requests -> Locals]
        /\ pc \in [Requests -> {"idle"} \cup Stages \cup Outcomes]
    BY <1>2 DEF TypeOK
  <2>2. /\ req'[u].last = req[u].last /\ req'[u].legacy = req[u].legacy
        /\ req'[u].asset = req[u].asset /\ req'[u].hash = req[u].hash
        /\ req'[u].path = req[u].path /\ req'[u].content = req[u].content
        /\ \A s \in Requests : s # u => req'[s] = req[s]
    BY <1>2, <1>4, <2>1 DEF Locals
  <2>3. pc'[u] = "shelving" /\ \A s \in Requests : s # u => pc'[s] = pc[s]
    BY <1>2, <1>4, <2>1 DEF Goto
  <2>4. Target(u)'
    BY <1>1, <1>2, <2>2
    DEF InTurn, OfVersion, AfterVersions, Target, LiveAt, Live
  <2>5. \A v \in VersionsOf(req[u].asset)' : v.number <= req[u].last
    BY <1>1, <1>2, <2>2 DEF InTurn, AfterVersions, VersionsOf
  <2>6. InTurn(u)'
    BY <1>1, <1>2, <2>2, <2>3, <2>4, <2>5
    DEF InTurn, OfNewPath, OfVersion, AfterVersions, VersionsOf
  <2> QED
    BY <1>1, <1>2, <2>2, <2>3, <2>6, QuietTurn
<1> QED
  BY <1>3, <1>4 DEF LookAtCanonical

(***************************************************************************)
(* The steps that write the tables.                                        *)
(***************************************************************************)

LEMMA NewRowTurns ==
    ASSUME Setting, NEW u \in Uploads, req[u].path \in Watched, CommitNew(u)
    PROVE  Turns' /\ RowsMove(u, req[u].path)
<1>1. PICK p, c : p = req[u].path /\ c = req[u].content
  OBVIOUS
<1>2. /\ pc[u] = "inserting" /\ pc' = [pc EXCEPT ![u] = "stored"]
      /\ req' = req /\ Insert(u, p, c)
  BY <1>1 DEF CommitNew, End, Goto
<1>3. /\ u \in Requests /\ HasPath(u) /\ InTurn(u) /\ req[u] \in Locals
      /\ Turns /\ pc[u] \in Stages
  BY <1>2, AtWork DEF UploadStages, BeforeVersions, Setting, Stages
<1>4. u \notin DOMAIN files /\ \A v \in versions : v.asset # u
  BY <1>3, NoRowYet DEF Setting
<1>5. /\ DOMAIN files' = DOMAIN files \cup {u}
      /\ \A a \in DOMAIN files : files'[a] = files[a]
      /\ files'[u] = [path |-> p, hash |-> c, deleted |-> FALSE]
  BY <1>2, <1>4 DEF Insert
<1>6. PICK first : /\ versions' = versions \cup {first}
                   /\ first.asset = u /\ first.isCurrent
  <2> DEFINE First == [asset |-> u, number |-> 1, hash |-> req[u].content,
                       archived |-> FALSE, isCurrent |-> TRUE]
  <2>1. versions' = versions \cup {First}
    BY DEF CommitNew
  <2>2. First.asset = u /\ First.isCurrent
    OBVIOUS
  <2> QED
    BY <2>1, <2>2
<1>7. \A a \in DOMAIN files : VersionsOf(a)' = VersionsOf(a)
  BY <1>4, <1>6 DEF VersionsOf
<1>8. LiveAt(p) = {}
  BY <1>1, <1>2, <1>3 DEF InTurn, OfNewPath
<1>9. RowsMove(u, p)
  BY <1>4, <1>5, <1>7, <1>8 DEF RowsMove
<1>10. ASSUME NEW a \in DOMAIN files', files'[a].path \in Watched
       PROVE  RowInTurn(a)'
  <2>1. CASE a \in DOMAIN files
    BY <1>3, <1>5, <1>7, <1>10, <2>1 DEF Turns, RowInTurn
  <2>2. CASE a = u
    <3>1. <<p, c>> \in MayUpload
      BY <1>1, <1>3 DEF InTurn
    <3>2. first \in VersionsOf(u)'
      BY <1>6 DEF VersionsOf
    <3> QED
      BY <1>5, <1>6, <2>2, <3>1, <3>2 DEF RowInTurn
  <2> QED
    BY <1>5, <2>1, <2>2
<1>11. /\ pc'[u] = "stored"
       /\ \A s \in Requests : s # u => pc'[s] = pc[s]
  BY <1>2, <1>3 DEF Setting, IInv, Types, TypeOK
<1>12. InTurn(u)'
  BY <1>2, <1>3, <1>11 DEF InTurn, OfNewPath, OfVersion, AfterVersions
<1> QED
  BY <1>1, <1>2, <1>3, <1>9, <1>10, <1>11, <1>12, TurnStep

LEMMA NewVersionTurns ==
    ASSUME Setting, NEW u \in Uploads, req[u].path \in Watched, CommitVersion(u)
    PROVE  Turns' /\ RowsMove(u, req[u].path)
<1>1. PICK p, c, a : p = req[u].path /\ c = req[u].content /\ a = req[u].asset
  OBVIOUS
<1>2. /\ pc[u] = "committing" /\ pc' = [pc EXCEPT ![u] = "versioned"]
      /\ req' = req /\ files' = [files EXCEPT ![a].hash = c]
      /\ versions' = Retired(u) \cup InsertedRows(u)
  BY <1>1 DEF CommitVersion, End, Goto
<1>3. /\ u \in Requests /\ HasPath(u) /\ InTurn(u) /\ req[u] \in Locals
      /\ Turns
  BY <1>2, AtWork DEF UploadStages, AfterVersions, Setting
<1>4. /\ a \in DOMAIN files /\ files[a].path = p /\ <<p, c>> \in MayUpload
  BY <1>1, <1>2, <1>3 DEF InTurn, OfVersion, AfterVersions, Target
<1>5. files[a] \in FileRow
  BY <1>4 DEF Setting, IInv, Types, TypeOK
<1>6. /\ DOMAIN files' = DOMAIN files
      /\ files'[a].path = p /\ files'[a].hash = c
      /\ files'[a].deleted = files[a].deleted
      /\ \A b \in DOMAIN files : b # a => files'[b] = files[b]
  BY <1>2, <1>4, <1>5 DEF FileRow
<1>7. \A b : b # a => VersionsOf(b)' = VersionsOf(b)
  BY <1>1, OtherAssetsUntouched DEF VersionsOf, Setting
<1>8. RowsMove(u, p)
  BY <1>4, <1>6, <1>7 DEF RowsMove
<1>9. ASSUME NEW b \in DOMAIN files', files'[b].path \in Watched
      PROVE  RowInTurn(b)'
  <2>1. CASE b # a
    BY <1>3, <1>6, <1>7, <1>9, <2>1 DEF Turns, RowInTurn
  <2>2. CASE b = a
    <3>1. PICK new \in InsertedRows(u) : new.asset = a /\ new.isCurrent
      <4> DEFINE New == [asset |-> req[u].asset, number |-> req[u].last + 1,
                         hash |-> req[u].content, archived |-> FALSE,
                         isCurrent |-> TRUE]
      <4>1. New \in InsertedRows(u)
        BY DEF InsertedRows
      <4>2. New.asset = a /\ New.isCurrent
        BY <1>1
      <4> QED
        BY <4>1, <4>2
    <3>2. new \in VersionsOf(a)'
      BY <1>2, <3>1 DEF VersionsOf
    <3> QED
      BY <1>4, <1>6, <2>2, <3>1, <3>2 DEF RowInTurn
  <2> QED
    BY <2>1, <2>2
<1>10. /\ pc'[u] = "versioned"
       /\ \A s \in Requests : s # u => pc'[s] = pc[s]
  BY <1>2, <1>3 DEF Setting, IInv, Types, TypeOK
<1>11. InTurn(u)'
  BY <1>2, <1>3, <1>10 DEF InTurn, OfNewPath, OfVersion, AfterVersions
<1> QED
  BY <1>1, <1>2, <1>3, <1>8, <1>9, <1>10, <1>11, TurnStep

(* The index never refuses: no other request added a version. *)
LEMMA NoConflict ==
    ASSUME Setting, NEW u \in Uploads, req[u].path \in Watched,
           pc[u] = "committing"
    PROVE  UniqueIndexAllows(InsertedRows(u))
<1>1. InTurn(u) /\ req[u] \in Locals
  BY AtWork DEF UploadStages, AfterVersions
<1>2. ~req[u].legacy /\ \A v \in VersionsOf(req[u].asset) : v.number <= req[u].last
  BY <1>1 DEF InTurn, AfterVersions
<1>3. \A new \in InsertedRows(u) :
         new.number = req[u].last + 1 /\ new.asset = req[u].asset
  BY <1>2 DEF InsertedRows
<1>4. req[u].last \in Nat /\ \A v \in versions : v.number \in Nat
  BY <1>1 DEF Locals, Setting, IInv, Types, TypeOK, VersionRow
<1>5. req[u].last + 1 \notin NumbersOf(req[u].asset)
  BY <1>2, <1>4 DEF NumbersOf, VersionsOf
<1> QED
  BY <1>3, <1>5 DEF UniqueIndexAllows

LEMMA SoftDeleteTurns ==
    ASSUME Setting, NEW a \in DOMAIN files, SoftDelete(a)
    PROVE  /\ Turns'
           /\ DOMAIN files' = DOMAIN files
           /\ \A b \in DOMAIN files : /\ files'[b].path = files[b].path
                                      /\ files'[b].hash = files[b].hash
                                      /\ Live(b)' => Live(b)
<1>1. /\ files' = [files EXCEPT ![a].deleted = TRUE]
      /\ versions' = versions /\ pc' = pc /\ req' = req
  BY DEF SoftDelete
<1>2. /\ DOMAIN files' = DOMAIN files
      /\ \A b \in DOMAIN files : /\ files'[b].path = files[b].path
                                 /\ files'[b].hash = files[b].hash
                                 /\ Live(b)' => Live(b)
  <2>1. files[a] \in FileRow
    BY DEF Setting, IInv, Types, TypeOK
  <2>2. /\ files'[a].path = files[a].path /\ files'[a].hash = files[a].hash
        /\ files'[a].deleted
    BY <1>1, <2>1 DEF FileRow
  <2> QED
    BY <1>1, <2>2 DEF Live
<1>3. \A p : LiveAt(p)' \subseteq LiveAt(p)
  BY <1>2 DEF LiveAt, Live
<1>4. \A b : VersionsOf(b)' = VersionsOf(b)
  BY <1>1 DEF VersionsOf
<1>5. ASSUME NEW r \in Requests, req'[r].path \in Watched PROVE InTurn(r)'
  <2>1. InTurn(r)
    BY <1>1, <1>5 DEF Setting, Turns
  <2>2. Target(r) => Target(r)'
    <3>1. LiveAt(req[r].path)' \subseteq LiveAt(req[r].path)
      BY <1>1, <1>3 DEF LiveAt, Live
    <3> QED
      BY <1>1, <1>2, <3>1 DEF Target
  <2>3. LiveAt(req[r].path) = {} => LiveAt(req[r].path)' = {}
    BY <1>1, <1>3 DEF LiveAt, Live
  <2>4. VersionsOf(req[r].asset)' = VersionsOf(req[r].asset)
    BY <1>1 DEF VersionsOf
  <2> QED
    BY <1>1, <2>1, <2>2, <2>3, <2>4 DEF InTurn
<1>6. \A b \in DOMAIN files' : files'[b].path \in Watched => RowInTurn(b)'
  BY <1>2, <1>4 DEF Setting, Turns, RowInTurn
<1>7. OneAtATime' /\ OneLiveRow'
  BY <1>1, <1>3 DEF Setting, Turns, OneAtATime, OneLiveRow, Active
<1> QED
  BY <1>2, <1>5, <1>6, <1>7 DEF Turns

LEMMA NothingTurns ==
    ASSUME Turns, UNCHANGED <<files, versions, pc, req>>
    PROVE  Turns'
<1>1. \A p : LiveAt(p)' = LiveAt(p)
  BY DEF LiveAt, Live
<1>2. \A b : VersionsOf(b)' = VersionsOf(b)
  BY DEF VersionsOf
<1>3. ASSUME NEW r \in Requests, req'[r].path \in Watched PROVE InTurn(r)'
  <2>1. InTurn(r)
    BY <1>3 DEF Turns
  <2>2. LiveAt(req[r].path)' = LiveAt(req[r].path)
        /\ VersionsOf(req[r].asset)' = VersionsOf(req[r].asset)
    BY DEF LiveAt, Live, VersionsOf
  <2>3. Target(r) => Target(r)'
    BY <2>2 DEF Target
  <2> QED
    BY <2>1, <2>2, <2>3 DEF InTurn
<1>4. \A b \in DOMAIN files' : files'[b].path \in Watched => RowInTurn(b)'
  BY <1>2 DEF Turns, RowInTurn
<1>5. OneAtATime' /\ OneLiveRow'
  BY <1>1 DEF Turns, OneAtATime, OneLiveRow, Active
<1> QED
  BY <1>3, <1>4, <1>5 DEF Turns

LEMMA UploadsTurn ==
    ASSUME Setting, NEW u \in Uploads, req[u].path \in Watched, UploadStep(u)
    PROVE  Turns'
<1>1. ~CommitAlias(u)
  <2>1. InTurn(u)
    BY DEF Setting, Turns, Requests
  <2> QED
    BY <2>1 DEF InTurn, CommitAlias
<1>2. ~ConflictingVersion(u)
  BY NoConflict DEF ConflictingVersion
<1> QED
  BY <1>1, <1>2, StagesTurn, FoundTurns, HashTurns, ReadTurns, LookTurns,
     NewRowTurns, NewVersionTurns
  DEF UploadStep

LEMMA InitTurns == ASSUME Init PROVE Turns
<1>1. PICK sent \in [Requests -> MayUpload] :
        req = [r \in Requests |->
                   [path |-> sent[r][1], content |-> sent[r][2],
                    asset |-> r, hash |-> sent[r][2],
                    last |-> 0, current |-> 0,
                    legacy |-> FALSE, archived |-> FALSE]]
  BY DEF Init
<1>2. \A r \in Requests : pc[r] = "idle"
  BY DEF Init
<1>3. DOMAIN files = {}
  BY DEF Init
<1>4. ASSUME NEW r \in Requests PROVE InTurn(r)
  <2>1. sent[r] \in MayUpload /\ sent[r] \in Paths \X Contents
    BY InputsAssumption
  <2>2. req[r].path = sent[r][1] /\ req[r].content = sent[r][2]
    BY <1>1
  <2>3. <<req[r].path, req[r].content>> \in MayUpload
    BY <2>1, <2>2
  <2> QED
    BY <1>2, <2>3 DEF InTurn, OfNewPath, OfVersion, AfterVersions
<1>5. OneAtATime
  BY <1>2 DEF OneAtATime, Active, Stages, UploadStages, BeforeVersions,
              AfterVersions, RegisterStages
<1> QED
  BY <1>3, <1>4, <1>5 DEF Turns, OneLiveRow, LiveAt

(***************************************************************************)
(* A request leaves the others and their places alone, whatever it does.   *)
(***************************************************************************)

Commits(r) ==
    \/ r \in Uploads /\ (CommitAlias(r) \/ CommitNew(r) \/ CommitVersion(r))
    \/ r \in Registrations /\ (CommitEnrolment(r) \/ CommitUpdate(r))

LEMMA ActsLocally ==
    ASSUME IInv, NEW r \in Requests, Acts(r), ~Commits(r)
    PROVE  Local(r)
  BY UploadLocal, RegisterLocal, FaultLocal DEF Acts, Commits

(* It writes its own variables, and neither its path nor its content. *)
LEMMA ActsAlone ==
    ASSUME IInv, NEW r \in Requests, Acts(r)
    PROVE  /\ \A s \in Requests : s # r => pc'[s] = pc[s] /\ req'[s] = req[s]
           /\ req'[r].path = req[r].path /\ req'[r].content = req[r].content
<1>1. pc \in [Requests -> {"idle"} \cup Stages \cup Outcomes]
  BY DEF IInv, Types, TypeOK
<1>2. CASE Commits(r)
  <2>1. req' = req /\ \E stage : pc' = [pc EXCEPT ![r] = stage]
    BY <1>2 DEF Commits, CommitAlias, CommitNew, CommitVersion,
       CommitEnrolment, CommitUpdate, End, Goto
  <2> QED
    BY <1>1, <2>1
<1>3. CASE ~Commits(r)
  BY <1>1, <1>3, ActsLocally DEF Local
<1> QED
  BY <1>2, <1>3

(***************************************************************************)
(* A step leaves the paths in order at which nothing happens.              *)
(***************************************************************************)

(* The stages at which a request and its path depend on each other. *)
Marked == {"moving", "inserting"} \cup (AfterVersions \ {"archiving"})

LEMMA StagesOfOrder ==
    /\ Gap \subseteq Moves /\ Swap \subseteq Moves /\ Placed \subseteq Moves
    /\ Moves \subseteq Marked
    /\ "shelved" \in Marked /\ Marked \subseteq UploadStages
    /\ Swap \subseteq AfterVersions /\ UploadStages \subseteq Stages
    /\ HoldsTemp \subseteq Stages
  BY DEF Gap, Swap, Placed, Moves, Marked, HoldsTemp, Stages, UploadStages,
         BeforeVersions, AfterVersions

(* What RowIsServed says of a row at a path, before and after a step. *)
LEMMA Served ==
    ASSUME NEW a, NEW p, files[a].path = p, RowIsServed(a)
    PROVE  /\ Exists(Canonical(p)) \/ At(p, Gap)
           /\ Live(a) /\ ~At(p, Swap)
                 => Exists(Canonical(p)) /\ disk[Canonical(p)] = files[a].hash
           /\ \A v \in VersionsOf(a) :
                 /\ v.archived <=> ~v.isCurrent
                 /\ Live(a) /\ v.archived =>
                       Exists(Archive(p, v.number))
                          /\ disk[Archive(p, v.number)] = v.hash
  BY DEF RowIsServed, Holds

LEMMA ServedNext ==
    ASSUME NEW a, NEW p, files'[a].path = p,
           Exists(Canonical(p))' \/ At(p, Gap)',
           Live(a)' /\ ~At(p, Swap)'
              => Exists(Canonical(p))' /\ disk'[Canonical(p)] = files'[a].hash,
           \A v \in VersionsOf(a)' :
              /\ v.archived <=> ~v.isCurrent
              /\ Live(a)' /\ v.archived =>
                    Exists(Archive(p, v.number))'
                       /\ disk'[Archive(p, v.number)] = v.hash
    PROVE  RowIsServed(a)'
<1>1. Canonical(files[a].path)' = Canonical(p)
  BY DEF Canonical
<1>2. \A n : Archive(files[a].path, n)' = Archive(p, n)
  BY DEF Archive
<1>3. At(files[a].path, Gap)' <=> At(p, Gap)'
  BY DEF At
<1>4. At(files[a].path, Swap)' <=> At(p, Swap)'
  BY DEF At
<1> QED
  BY <1>1, <1>2, <1>3, <1>4
  DEF RowIsServed, Holds, Exists, Canonical, Archive

(* Likewise of a request. *)
LEMMA OnCourse ==
    ASSUME NEW r, NEW p, req[r].path = p, RequestIsOnCourse(r)
    PROVE  LET shelf == Archive(p, req[r].current)
           IN /\ pc[r] \in {"moving", "swapping"} => ~Exists(Canonical(p))
              /\ pc[r] \in Placed => /\ Exists(Canonical(p))
                                     /\ disk[Canonical(p)] = req[r].content
              /\ pc[r] = "shelved" => ~Exists(shelf)
              /\ pc[r] \in AfterVersions \ {"archiving"} => req[r].archived
              /\ pc[r] \in Swap /\ Live(req[r].asset) =>
                    Exists(shelf) /\ disk[shelf] = req[r].hash
  BY DEF RequestIsOnCourse, Holds, Shelf

LEMMA OnCourseNext ==
    ASSUME NEW r, NEW p, NEW n, NEW a, NEW c, NEW h,
           req'[r].path = p, req'[r].current = n, req'[r].asset = a,
           req'[r].content = c, req'[r].hash = h,
           pc'[r] \in {"moving", "swapping"} => ~Exists(Canonical(p))',
           pc'[r] \in Placed => /\ Exists(Canonical(p))'
                                /\ disk'[Canonical(p)] = c,
           pc'[r] = "shelved" => ~Exists(Archive(p, n))',
           pc'[r] \in AfterVersions \ {"archiving"} => req'[r].archived,
           pc'[r] \in Swap /\ Live(a)' =>
              Exists(Archive(p, n))' /\ disk'[Archive(p, n)] = h
    PROVE  RequestIsOnCourse(r)'
<1>1. Canonical(req[r].path)' = Canonical(p)
  BY DEF Canonical
<1>2. Shelf(r)' = Archive(p, n)
  BY DEF Archive, Shelf
<1>3. Live(req[r].asset)' <=> Live(a)'
  BY DEF Live
<1> QED
  BY <1>1, <1>2, <1>3
  DEF RequestIsOnCourse, Holds, Exists, Canonical, Archive, Shelf

(* A request that is at no marked stage is on course. *)
LEMMA Unmarked ==
    ASSUME NEW r, pc'[r] \notin Marked
    PROVE  RequestIsOnCourse(r)'
  BY StagesOfOrder
  DEF RequestIsOnCourse, Marked, Placed, Swap, AfterVersions

(* Whatever happens elsewhere: rows, bytes and requests of a path stay.    *)
LEMMA PathStays ==
    ASSUME NEW p, PathInOrder(p),
           SameAt(Canonical(p)), \A n : SameAt(Archive(p, n)),
           DOMAIN files \subseteq DOMAIN files',
           \A a \in DOMAIN files : /\ files'[a].path = files[a].path
                                   /\ files[a].deleted => files'[a].deleted,
           \A a \in DOMAIN files' :
              files'[a].path = p => /\ a \in DOMAIN files
                                    /\ files'[a].hash = files[a].hash
                                    /\ VersionsOf(a)' = VersionsOf(a),
           \A s \in Requests : req'[s].path = req[s].path,
           \A s \in Requests :
              \/ req[s].path # p
              \/ pc'[s] = pc[s] /\ req'[s] = req[s]
              \/ pc'[s] \notin Marked /\ pc[s] \notin Moves,
           \A s \in Requests :
              pc[s] \in Swap => req[s].asset \in DOMAIN files
    PROVE  PathInOrder(p)'
<1>1. At(p, Gap)' <=> At(p, Gap)
  BY StagesOfOrder DEF At
<1>2. At(p, Swap)' <=> At(p, Swap)
  BY StagesOfOrder DEF At
<1>3. ASSUME NEW a \in DOMAIN files', files'[a].path = p
      PROVE  RowIsServed(a)'
  <2>1. /\ a \in DOMAIN files /\ files[a].path = p
        /\ files'[a].hash = files[a].hash /\ VersionsOf(a)' = VersionsOf(a)
        /\ Live(a)' => Live(a)
    BY <1>3 DEF Live
  <2>2. RowIsServed(a)
    BY <2>1 DEF PathInOrder
  <2> QED
    BY <1>1, <1>2, <1>3, <2>1, <2>2, Served, ServedNext DEF SameAt
<1>4. CanonicalIsKnown(p)'
  <2> SUFFICES ASSUME Exists(Canonical(p))' PROVE CanonicalIsKnown(p)'
    BY DEF CanonicalIsKnown
  <2>1. Exists(Canonical(p)) /\ disk'[Canonical(p)] = disk[Canonical(p)]
    BY DEF SameAt
  <2>2. CASE \E a \in DOMAIN files :
                files[a].path = p /\ files[a].hash = disk[Canonical(p)]
    <3>1. PICK a \in DOMAIN files :
             files[a].path = p /\ files[a].hash = disk[Canonical(p)]
      BY <2>2
    <3>2. /\ a \in DOMAIN files' /\ files'[a].path = p
          /\ files'[a].hash = disk'[Canonical(p)]
      BY <2>1, <3>1
    <3> QED
      BY <3>2 DEF CanonicalIsKnown, Canonical
  <2>3. CASE \E r \in Requests : /\ pc[r] \in Placed /\ req[r].path = p
                                 /\ req[r].content = disk[Canonical(p)]
    <3>1. PICK r \in Requests : /\ pc[r] \in Placed /\ req[r].path = p
                                /\ req[r].content = disk[Canonical(p)]
      BY <2>3
    <3>2. pc'[r] = pc[r] /\ req'[r] = req[r]
      BY <3>1, StagesOfOrder
    <3> QED
      BY <2>1, <3>1, <3>2 DEF CanonicalIsKnown, Canonical
  <2> QED
    BY <2>1, <2>2, <2>3 DEF PathInOrder, CanonicalIsKnown
<1>5. ASSUME NEW r \in Requests, req'[r].path = p
      PROVE  RequestIsOnCourse(r)'
  <2>1. CASE pc'[r] = pc[r] /\ req'[r] = req[r]
    <3>1. RequestIsOnCourse(r) /\ req[r].path = p
      BY <1>5 DEF PathInOrder
    <3>2. PICK n, a, c, h : /\ n = req[r].current /\ a = req[r].asset
                            /\ c = req[r].content /\ h = req[r].hash
      OBVIOUS
    <3>3. pc[r] \in Swap /\ Live(a)' => Live(a)
      BY <3>2 DEF Live
    <3>4. /\ SameAt(Archive(p, n)) /\ SameAt(Canonical(p))
      OBVIOUS
    <3>5. /\ pc[r] \in {"moving", "swapping"} => ~Exists(Canonical(p))
          /\ pc[r] \in Placed => /\ Exists(Canonical(p))
                                 /\ disk[Canonical(p)] = c
          /\ pc[r] = "shelved" => ~Exists(Archive(p, n))
          /\ pc[r] \in AfterVersions \ {"archiving"} => req[r].archived
          /\ pc[r] \in Swap /\ Live(a) =>
                Exists(Archive(p, n)) /\ disk[Archive(p, n)] = h
      BY <3>1, <3>2, OnCourse
    <3> QED
      BY <1>5, <2>1, <3>2, <3>3, <3>4, <3>5, OnCourseNext DEF SameAt
  <2>2. CASE pc'[r] \notin Marked
    BY <2>2, Unmarked
  <2> QED
    BY <1>5, <2>1, <2>2
<1> QED
  BY <1>3, <1>4, <1>5 DEF PathInOrder

LEMMA AfterEnd ==
    ASSUME NEW u, NEW outcome, End(u, outcome)
    PROVE  /\ pc' = [pc EXCEPT ![u] = outcome]
           /\ disk' = disk \/ disk' = Without(Temp(u))
           /\ \A l : SameAt(l) \/ l = Temp(u)
  BY SameDisk, AfterWithout DEF End, Goto, SafeDelete

(* The places that a request may touch. *)
Touches(u, p) ==
    \A l : \/ SameAt(l)
           \/ l = Temp(u)
           \/ l = Canonical(p)
           \/ \E n : l = Archive(p, n)

(* An upload touches the disk at its own places only. *)
LEMMA UploadTouches ==
    ASSUME NEW u \in Uploads, StartUpload(u) \/ UploadStep(u)
    PROVE  Touches(u, req[u].path)
<1>1. CASE StartUpload(u)
  BY <1>1, AfterWith DEF StartUpload, Touches
<1>2. CASE Receive(u) \/ LookUpHash(u) \/ ReadVersions(u) \/ LookAtCanonical(u)
  BY <1>2, SameDisk
  DEF Receive, LookUpHash, ReadVersions, LookAtCanonical, Touches
<1>3. CASE Reject(u) \/ LookUpPath(u) \/ CommitAlias(u) \/ CommitNew(u)
           \/ CommitVersion(u) \/ ConflictingVersion(u)
  <2>1. disk' = disk \/ disk' = Without(Temp(u))
    BY <1>3 DEF Reject, LookUpPath, CommitAlias, CommitNew, CommitVersion,
       ConflictingVersion, End, SafeDelete
  <2> QED
    BY <2>1, SameDisk, AfterWithout DEF Touches
<1>4. CASE Place(u) \/ ArchiveCurrent(u) \/ Promote(u)
  <2>1. PICK from, to :
           /\ from = Temp(u) \/ from = Canonical(req[u].path)
           /\ to = Canonical(req[u].path) \/ to = Shelf(u)
           /\ from # to
           /\ disk' \in {disk, Without(Temp(u)), Without(to), Moved(from, to)}
    BY <1>4, Places
    DEF Place, ArchiveCurrent, Promote, MoveOverwrite, End, SafeDelete, Shelf
  <2>2. \A l : SameAt(l) \/ l = Temp(u) \/ l = from \/ l = to
    BY <2>1, SameDisk, AfterWithout, AfterMoved
  <2> QED
    BY <2>1, <2>2 DEF Touches, Shelf
<1> QED
  BY <1>1, <1>2, <1>3, <1>4 DEF UploadStep

LEMMA ActTouches ==
    ASSUME NEW r \in Requests, Acts(r)
    PROVE  Touches(r, req[r].path)
<1>1. CASE r \in Registrations /\ ConnectorWrites(r)
  BY <1>1, AfterWith DEF ConnectorWrites, Touches
<1>2. CASE r \in Registrations /\ RegisterStep(r)
  BY <1>2, SameDisk DEF RegisterStep, HashFile, LookUpRow, CommitEnrolment,
     CommitUpdate, Touches
<1>3. CASE Throw(r) \/ Crash(r)
  <2>1. disk' = disk \/ disk' = Without(Temp(r))
    BY <1>3 DEF Throw, Crash
  <2> QED
    BY <2>1, SameDisk, AfterWithout DEF Touches
<1> QED
  BY <1>1, <1>2, <1>3, UploadTouches DEF Acts

(* The temporary file is there as long as the disk has it. *)
LEMMA TempStays ==
    ASSUME NEW u \in Requests, TempIsThere(u), SameAt(Temp(u)),
           req'[u].content = req[u].content,
           pc'[u] \in HoldsTemp => pc[u] \in HoldsTemp
    PROVE  TempIsThere(u)'
  BY DEF TempIsThere, Holds, SameAt, Exists, Temp

(* Its temporary file is there until it is moved or the request ends.      *)
LEMMA ActKeepsTemp ==
    ASSUME IInv, NEW r \in Requests, TempIsThere(r), Acts(r)
    PROVE  TempIsThere(r)'
<1> USE DEF HoldsTemp, Placed, UploadStages, BeforeVersions, AfterVersions
<1>1. pc \in [Requests -> {"idle"} \cup Stages \cup Outcomes]
  BY DEF IInv, Types, TypeOK
<1>2. req'[r].content = req[r].content
  BY ActsAlone
<1>3. ASSUME NEW stage, pc' = [pc EXCEPT ![r] = stage], stage \notin HoldsTemp
      PROVE  TempIsThere(r)'
  BY <1>1, <1>3 DEF TempIsThere
<1>4. ASSUME NEW stage, pc' = [pc EXCEPT ![r] = stage], pc[r] \in HoldsTemp,
             SameAt(Temp(r))
      PROVE  TempIsThere(r)'
  BY <1>2, <1>4, TempStays
<1>5. CASE r \in Uploads /\ StartUpload(r)
  <2>1. PICK c : c = req[r].content
    OBVIOUS
  <2>2. disk' = With(Temp(r), c)
    BY <1>5, <2>1 DEF StartUpload
  <2>3. Exists(Temp(r))' /\ disk'[Temp(r)] = c
    BY <2>2, AfterWith DEF Exists, Temp
  <2> QED
    BY <1>2, <2>1, <2>3 DEF TempIsThere, Holds, Exists, Temp
<1>6. CASE r \in Uploads /\ UploadStep(r)
  <2>1. CASE Receive(r) \/ LookUpHash(r) \/ ReadVersions(r) \/ LookAtCanonical(r)
    <3>1. disk' = disk /\ pc[r] \in HoldsTemp
      BY <2>1 DEF Receive, LookUpHash, ReadVersions, LookAtCanonical
    <3>2. \E stage : pc' = [pc EXCEPT ![r] = stage]
      BY <2>1 DEF Receive, LookUpHash, ReadVersions, LookAtCanonical, Goto
    <3> QED
      BY <1>4, <3>1, <3>2, SameDisk
  <2>2. CASE LookUpPath(r)
    <3>1. pc[r] \in HoldsTemp
          /\ \/ disk' = disk /\ \E stage : pc' = [pc EXCEPT ![r] = stage]
             \/ pc' = [pc EXCEPT ![r] = "duplicate"]
      BY <2>2 DEF LookUpPath, End, Goto
    <3> QED
      BY <1>3, <1>4, <3>1, SameDisk
  <2>3. CASE Reject(r) \/ CommitAlias(r) \/ CommitNew(r) \/ CommitVersion(r)
             \/ ConflictingVersion(r)
    <3>1. \E stage \in {"rejected", "aliased", "stored", "versioned", "failed"} :
             pc' = [pc EXCEPT ![r] = stage]
      BY <2>3 DEF Reject, CommitAlias, CommitNew, CommitVersion,
         ConflictingVersion, End, Goto
    <3> QED
      BY <1>3, <3>1
  <2>4. CASE Place(r) \/ Promote(r)
    <3>1. \/ \E stage \in {"inserting", "committing", "failed"} :
                pc' = [pc EXCEPT ![r] = stage]
          \/ /\ pc[r] \in HoldsTemp
             /\ disk' = Without(Canonical(req[r].path))
             /\ \E stage : pc' = [pc EXCEPT ![r] = stage]
      BY <2>4 DEF Place, Promote, MoveOverwrite, End, Goto
    <3>2. disk' = Without(Canonical(req[r].path)) => SameAt(Temp(r))
      BY AfterWithout, Places
    <3> QED
      BY <1>3, <1>4, <3>1, <3>2
  <2>5. CASE ArchiveCurrent(r)
    <3>1. \/ pc' = [pc EXCEPT ![r] = "failed"]
          \/ /\ pc[r] \in HoldsTemp
             /\ \/ disk' = Without(Shelf(r))
                \/ disk' = Moved(Canonical(req[r].path), Shelf(r))
             /\ \E stage : pc' = [pc EXCEPT ![r] = stage]
      BY <2>5 DEF ArchiveCurrent, MoveOverwrite, End, Goto
    <3>2. /\ disk' = Without(Shelf(r)) => SameAt(Temp(r))
          /\ disk' = Moved(Canonical(req[r].path), Shelf(r)) => SameAt(Temp(r))
      BY AfterWithout, AfterMoved, Places DEF Shelf
    <3> QED
      BY <1>3, <1>4, <3>1, <3>2
  <2> QED
    BY <1>6, <2>1, <2>2, <2>3, <2>4, <2>5 DEF UploadStep
<1>7. CASE r \in Registrations /\ (ConnectorWrites(r) \/ RegisterStep(r))
  <2>1. \E stage \in RegisterStages \cup Outcomes :
           pc' = [pc EXCEPT ![r] = stage]
    BY <1>7 DEF ConnectorWrites, RegisterStep, HashFile, LookUpRow,
       CommitEnrolment, CommitUpdate, Goto, RegisterStages, Outcomes
  <2> QED
    BY <1>3, <2>1 DEF RegisterStages, Outcomes
<1>8. CASE Throw(r) \/ Crash(r)
  <2>1. \E stage \in {"failed", "crashed"} : pc' = [pc EXCEPT ![r] = stage]
    BY <1>8 DEF Throw, Crash, Goto
  <2> QED
    BY <1>3, <2>1
<1> QED
  BY <1>5, <1>6, <1>7, <1>8 DEF Acts

(***************************************************************************)
(* The temporary files.                                                    *)
(***************************************************************************)

LEMMA OthersTemps ==
    ASSUME NEW r \in Requests, Acts(r), NEW s \in Requests, s # r
    PROVE  SameAt(Temp(s))
  BY ActTouches, Places DEF Touches

LEMMA ActKeepsBodies ==
    ASSUME IInv, Bodies, NEW r \in Requests, Acts(r)
    PROVE  Bodies'
<1>1. ASSUME NEW s \in Requests, s # r PROVE TempIsThere(s)'
  <2>1. /\ TempIsThere(s) /\ SameAt(Temp(s))
        /\ pc'[s] = pc[s] /\ req'[s] = req[s]
    BY <1>1, OthersTemps, ActsAlone DEF Bodies
  <2> QED
    BY <2>1, TempStays
<1>2. TempIsThere(r)'
  BY ActKeepsTemp DEF Bodies
<1> QED
  BY <1>1, <1>2 DEF Bodies

(* The cleanup takes no bytes of a request at work. *)
LEMMA CleanupKeepsBodies ==
    ASSUME Bodies, CleanupTemp
    PROVE  Bodies'
<1>1. PICK l \in DOMAIN disk :
         /\ ~Fresh(l) /\ disk' = Without(l)
         /\ UNCHANGED <<files, versions, pc, req, faults>>
  BY DEF CleanupTemp
<1> SUFFICES ASSUME NEW r \in Requests, pc[r] \in HoldsTemp
             PROVE  TempIsThere(r)'
  BY <1>1 DEF Bodies, TempIsThere
<1>2. l # Temp(r)
  BY <1>1, StagesOfOrder DEF Fresh, Active
<1> QED
  BY <1>1, <1>2, AfterWithout, TempStays DEF Bodies

LEMMA SoftDeleteKeepsBodies ==
    ASSUME Bodies, NEW a \in DOMAIN files, SoftDelete(a)
    PROVE  Bodies'
  BY DEF SoftDelete, Bodies, TempIsThere, Holds, Exists

(* An act that leaves a temporary file behind counts a fault.              *)
LEMMA EndIsCounted ==
    ASSUME IInv, NEW u \in Uploads, NEW outcome, End(u, outcome)
    PROVE  faults' = faults + 1 \/ (faults' = faults /\ ~Exists(Temp(u))')
  BY AfterWithout DEF End, SafeDelete

LEMMA ActIsCounted ==
    ASSUME IInv, NEW r \in Requests, Acts(r)
    PROVE  \/ faults' = faults + 1
           \/ /\ faults' = faults
              /\ r \in Uploads => Active(r)' \/ ~Exists(Temp(r))'
<1>1. pc \in [Requests -> {"idle"} \cup Stages \cup Outcomes]
  BY DEF IInv, Types, TypeOK
<1>2. ASSUME NEW stage \in Stages, Goto(r, stage) PROVE Active(r)'
  BY <1>1, <1>2 DEF Goto, Active
<1>3. CASE r \in Uploads /\ (StartUpload(r) \/ UploadStep(r))
  <2> USE DEF Stages, UploadStages, BeforeVersions, AfterVersions
  <2>1. CASE StartUpload(r) \/ Receive(r) \/ LookUpHash(r) \/ ReadVersions(r)
             \/ LookAtCanonical(r)
    BY <1>2, <2>1 DEF StartUpload, Receive, LookUpHash, ReadVersions,
       LookAtCanonical
  <2>2. CASE Reject(r) \/ CommitAlias(r) \/ CommitNew(r)
             \/ CommitVersion(r) \/ ConflictingVersion(r)
    BY <1>3, <2>2, EndIsCounted DEF Reject, CommitAlias, CommitNew,
       CommitVersion, ConflictingVersion
  <2>3. CASE LookUpPath(r)
    BY <1>2, <1>3, <2>3, EndIsCounted DEF LookUpPath
  <2>4. CASE Place(r) \/ ArchiveCurrent(r) \/ Promote(r)
    BY <1>2, <1>3, <2>4, EndIsCounted
    DEF Place, ArchiveCurrent, Promote, MoveOverwrite
  <2> QED
    BY <1>3, <2>1, <2>2, <2>3, <2>4 DEF UploadStep
<1>4. CASE r \in Registrations /\ (ConnectorWrites(r) \/ RegisterStep(r))
  BY <1>4, RequestsAssumption DEF ConnectorWrites, RegisterStep, HashFile,
     LookUpRow, CommitEnrolment, CommitUpdate
<1>5. CASE Throw(r) \/ Crash(r)
  BY <1>5 DEF Throw, Crash
<1> QED
  BY <1>3, <1>4, <1>5 DEF Acts

OrphansAreCounted == IsFiniteSet(Orphans) /\ Cardinality(Orphans) <= faults

LEMMA FewerOrphans ==
    ASSUME OrphansAreCounted, Orphans' \subseteq Orphans, faults' = faults,
           faults \in Nat
    PROVE  OrphansAreCounted'
<1>1. /\ IsFiniteSet(Orphans') /\ Cardinality(Orphans') <= Cardinality(Orphans)
      /\ Cardinality(Orphans) \in Nat /\ Cardinality(Orphans') \in Nat
  BY FS_Subset, FS_CardinalityType DEF OrphansAreCounted
<1> QED
  BY <1>1 DEF OrphansAreCounted

LEMMA OneMoreOrphan ==
    ASSUME OrphansAreCounted, NEW r, Orphans' \subseteq Orphans \cup {r},
           faults' = faults + 1, faults \in Nat
    PROVE  OrphansAreCounted'
<1> DEFINE S == Orphans \cup {r}
<1>0. IsFiniteSet(Orphans) /\ Cardinality(Orphans) \in Nat
  BY FS_CardinalityType DEF OrphansAreCounted
<1>1. IsFiniteSet(S) /\ Cardinality(S) <= Cardinality(Orphans) + 1
  BY <1>0, FS_AddElement
<1>2. /\ IsFiniteSet(Orphans') /\ Cardinality(Orphans') <= Cardinality(S)
      /\ Cardinality(Orphans') \in Nat /\ Cardinality(S) \in Nat
  BY <1>1, FS_Subset, FS_CardinalityType
<1> HIDE DEF S
<1> QED
  BY <1>0, <1>1, <1>2 DEF OrphansAreCounted

LEMMA NextKeepsTemps ==
    ASSUME IInv, Bodies, OrphansAreCounted, [Next]_vars
    PROVE  Bodies' /\ OrphansAreCounted'
<1>1. faults \in Nat /\ Uploads \subseteq Requests
  BY DEF IInv, Types, TypeOK, Requests
<1>2. ASSUME NEW r \in Requests, Acts(r) PROVE Bodies' /\ OrphansAreCounted'
  <2>1. ASSUME NEW s \in Orphans', s # r PROVE s \in Orphans
    <3>1. s \in Uploads /\ s \in Requests /\ Exists(Temp(s))' /\ ~Active(s)'
      BY <1>1, <2>1 DEF Orphans
    <3>2. SameAt(Temp(s)) /\ pc'[s] = pc[s]
      BY <1>2, <2>1, <3>1, OthersTemps, ActsAlone
    <3> QED
      BY <3>1, <3>2 DEF Orphans, SameAt, Exists, Temp, Active
  <2>2. CASE faults' = faults + 1
    BY <1>1, <1>2, <2>1, <2>2, ActKeepsBodies, OneMoreOrphan
  <2>3. CASE faults' = faults /\ (r \in Uploads => Active(r)' \/ ~Exists(Temp(r))')
    <3>1. r \notin Orphans'
      BY <2>3 DEF Orphans
    <3> QED
      BY <1>1, <1>2, <2>1, <2>3, <3>1, ActKeepsBodies, FewerOrphans
  <2> QED
    BY <1>2, <2>2, <2>3, ActIsCounted
<1>3. ASSUME NEW a \in DOMAIN files, SoftDelete(a)
      PROVE  Bodies' /\ OrphansAreCounted'
  <2>1. Orphans' = Orphans /\ faults' = faults
    BY <1>3 DEF SoftDelete, Orphans, Exists, Active
  <2> QED
    BY <1>1, <1>3, <2>1, SoftDeleteKeepsBodies, FewerOrphans
<1>4. CASE CleanupTemp
  <2>1. Orphans' \subseteq Orphans /\ faults' = faults
    BY <1>4 DEF CleanupTemp, Without, Orphans, Exists, Active
  <2> QED
    BY <1>1, <1>4, <2>1, CleanupKeepsBodies, FewerOrphans
<1>5. CASE UNCHANGED vars
  BY <1>5 DEF vars, Bodies, TempIsThere, Holds, Exists, OrphansAreCounted,
     Orphans, Active
<1> QED
  BY <1>1, <1>2, <1>3, <1>4, <1>5 DEF Next, Acts, Requests

(* Whatever requests run at once, fail or crash: the body of an upload     *)
(* that runs is in its temporary file until it is moved in place, and of   *)
(* the files that outlive their uploads each has cost an exception, a      *)
(* crash or a deletion that failed.                                        *)
THEOREM TempCorrectness == Spec => []TempFilesAreOwned
<1>1. Init => Bodies /\ OrphansAreCounted
  <2> SUFFICES ASSUME Init PROVE Bodies /\ OrphansAreCounted
    OBVIOUS
  <2>1. Orphans = {} /\ faults = 0
    BY DEF Init, Orphans, Exists
  <2>2. Bodies
    BY DEF Init, Bodies, TempIsThere, HoldsTemp, UploadStages, BeforeVersions,
       AfterVersions
  <2> QED
    BY <2>1, <2>2, FS_EmptySet DEF OrphansAreCounted
<1>2. Bodies /\ OrphansAreCounted => TempFilesAreOwned
  BY DEF Bodies, OrphansAreCounted, TempFilesAreOwned, TempIsThere, Holds,
     Requests
<1> QED
  BY <1>1, <1>2, InitIInv, NextKeepsIInv, NextKeepsTemps, PTL DEF Spec

(* So a request has to care for its own path and temporary file only.      *)
LEMMA OrderStep ==
    ASSUME Setting, Order, NEW u \in Requests, Acts(u),
           NEW p, p = req[u].path, RowsMove(u, p),
           p \in Watched => PathInOrder(p)'
    PROVE  Order'
<1>1. /\ req'[u].path = p /\ Touches(u, p)
      /\ \A s \in Requests : s # u => pc'[s] = pc[s] /\ req'[s] = req[s]
  BY ActsAlone, ActTouches DEF Setting
<1>2. Bodies'
  BY ActKeepsBodies DEF Setting, Order
<1>3. ASSUME NEW q \in Watched, q # p PROVE PathInOrder(q)'
  <2>1. PathInOrder(q)
    BY <1>3 DEF Order
  <2>2. SameAt(Canonical(q)) /\ \A n : SameAt(Archive(q, n))
    BY <1>1, <1>3, Places DEF Touches
  <2>3. /\ DOMAIN files \subseteq DOMAIN files'
        /\ \A a \in DOMAIN files : /\ files'[a].path = files[a].path
                                   /\ files[a].deleted => files'[a].deleted
        /\ \A a \in DOMAIN files' :
              files'[a].path = q => /\ a \in DOMAIN files
                                    /\ files'[a].hash = files[a].hash
                                    /\ VersionsOf(a)' = VersionsOf(a)
    BY <1>3 DEF RowsMove
  <2>4. \A s \in Requests : req'[s].path = req[s].path
    BY <1>1
  <2>5. \A s \in Requests :
           req[s].path # q \/ (pc'[s] = pc[s] /\ req'[s] = req[s])
    BY <1>1, <1>3
  <2>6. \A s \in Requests : pc[s] \in Swap => req[s].asset \in DOMAIN files
    BY StagesOfOrder DEF Setting, IInv, Types, KnownAssets, Referring
  <2> QED
    BY <2>1, <2>2, <2>3, <2>4, <2>5, <2>6, PathStays
<1> QED
  BY <1>2, <1>3 DEF Order

(* A step at which nothing that matters happens at the path itself. *)
LEMMA QuietOrder ==
    ASSUME Setting, Order, NEW u \in Requests, Acts(u),
           files' = files, versions' = versions,
           pc[u] \notin Moves, pc'[u] \notin Marked,
           \A l : SameAt(l) \/ l = Temp(u)
    PROVE  Order'
<1>1. PICK p : p = req[u].path
  OBVIOUS
<1>2. RowsMove(u, p) /\ \A a : VersionsOf(a)' = VersionsOf(a)
  BY SameRows
<1>3. /\ req'[u].path = p
      /\ \A s \in Requests : s # u => pc'[s] = pc[s] /\ req'[s] = req[s]
  BY <1>1, ActsAlone DEF Setting
<1>4. ASSUME p \in Watched PROVE PathInOrder(p)'
  <2>1. SameAt(Canonical(p)) /\ \A n : SameAt(Archive(p, n))
    BY Places
  <2>2. \A s \in Requests :
           \/ req[s].path # p
           \/ pc'[s] = pc[s] /\ req'[s] = req[s]
           \/ pc'[s] \notin Marked /\ pc[s] \notin Moves
    BY <1>3
  <2>3. \A s \in Requests : pc[s] \in Swap => req[s].asset \in DOMAIN files
    BY StagesOfOrder DEF Setting, IInv, Types, KnownAssets, Referring
  <2>4. \A s \in Requests : req'[s].path = req[s].path
    BY <1>1, <1>3
  <2>5. PathInOrder(p)
    BY <1>4 DEF Order
  <2> QED
    BY <1>2, <2>1, <2>2, <2>3, <2>4, <2>5, PathStays
<1> QED
  BY <1>1, <1>2, <1>4, OrderStep

LEMMA StartOrder ==
    ASSUME Setting, Order, NEW u \in Uploads, StartUpload(u)
    PROVE  Order'
<1>1. u \in Requests /\ Acts(u)
  BY DEF Requests, Acts
<1>2. /\ pc[u] = "idle" /\ pc' = [pc EXCEPT ![u] = "writing"]
      /\ files' = files /\ versions' = versions
      /\ disk' = With(Temp(u), req[u].content)
  BY DEF StartUpload, MayStart, Goto
<1>3. \A l : SameAt(l) \/ l = Temp(u)
  BY <1>2, AfterWith
<1>4. pc'[u] = "writing"
  BY <1>1, <1>2 DEF Setting, IInv, Types, TypeOK
<1> QED
  BY <1>1, <1>2, <1>3, <1>4, QuietOrder DEF Marked, Moves, AfterVersions

(* Stages that do not touch the disk or, at the end, the temporary file.   *)
LEMMA QuietSteps ==
    ASSUME Setting, Order, NEW u \in Uploads, req[u].path \in Watched,
           \/ Receive(u) \/ Reject(u) \/ LookUpPath(u) \/ LookUpHash(u)
           \/ ReadVersions(u)
    PROVE  Order'
<1>1. /\ pc[u] \in {"writing", "received", "newPath", "replacing"}
      /\ files' = files /\ versions' = versions
  BY DEF Receive, Reject, LookUpPath, LookUpHash, ReadVersions
<1>2. u \in Requests /\ Acts(u)
  BY DEF Requests, Acts, UploadStep
<1>3. PICK stage \in {"received", "newPath", "replacing", "placing",
                      "archiving", "rejected", "duplicate"} :
         /\ pc' = [pc EXCEPT ![u] = stage]
         /\ disk' = disk \/ disk' = Without(Temp(u))
  BY HashTurns, AfterEnd DEF Receive, Reject, LookUpPath, LookUpHash,
     ReadVersions, Goto
<1>4. pc'[u] = stage
  BY <1>2, <1>3 DEF Setting, IInv, Types, TypeOK
<1>5. \A l : SameAt(l) \/ l = Temp(u)
  BY <1>3, SameDisk, AfterWithout
<1> QED
  BY <1>1, <1>2, <1>4, <1>5, QuietOrder DEF Marked, Moves, AfterVersions

(***************************************************************************)
(* The steps of a request at its own path.                                 *)
(***************************************************************************)

(* The current version is the one that was read. *)
LEMMA CurrentIsRead ==
    ASSUME Setting, NEW u \in Uploads, req[u].path \in Watched,
           pc[u] \in AfterVersions
    PROVE  \A v \in VersionsOf(req[u].asset) :
              v.isCurrent <=> v.number = req[u].current
<1>1. PICK a, n : a = req[u].asset /\ n = req[u].last
  OBVIOUS
<1>2. InTurn(u) /\ Snapshot(u) /\ req[u] \in Locals
  BY AtWork DEF UploadStages, Setting, IInv, Snapshots
<1>3. \A v \in VersionsOf(a) : v.number <= n
  BY <1>1, <1>2 DEF InTurn
<1>4. n = req[u].current /\ n \in Nat /\ \E w \in VersionsOf(a) : w.number = n
  BY <1>1, <1>2 DEF InTurn, Snapshot, NumbersOf, Locals
<1>5. \A v \in VersionsOf(a) : /\ v.number \in Nat
                               /\ v.isCurrent <=> \A w \in VersionsOf(a) :
                                                     w.number <= v.number
  BY DEF VersionsOf, Setting, IInv, Types, TypeOK, VersionRow, Chain,
         VersionChain, CurrentIsLatest
<1>6. \A v \in VersionsOf(a) : v.isCurrent <=> v.number = n
  BY <1>3, <1>4, <1>5
<1> QED
  BY <1>1, <1>4, <1>6

(* Nobody else is at work on the path. *)
LEMMA Alone ==
    ASSUME NEW u \in Requests, HasPath(u), NEW p, p = req[u].path,
           NEW stages, stages \subseteq Stages
    PROVE  At(p, stages) <=> pc[u] \in stages
  BY DEF HasPath, Active, At

LEMMA AloneNext ==
    ASSUME NEW u \in Requests, HasPath(u), NEW p, p = req[u].path,
           NEW stages, stages \subseteq Stages, req'[u].path = p,
           \A s \in Requests : s # u => pc'[s] = pc[s] /\ req'[s] = req[s]
    PROVE  (\E r \in Requests : pc'[r] \in stages /\ req'[r].path = p)
              <=> pc'[u] \in stages
  BY DEF HasPath, Active

(* What a step of a request has to show at its own path. *)
LEMMA OwnStep ==
    ASSUME Setting, Order, NEW u \in Requests, HasPath(u), Acts(u),
           NEW p, p = req[u].path, RowsMove(u, p),
           \A a \in DOMAIN files' : files'[a].path = p => RowIsServed(a)',
           CanonicalIsKnown(p)', RequestIsOnCourse(u)'
    PROVE  Order'
<1>1. \A s \in Requests : s # u => pc'[s] = pc[s] /\ req'[s] = req[s]
  BY ActsAlone DEF Setting
<1>2. ASSUME NEW s \in Requests, s # u, req'[s].path = p
      PROVE  RequestIsOnCourse(s)'
  <2>1. pc'[s] \notin Stages
    BY <1>1, <1>2 DEF HasPath, Active
  <2> QED
    BY <2>1, Unmarked, StagesOfOrder
<1>3. PathInOrder(p)'
  BY <1>2 DEF PathInOrder
<1> QED
  BY <1>3, OrderStep

(* A step that touches no table. *)
LEMMA BytesStep ==
    ASSUME Setting, Order, NEW u \in Requests, HasPath(u), Acts(u),
           NEW p \in Watched, p = req[u].path,
           files' = files, versions' = versions,
           \A a \in DOMAIN files : files[a].path = p =>
              Exists(Canonical(p))' \/ pc'[u] \in Gap,
           \A a \in LiveAt(p) : pc'[u] \notin Swap =>
              Exists(Canonical(p))' /\ disk'[Canonical(p)] = files[a].hash,
           \A a \in LiveAt(p) : \A v \in VersionsOf(a) :
              v.archived => SameAt(Archive(p, v.number)),
           CanonicalIsKnown(p)', RequestIsOnCourse(u)'
    PROVE  Order'
<1>1. RowsMove(u, p) /\ \A a : VersionsOf(a)' = VersionsOf(a)
  BY SameRows
<1>2. /\ At(p, Gap)' <=> pc'[u] \in Gap
      /\ At(p, Swap)' <=> pc'[u] \in Swap
  <2>1. Gap \subseteq Stages /\ Swap \subseteq Stages
    BY StagesOfOrder
  <2>2. /\ req'[u].path = p
        /\ \A s \in Requests : s # u => pc'[s] = pc[s] /\ req'[s] = req[s]
    BY ActsAlone DEF Setting
  <2> QED
    BY <2>1, <2>2, AloneNext DEF At, Gap, Swap
<1>3. p \in Paths
  BY DEF Setting, IInv, Types, TypeOK, Locals
<1>4. ASSUME NEW a \in DOMAIN files', files'[a].path = p
      PROVE  RowIsServed(a)'
  <2>1. a \in DOMAIN files /\ files[a].path = p /\ (Live(a)' <=> Live(a))
        /\ (Live(a) => a \in LiveAt(p))
    BY <1>4 DEF Live, LiveAt
  <2>2. RowIsServed(a)
    BY <1>3, <1>4, <2>1 DEF Order, PathInOrder
  <2>3. Exists(Canonical(p))' \/ At(p, Gap)'
    BY <1>2, <1>4, <2>1
  <2>4. Live(a)' /\ ~At(p, Swap)'
           => Exists(Canonical(p))' /\ disk'[Canonical(p)] = files'[a].hash
    BY <1>2, <1>4, <2>1
  <2>5. ASSUME NEW v \in VersionsOf(a)'
        PROVE  /\ v.archived <=> ~v.isCurrent
               /\ Live(a)' /\ v.archived =>
                    Exists(Archive(p, v.number))'
                       /\ disk'[Archive(p, v.number)] = v.hash
    <3>1. v \in VersionsOf(a)
      BY <1>1
    <3>2. Live(a) /\ v.archived => SameAt(Archive(p, v.number))
      BY <1>4, <2>1, <3>1
    <3> QED
      BY <2>1, <2>2, <3>1, <3>2, Served DEF SameAt
  <2> QED
    BY <1>4, <2>3, <2>4, <2>5, ServedNext
<1> QED
  BY <1>1, <1>4, OwnStep

(* What a request at work knows of its path and of its temporary file.     *)
LEMMA AtItsPath ==
    ASSUME Setting, Order, NEW u \in Uploads, pc[u] \in UploadStages,
           NEW p \in Watched, p = req[u].path
    PROVE  /\ u \in Requests /\ HasPath(u) /\ InTurn(u) /\ TypeOK
           /\ pc[u] \in HoldsTemp =>
                 Exists(Temp(u)) /\ disk[Temp(u)] = req[u].content
           /\ PathInOrder(p) /\ RequestIsOnCourse(u)
<1>1. u \in Requests /\ HasPath(u) /\ InTurn(u)
  BY AtWork
<1>2. TempIsThere(u) /\ PathInOrder(p)
  BY <1>1 DEF Order, Bodies
<1> QED
  BY <1>1, <1>2 DEF TempIsThere, Holds, PathInOrder, Setting, IInv, Types

(* A step of one request, in terms of its locals. *)
LEMMA StageStep ==
    ASSUME TypeOK, NEW u \in Requests, NEW stage,
           pc' = [pc EXCEPT ![u] = stage], req' = req
    PROVE  /\ pc'[u] = stage /\ req'[u] = req[u]
           /\ \A s \in Requests : s # u => pc'[s] = pc[s] /\ req'[s] = req[s]
  BY DEF TypeOK

(* What a re-upload finds. *)
LEMMA Reupload ==
    ASSUME Setting, Order, NEW u \in Uploads, pc[u] \in AfterVersions,
           NEW p \in Watched, p = req[u].path, NEW a, a = req[u].asset
    PROVE  /\ a \in DOMAIN files /\ files[a].path = p /\ LiveAt(p) \subseteq {a}
           /\ pc[u] \notin Gap => Exists(Canonical(p))
           /\ Live(a) /\ pc[u] \notin Swap =>
                 Exists(Canonical(p)) /\ disk[Canonical(p)] = req[u].hash
           /\ \A v \in VersionsOf(a) : v.archived <=> v.number # req[u].current
           /\ \A v \in VersionsOf(a) :
                 Live(a) /\ v.archived =>
                    Exists(Archive(p, v.number))
                       /\ disk[Archive(p, v.number)] = v.hash
<1>1. /\ u \in Requests /\ HasPath(u) /\ InTurn(u) /\ PathInOrder(p)
  BY AtItsPath DEF UploadStages
<1>2. /\ a \in DOMAIN files /\ files[a].path = p /\ LiveAt(p) \subseteq {a}
      /\ files[a].hash = req[u].hash
  BY <1>1 DEF InTurn, OfVersion, Target
<1>3. RowIsServed(a)
  BY <1>1, <1>2 DEF PathInOrder
<1>4. /\ At(p, Gap) <=> pc[u] \in Gap
      /\ At(p, Swap) <=> pc[u] \in Swap
  <2>1. Gap \subseteq Stages /\ Swap \subseteq Stages
    BY StagesOfOrder
  <2> QED
    BY <1>1, <2>1, Alone
<1>5. \A v \in VersionsOf(a) : v.isCurrent <=> v.number = req[u].current
  BY CurrentIsRead
<1>6. \A v \in VersionsOf(a) : v.archived <=> ~v.isCurrent
  BY <1>2, <1>3, Served
<1>7. \A v \in VersionsOf(a) : v.archived <=> v.number # req[u].current
  BY <1>5, <1>6
<1> QED
  BY <1>2, <1>3, <1>4, <1>7, Served

LEMMA PlaceOrder ==
    ASSUME Setting, Order, NEW u \in Uploads, req[u].path \in Watched, Place(u)
    PROVE  Order'
<1> USE DEF UploadStages, BeforeVersions, AfterVersions
<1>1. PICK p, c : p \in Watched /\ p = req[u].path /\ c = req[u].content
  OBVIOUS
<1>2. /\ pc[u] \in {"placing", "moving"} /\ Acts(u)
      /\ files' = files /\ versions' = versions /\ req' = req
  BY DEF Place, MoveOverwrite, Acts, UploadStep
<1>3. /\ u \in Requests /\ HasPath(u) /\ InTurn(u) /\ TypeOK
      /\ Exists(Temp(u)) /\ disk[Temp(u)] = c /\ RequestIsOnCourse(u)
  BY <1>1, <1>2, AtItsPath DEF HoldsTemp, Placed
<1>4. LiveAt(p) = {}
  BY <1>1, <1>2, <1>3 DEF InTurn, OfNewPath
<1>5. CASE /\ pc[u] = "placing" /\ pc' = [pc EXCEPT ![u] = "moving"]
           /\ disk' = Without(Canonical(p))
  <2>1. pc'[u] = "moving" /\ req'[u] = req[u]
    BY <1>2, <1>3, <1>5, StageStep
  <2>2. ~Exists(Canonical(p))'
    BY <1>5, AfterWithout DEF Exists, Canonical
  <2>3. CanonicalIsKnown(p)'
    BY <2>2 DEF CanonicalIsKnown, Exists, Canonical
  <2>4. RequestIsOnCourse(u)'
    BY <1>1, <2>1, <2>2, OnCourseNext DEF Placed, Swap
  <2> QED
    BY <1>1, <1>2, <1>3, <1>4, <2>1, <2>3, <2>4, BytesStep DEF Gap
<1>6. CASE /\ pc[u] = "moving" /\ pc' = [pc EXCEPT ![u] = "inserting"]
           /\ disk' = Moved(Temp(u), Canonical(p))
  <2>1. pc'[u] = "inserting" /\ req'[u] = req[u]
    BY <1>2, <1>3, <1>6, StageStep
  <2>2. Exists(Canonical(p))' /\ disk'[Canonical(p)] = c
    BY <1>3, <1>6, Places, AfterMoved DEF Exists, Canonical
  <2>3. CanonicalIsKnown(p)'
    BY <1>1, <1>3, <2>1, <2>2 DEF CanonicalIsKnown, Placed, Canonical
  <2>4. RequestIsOnCourse(u)'
    BY <1>1, <2>1, <2>2, OnCourseNext DEF Placed, Swap
  <2> QED
    BY <1>1, <1>2, <1>3, <1>4, <2>2, <2>3, <2>4, BytesStep
<1>7. ~(pc[u] = "moving" /\ (~Exists(Temp(u)) \/ Exists(Canonical(p))))
  BY <1>1, <1>3, OnCourse
<1> QED
  BY <1>1, <1>5, <1>6, <1>7 DEF Place, MoveOverwrite, Goto

LEMMA LookOrder ==
    ASSUME Setting, Order, NEW u \in Uploads, req[u].path \in Watched,
           LookAtCanonical(u)
    PROVE  Order'
<1> USE DEF UploadStages, AfterVersions
<1>1. PICK p, a, n, h :
         /\ p \in Watched /\ p = req[u].path
         /\ a = req[u].asset /\ n = req[u].current
         /\ h = req[u].hash
  OBVIOUS
<1>2. /\ pc[u] = "archiving" /\ Acts(u)
      /\ files' = files /\ versions' = versions /\ disk' = disk
  BY DEF LookAtCanonical, Acts, UploadStep
<1>3. /\ u \in Requests /\ HasPath(u) /\ InTurn(u) /\ TypeOK /\ PathInOrder(p)
      /\ req[u] \in Locals
  BY <1>1, <1>2, AtItsPath DEF TypeOK
<1>4. /\ a \in DOMAIN files /\ files[a].path = p /\ LiveAt(p) \subseteq {a}
      /\ Exists(Canonical(p))
      /\ Live(a) => disk[Canonical(p)] = files[a].hash
  BY <1>1, <1>2, <1>3, Reupload DEF Gap, Swap, InTurn, OfVersion, Target
<1>5. /\ pc' = [pc EXCEPT ![u] = "shelving"]
      /\ req' = [req EXCEPT ![u].archived = TRUE]
  BY <1>1, <1>4 DEF LookAtCanonical, Goto
<1>6. /\ pc'[u] = "shelving" /\ req'[u].path = p /\ req'[u].current = n
      /\ req'[u].hash = h /\ req'[u].asset = a /\ req'[u].archived
  BY <1>1, <1>3, <1>5 DEF TypeOK, Locals
<1>7. Exists(Canonical(p))' /\ disk'[Canonical(p)] = disk[Canonical(p)]
  BY <1>2, <1>4 DEF Exists, Canonical
<1>8. CanonicalIsKnown(p)'
  <2>1. CASE \E b \in DOMAIN files :
                files[b].path = p /\ files[b].hash = disk[Canonical(p)]
    BY <1>2, <2>1 DEF CanonicalIsKnown, Canonical
  <2>2. CASE \E r \in Requests : /\ pc[r] \in Placed /\ req[r].path = p
                                 /\ req[r].content = disk[Canonical(p)]
    BY <1>1, <1>2, <1>3, <2>2, StagesOfOrder
    DEF HasPath, Active, Placed, Stages, BeforeVersions
  <2> QED
    BY <1>3, <1>4, <2>1, <2>2 DEF PathInOrder, CanonicalIsKnown
<1>9. RequestIsOnCourse(u)'
  BY <1>6, OnCourseNext DEF Placed, Swap
<1>10. /\ \A b \in LiveAt(p) : disk'[Canonical(p)] = files[b].hash
       /\ \A l : SameAt(l)
  BY <1>2, <1>4, <1>7, SameDisk DEF LiveAt
<1> QED
  BY <1>1, <1>2, <1>3, <1>7, <1>8, <1>9, <1>10, BytesStep

LEMMA ArchiveOrder ==
    ASSUME Setting, Order, NEW u \in Uploads, req[u].path \in Watched,
           ArchiveCurrent(u)
    PROVE  Order'
<1> USE DEF UploadStages, AfterVersions
<1>1. PICK p, a, n, h :
         /\ p \in Watched /\ p = req[u].path
         /\ a = req[u].asset /\ n = req[u].current
         /\ h = req[u].hash
  OBVIOUS
<1>2. /\ pc[u] \in {"shelving", "shelved"} /\ Acts(u)
      /\ files' = files /\ versions' = versions /\ req' = req
  BY DEF ArchiveCurrent, MoveOverwrite, Acts, UploadStep
<1>3. /\ u \in Requests /\ HasPath(u) /\ InTurn(u) /\ TypeOK
      /\ PathInOrder(p) /\ RequestIsOnCourse(u)
  BY <1>1, <1>2, AtItsPath
<1>4. /\ a \in DOMAIN files /\ files[a].path = p /\ LiveAt(p) \subseteq {a}
      /\ files[a].hash = h
      /\ Exists(Canonical(p)) /\ req[u].archived
      /\ Live(a) => disk[Canonical(p)] = h
      /\ \A v \in VersionsOf(a) : v.archived => v.number # n
      /\ pc[u] = "shelved" => ~Exists(Archive(p, n))
  <2>1. files[a].hash = h
    BY <1>1, <1>2, <1>3 DEF InTurn, OfVersion, Target
  <2> QED
    BY <1>1, <1>2, <1>3, <2>1, Reupload, OnCourse DEF Gap, Swap
<1>5. ASSUME \A l : SameAt(l) \/ l = Canonical(p) \/ l = Archive(p, n)
      PROVE  \A b \in LiveAt(p) : \A v \in VersionsOf(b) :
                v.archived => SameAt(Archive(p, v.number))
  BY <1>4, <1>5, Places
<1>6. CASE /\ pc[u] = "shelving" /\ pc' = [pc EXCEPT ![u] = "shelved"]
           /\ disk' = Without(Archive(p, n))
  <2>1. pc'[u] = "shelved" /\ req'[u] = req[u]
    BY <1>2, <1>3, <1>6, StageStep
  <2>2. ~Exists(Archive(p, n))' /\ \A k : k # Archive(p, n) => SameAt(k)
    BY <1>6, AfterWithout DEF Exists, Archive
  <2>3. Exists(Canonical(p))' /\ disk'[Canonical(p)] = disk[Canonical(p)]
    BY <1>4, <2>2, Places DEF SameAt
  <2>4. \A b \in LiveAt(p) : b = a /\ disk'[Canonical(p)] = files[b].hash
    BY <1>4, <2>3 DEF LiveAt
  <2>5. CanonicalIsKnown(p)'
    <3>1. CASE \E b \in DOMAIN files :
                  files[b].path = p /\ files[b].hash = disk[Canonical(p)]
      BY <1>2, <2>3, <3>1 DEF CanonicalIsKnown, Canonical
    <3>2. CASE \E r \in Requests : /\ pc[r] \in Placed /\ req[r].path = p
                                   /\ req[r].content = disk[Canonical(p)]
      BY <1>1, <1>2, <1>3, <3>2, StagesOfOrder
      DEF HasPath, Active, Placed, Stages, BeforeVersions
    <3> QED
      BY <1>3, <1>4, <3>1, <3>2 DEF PathInOrder, CanonicalIsKnown
  <2>6. RequestIsOnCourse(u)'
    BY <1>1, <1>4, <2>1, <2>2, OnCourseNext DEF Placed, Swap
  <2> QED
    BY <1>1, <1>2, <1>3, <1>5, <2>2, <2>3, <2>4, <2>5, <2>6, BytesStep
<1>7. CASE /\ pc[u] = "shelved" /\ pc' = [pc EXCEPT ![u] = "promoting"]
           /\ disk' = Moved(Canonical(p), Archive(p, n))
  <2>1. pc'[u] = "promoting" /\ req'[u] = req[u]
    BY <1>2, <1>3, <1>7, StageStep
  <2>2. /\ ~Exists(Canonical(p))'
        /\ Exists(Archive(p, n))' /\ disk'[Archive(p, n)] = disk[Canonical(p)]
        /\ \A k : k # Canonical(p) /\ k # Archive(p, n) => SameAt(k)
    BY <1>4, <1>7, Places, AfterMoved DEF Exists, Canonical, Archive
  <2>3. CanonicalIsKnown(p)'
    BY <2>2 DEF CanonicalIsKnown, Exists, Canonical
  <2>4. Live(a)' <=> Live(a)
    BY <1>2 DEF Live
  <2>5. RequestIsOnCourse(u)'
    BY <1>1, <1>4, <2>1, <2>2, <2>4, OnCourseNext DEF Placed
  <2> QED
    BY <1>1, <1>2, <1>3, <1>5, <2>1, <2>2, <2>3, <2>5, BytesStep DEF Gap, Swap
<1>8. ~(/\ pc[u] = "shelved"
        /\ ~Exists(Canonical(p)) \/ Exists(Archive(p, n)))
  BY <1>4
<1> QED
  BY <1>1, <1>6, <1>7, <1>8 DEF ArchiveCurrent, MoveOverwrite, Goto, Shelf

LEMMA PromoteOrder ==
    ASSUME Setting, Order, NEW u \in Uploads, req[u].path \in Watched,
           Promote(u)
    PROVE  Order'
<1> USE DEF UploadStages, AfterVersions
<1>1. PICK p, a, n, c, h :
         /\ p \in Watched /\ p = req[u].path
         /\ a = req[u].asset /\ n = req[u].current
         /\ c = req[u].content /\ h = req[u].hash
  OBVIOUS
<1>2. /\ pc[u] \in {"promoting", "swapping"} /\ Acts(u)
      /\ files' = files /\ versions' = versions /\ req' = req
  BY DEF Promote, MoveOverwrite, Acts, UploadStep
<1>3. /\ u \in Requests /\ HasPath(u) /\ TypeOK
      /\ Exists(Temp(u)) /\ disk[Temp(u)] = c
      /\ PathInOrder(p) /\ RequestIsOnCourse(u)
  BY <1>1, <1>2, AtItsPath DEF HoldsTemp, Placed
<1>4. /\ LiveAt(p) \subseteq {a} /\ req[u].archived
      /\ Live(a) => Exists(Archive(p, n)) /\ disk[Archive(p, n)] = h
      /\ pc[u] = "swapping" => ~Exists(Canonical(p))
  BY <1>1, <1>2, <1>3, Reupload, OnCourse DEF Swap
<1>5. Live(a)' <=> Live(a)
  BY <1>2 DEF Live
<1>6. CASE /\ pc[u] = "promoting" /\ pc' = [pc EXCEPT ![u] = "swapping"]
           /\ disk' = Without(Canonical(p))
  <2>1. pc'[u] = "swapping" /\ req'[u] = req[u]
    BY <1>2, <1>3, <1>6, StageStep
  <2>2. ~Exists(Canonical(p))' /\ \A k : k # Canonical(p) => SameAt(k)
    BY <1>6, AfterWithout DEF Exists, Canonical
  <2>3. \A m : SameAt(Archive(p, m))
    BY <2>2, Places
  <2>4. CanonicalIsKnown(p)'
    BY <2>2 DEF CanonicalIsKnown, Exists, Canonical
  <2>5. RequestIsOnCourse(u)'
    BY <1>1, <1>4, <1>5, <2>1, <2>2, <2>3, OnCourseNext DEF Placed, SameAt
  <2> QED
    BY <1>1, <1>2, <1>3, <2>1, <2>3, <2>4, <2>5, BytesStep DEF Gap, Swap
<1>7. CASE /\ pc[u] = "swapping" /\ pc' = [pc EXCEPT ![u] = "committing"]
           /\ disk' = Moved(Temp(u), Canonical(p))
  <2>1. pc'[u] = "committing" /\ req'[u] = req[u]
    BY <1>2, <1>3, <1>7, StageStep
  <2>2. /\ Exists(Canonical(p))' /\ disk'[Canonical(p)] = c
        /\ \A k : k # Temp(u) /\ k # Canonical(p) => SameAt(k)
    BY <1>3, <1>7, Places, AfterMoved DEF Exists, Canonical
  <2>3. \A m : SameAt(Archive(p, m))
    BY <2>2, Places
  <2>4. CanonicalIsKnown(p)'
    BY <1>1, <1>3, <2>1, <2>2 DEF CanonicalIsKnown, Placed, Canonical
  <2>5. RequestIsOnCourse(u)'
    BY <1>1, <1>4, <1>5, <2>1, <2>2, <2>3, OnCourseNext DEF Placed, SameAt
  <2> QED
    BY <1>1, <1>2, <1>3, <2>1, <2>2, <2>3, <2>4, <2>5, BytesStep DEF Swap
<1>8. ~(/\ pc[u] = "swapping"
        /\ ~Exists(Temp(u)) \/ Exists(Canonical(p)))
  BY <1>3, <1>4
<1> QED
  BY <1>1, <1>6, <1>7, <1>8 DEF Promote, MoveOverwrite, Goto

LEMMA StoredOrder ==
    ASSUME Setting, Order, NEW u \in Uploads, req[u].path \in Watched,
           CommitNew(u)
    PROVE  Order'
<1> USE DEF UploadStages, BeforeVersions
<1>1. PICK p, c : p \in Watched /\ p = req[u].path /\ c = req[u].content
  OBVIOUS
<1>2. /\ pc[u] = "inserting" /\ pc' = [pc EXCEPT ![u] = "stored"]
      /\ req' = req /\ Insert(u, p, c)
      /\ \A k : k # Temp(u) => SameAt(k)
  BY <1>1, AfterEnd DEF CommitNew
<1>3. /\ u \in Requests /\ HasPath(u) /\ InTurn(u) /\ TypeOK
      /\ PathInOrder(p) /\ RequestIsOnCourse(u)
  BY <1>1, <1>2, AtItsPath
<1>4. pc'[u] = "stored" /\ req'[u] = req[u]
  BY <1>2, <1>3, StageStep
<1>5. \A k : k # Temp(u) => SameAt(k)
  BY <1>2
<1>6. SameAt(Canonical(p))
  BY <1>5, Places
<1>7. Acts(u)
  BY DEF Acts, UploadStep
<1>8. RowsMove(u, p)
  BY <1>1, NewRowTurns
<1>9. /\ u \notin DOMAIN files /\ \A v \in versions : v.asset # u
      /\ LiveAt(p) = {}
  BY <1>1, <1>2, <1>3, NoRowYet DEF Setting, Stages, InTurn, OfNewPath
<1>10. /\ DOMAIN files' = DOMAIN files \cup {u}
       /\ \A a \in DOMAIN files : files'[a] = files[a]
       /\ files'[u] = [path |-> p, hash |-> c, deleted |-> FALSE]
  BY <1>2, <1>9 DEF Insert
<1>11. PICK first : /\ versions' = versions \cup {first} /\ first.asset = u
                    /\ first.isCurrent /\ ~first.archived
  <2> DEFINE First == [asset |-> u, number |-> 1, hash |-> req[u].content,
                       archived |-> FALSE, isCurrent |-> TRUE]
  <2>1. versions' = versions \cup {First}
    BY DEF CommitNew
  <2>2. First.asset = u /\ First.isCurrent /\ ~First.archived
    OBVIOUS
  <2> QED
    BY <2>1, <2>2
<1>12. /\ \A a \in DOMAIN files' : files'[a].path = p => RowIsServed(a)'
       /\ CanonicalIsKnown(p)'
       /\ RequestIsOnCourse(u)'
  <2>1. Exists(Canonical(p))' /\ disk'[Canonical(p)] = c
    BY <1>1, <1>2, <1>3, <1>6, OnCourse DEF Placed, SameAt
  <2>2. RequestIsOnCourse(u)'
    BY <1>4, Unmarked DEF Marked, AfterVersions
  <2>3. CanonicalIsKnown(p)'
    <3>1. u \in DOMAIN files' /\ files'[u].path = p /\ files'[u].hash = c
      BY <1>10
    <3> QED
      BY <2>1, <3>1 DEF CanonicalIsKnown, Canonical
  <2>4. ASSUME NEW a \in DOMAIN files', files'[a].path = p
        PROVE  RowIsServed(a)'
    <3>1. CASE a = u
      <4>1. VersionsOf(u)' = {first}
        BY <1>9, <1>11 DEF VersionsOf
      <4>2. files'[a].hash = c
        BY <1>10, <3>1
      <4> QED
        BY <1>11, <2>1, <2>4, <3>1, <4>1, <4>2, ServedNext
    <3>2. CASE a # u
      <4>1. a \in DOMAIN files /\ files[a].path = p /\ files'[a] = files[a]
        BY <1>10, <2>4, <3>2
      <4>2. ~Live(a)'
        BY <1>9, <4>1 DEF LiveAt, Live
      <4>3. VersionsOf(a)' = VersionsOf(a)
        BY <1>9, <1>11, <3>2 DEF VersionsOf
      <4>4. \A v \in VersionsOf(a) : v.archived <=> ~v.isCurrent
        BY <1>3, <4>1, Served DEF PathInOrder
      <4> QED
        BY <2>1, <2>4, <4>2, <4>3, <4>4, ServedNext
    <3> QED
      BY <3>1, <3>2
  <2> QED
    BY <2>2, <2>3, <2>4
<1> QED
  BY <1>1, <1>3, <1>7, <1>8, <1>12, OwnStep

(* The rows after a new version. *)
LEMMA RowsOfVersion ==
    ASSUME Setting, NEW u \in Uploads, req[u].path \in Watched,
           CommitVersion(u), req[u].archived
    PROVE  \A w \in VersionsOf(req[u].asset)' :
              \/ ~w.archived /\ w.isCurrent
              \/ \E v \in VersionsOf(req[u].asset) :
                    /\ w.number = v.number /\ w.hash = v.hash
                    /\ IF v.number = req[u].current
                       THEN w.archived /\ ~w.isCurrent
                       ELSE w = v
<1>1. PICK a, n : a = req[u].asset /\ n = req[u].current
  OBVIOUS
<1>2. pc[u] = "committing" /\ versions' = Retired(u) \cup InsertedRows(u)
  BY DEF CommitVersion
<1>3. ~req[u].legacy
  BY <1>2, AtWork DEF InTurn, UploadStages, AfterVersions
<1>4. \A w \in InsertedRows(u) : ~w.archived /\ w.isCurrent
  BY <1>3 DEF InsertedRows
<1>5. ASSUME NEW w \in Retired(u), w.asset = a
      PROVE  \E v \in VersionsOf(a) :
                /\ w.number = v.number /\ w.hash = v.hash
                /\ IF v.number = n THEN w.archived /\ ~w.isCurrent ELSE w = v
  <2>1. PICK v \in versions :
           w = IF v.asset = a /\ v.number = n
               THEN [v EXCEPT !.isCurrent = FALSE, !.archived = @ \/ TRUE]
               ELSE v
    BY <1>1, <1>3 DEF Retired
  <2>2. v \in VersionRow
    BY DEF Setting, IInv, Types, TypeOK
  <2>3. CASE v.asset = a /\ v.number = n
    BY <1>5, <2>1, <2>2, <2>3 DEF VersionRow, VersionsOf
  <2>4. CASE ~(v.asset = a /\ v.number = n)
    BY <1>5, <2>1, <2>4 DEF VersionsOf
  <2> QED
    BY <2>3, <2>4
<1>6. \A w \in VersionsOf(req[u].asset)' : w.asset = a /\ w \in versions'
  <2>1. req' = req
    BY DEF CommitVersion
  <2> QED
    BY <1>1, <2>1 DEF VersionsOf
<1> QED
  BY <1>1, <1>2, <1>4, <1>5, <1>6

LEMMA VersionedOrder ==
    ASSUME Setting, Order, NEW u \in Uploads, req[u].path \in Watched,
           CommitVersion(u)
    PROVE  Order'
<1> USE DEF UploadStages, AfterVersions
<1>1. PICK p, a, n, c, h :
         /\ p \in Watched /\ p = req[u].path
         /\ a = req[u].asset /\ n = req[u].current
         /\ c = req[u].content /\ h = req[u].hash
  OBVIOUS
<1>2. /\ pc[u] = "committing" /\ pc' = [pc EXCEPT ![u] = "versioned"]
      /\ req' = req /\ files' = [files EXCEPT ![a].hash = c]
      /\ \A k : k # Temp(u) => SameAt(k)
  BY <1>1, AfterEnd DEF CommitVersion
<1>3. /\ u \in Requests /\ HasPath(u) /\ InTurn(u) /\ TypeOK
      /\ PathInOrder(p) /\ RequestIsOnCourse(u)
  BY <1>1, <1>2, AtItsPath
<1>4. pc'[u] = "versioned" /\ req'[u] = req[u]
  BY <1>2, <1>3, StageStep
<1>5. \A k : k # Temp(u) => SameAt(k)
  BY <1>2
<1>6. SameAt(Canonical(p)) /\ \A m : SameAt(Archive(p, m))
  BY <1>5, Places
<1>7. Acts(u)
  BY DEF Acts, UploadStep
<1>8. RowsMove(u, p)
  BY <1>1, NewVersionTurns
<1>9. /\ a \in DOMAIN files /\ files[a].path = p /\ files[a].hash = h
  BY <1>1, <1>2, <1>3 DEF InTurn, OfVersion, Target
<1>10. /\ DOMAIN files' = DOMAIN files
       /\ files'[a].path = p /\ files'[a].hash = c
       /\ files'[a].deleted = files[a].deleted
       /\ \A b \in DOMAIN files : b # a => files'[b] = files[b]
  <2>1. files[a] \in FileRow
    BY <1>3, <1>9 DEF TypeOK
  <2> QED
    BY <1>2, <1>9, <2>1 DEF FileRow
<1>11. /\ \A b \in DOMAIN files' : files'[b].path = p => RowIsServed(b)'
       /\ CanonicalIsKnown(p)'
       /\ RequestIsOnCourse(u)'
  <2>1. /\ Exists(Canonical(p)) /\ disk[Canonical(p)] = c
        /\ req[u].archived
        /\ Live(a) => Exists(Archive(p, n)) /\ disk[Archive(p, n)] = h
    BY <1>1, <1>2, <1>3, OnCourse DEF Placed, Swap
  <2>2. Exists(Canonical(p))' /\ disk'[Canonical(p)] = c
    BY <1>6, <2>1 DEF SameAt
  <2>3. RequestIsOnCourse(u)'
    BY <1>4, Unmarked DEF Marked
  <2>4. CanonicalIsKnown(p)'
    BY <1>9, <1>10, <2>2 DEF CanonicalIsKnown, Canonical
  <2>5. ASSUME NEW b \in DOMAIN files', files'[b].path = p, b # a
        PROVE  RowIsServed(b)'
    <3>1. b \in DOMAIN files /\ files[b].path = p /\ files'[b] = files[b]
      BY <1>10, <2>5
    <3>2. ~Live(b)'
      <4>1. LiveAt(p) \subseteq {a}
        BY <1>1, <1>2, <1>3 DEF InTurn, OfVersion, Target
      <4> QED
        BY <2>5, <3>1, <4>1 DEF LiveAt, Live
    <3>3. VersionsOf(b)' = VersionsOf(b)
      BY <1>1, <2>5, OtherAssetsUntouched DEF VersionsOf, Setting
    <3>4. \A v \in VersionsOf(b) : v.archived <=> ~v.isCurrent
      BY <1>3, <3>1, Served DEF PathInOrder
    <3> QED
      BY <2>2, <2>5, <3>2, <3>3, <3>4, ServedNext
  <2>6. ASSUME NEW w \in VersionsOf(a)'
        PROVE  /\ w.archived <=> ~w.isCurrent
               /\ Live(a)' /\ w.archived =>
                    Exists(Archive(p, w.number))'
                       /\ disk'[Archive(p, w.number)] = w.hash
    <3>1. \/ ~w.archived /\ w.isCurrent
          \/ \E v \in VersionsOf(a) :
                /\ w.number = v.number /\ w.hash = v.hash
                /\ IF v.number = n THEN w.archived /\ ~w.isCurrent ELSE w = v
      <4>1. w \in VersionsOf(req[u].asset)'
        BY <1>1, <1>2 DEF VersionsOf
      <4> QED
        BY <1>1, <2>1, <4>1, RowsOfVersion
    <3>2. CASE ~w.archived /\ w.isCurrent
      BY <3>2
    <3>3. ASSUME NEW v \in VersionsOf(a), v.number = n,
                 w.number = v.number, w.hash = v.hash, w.archived, ~w.isCurrent
          PROVE  /\ w.archived <=> ~w.isCurrent
                 /\ Live(a)' /\ w.archived =>
                      Exists(Archive(p, w.number))'
                         /\ disk'[Archive(p, w.number)] = w.hash
      <4>1. v.isCurrent
        BY <1>1, <1>2, <3>3, CurrentIsRead
      <4>2. v.hash = h
        BY <1>1, <1>9, <3>3, <4>1, HashOfCurrent DEF VersionsOf
      <4>3. Live(a)' => Live(a)
        BY <1>9, <1>10 DEF Live
      <4> QED
        BY <1>6, <2>1, <3>3, <4>2, <4>3 DEF SameAt
    <3>4. ASSUME NEW v \in VersionsOf(a), w = v
          PROVE  /\ w.archived <=> ~w.isCurrent
                 /\ Live(a)' /\ w.archived =>
                      Exists(Archive(p, w.number))'
                         /\ disk'[Archive(p, w.number)] = w.hash
      <4>1. RowIsServed(a)
        BY <1>3, <1>9 DEF PathInOrder
      <4>2. Live(a)' => Live(a)
        BY <1>9, <1>10 DEF Live
      <4> QED
        BY <1>6, <1>9, <3>4, <4>1, <4>2, Served DEF SameAt
    <3> QED
      BY <3>1, <3>2, <3>3, <3>4
  <2>7. RowIsServed(a)'
    BY <1>10, <2>2, <2>6, ServedNext
  <2> QED
    BY <2>3, <2>4, <2>5, <2>7
<1> QED
  BY <1>1, <1>3, <1>7, <1>8, <1>11, OwnStep

LEMMA UploadsOrder ==
    ASSUME Setting, Order, NEW u \in Uploads, req[u].path \in Watched,
           (StartUpload(u) /\ Quiet(req[u].path)) \/ UploadStep(u)
    PROVE  Order'
<1>1. ~CommitAlias(u)
  <2>1. InTurn(u)
    BY DEF Setting, Turns, Requests
  <2> QED
    BY <2>1 DEF InTurn, CommitAlias
<1>2. ~ConflictingVersion(u)
  BY NoConflict DEF ConflictingVersion
<1> QED
  BY <1>1, <1>2, StartOrder, QuietSteps, PlaceOrder, LookOrder, ArchiveOrder,
     PromoteOrder, StoredOrder, VersionedOrder
  DEF UploadStep

(***************************************************************************)
(* The steps of nobody: deletions and the cleanup.                         *)
(***************************************************************************)

LEMMA SoftDeleteOrder ==
    ASSUME Setting, Order, NEW a \in DOMAIN files, SoftDelete(a)
    PROVE  Order'
<1>1. versions' = versions /\ disk' = disk /\ pc' = pc /\ req' = req
  BY DEF SoftDelete
<1>2. /\ DOMAIN files' = DOMAIN files
      /\ \A b \in DOMAIN files : /\ files'[b].path = files[b].path
                                 /\ files'[b].hash = files[b].hash
                                 /\ files[b].deleted => files'[b].deleted
  BY SoftDeleteTurns DEF Live
<1>3. \A b : VersionsOf(b)' = VersionsOf(b)
  BY <1>1 DEF VersionsOf
<1>4. Bodies'
  BY SoftDeleteKeepsBodies DEF Order
<1>5. \A s \in Requests : pc[s] \in Swap => req[s].asset \in DOMAIN files
  BY StagesOfOrder DEF Setting, IInv, Types, KnownAssets, Referring
<1>6. ASSUME NEW p \in Watched PROVE PathInOrder(p)'
  <2>1. PathInOrder(p)
    BY <1>6 DEF Order
  <2>2. \A l : SameAt(l)
    BY <1>1, SameDisk
  <2>3. \A b \in DOMAIN files' :
           files'[b].path = p => /\ b \in DOMAIN files
                                 /\ files'[b].hash = files[b].hash
                                 /\ VersionsOf(b)' = VersionsOf(b)
    BY <1>2, <1>3
  <2> QED
    BY <1>1, <1>2, <1>5, <2>1, <2>2, <2>3, PathStays
<1> QED
  BY <1>4, <1>6 DEF Order

(* The cleanup takes no bytes of a request at work, and none of a path     *)
(* that is not under temp/.                                                *)
LEMMA CleanupOrder ==
    ASSUME Setting, Order, CleanupTemp
    PROVE  Order'
<1>1. PICK l \in DOMAIN disk :
         /\ Temporary(l) /\ ~Fresh(l) /\ disk' = Without(l)
         /\ UNCHANGED <<files, versions, pc, req, faults>>
  BY DEF CleanupTemp
<1>2. \A k : k # l => SameAt(k)
  BY <1>1, AfterWithout
<1>3. Bodies'
  BY CleanupKeepsBodies DEF Order
<1>4. \A s \in Requests : pc[s] \in Swap => req[s].asset \in DOMAIN files
  BY StagesOfOrder DEF Setting, IInv, Types, KnownAssets, Referring
<1>5. \A b : VersionsOf(b)' = VersionsOf(b)
  BY <1>1 DEF VersionsOf
<1>6. ASSUME NEW p \in Watched PROVE PathInOrder(p)'
  <2>1. PathInOrder(p)
    BY <1>6 DEF Order
  <2>2. l # Canonical(p) /\ \A n : l # Archive(p, n)
    BY <1>1, <1>6, WatchedAssumption DEF Temporary, Canonical, Archive
  <2>3. SameAt(Canonical(p)) /\ \A n : SameAt(Archive(p, n))
    BY <1>2, <2>2
  <2> QED
    BY <1>1, <1>4, <1>5, <2>1, <2>3, PathStays
<1> QED
  BY <1>3, <1>6 DEF Order

(* A request that a fault ends has changed nothing but its temporary file. *)
LEMMA FaultChanges ==
    ASSUME NEW u \in Uploads, Fault(u)
    PROVE  /\ u \in Requests /\ Active(u) /\ pc[u] \notin Moves
           /\ files' = files /\ versions' = versions /\ req' = req
           /\ \E stage \in {"failed", "crashed"} : pc' = [pc EXCEPT ![u] = stage]
           /\ \A l : SameAt(l) \/ l = Temp(u)
<1>1. /\ u \in Requests /\ Active(u) /\ pc[u] \notin Moves
      /\ files' = files /\ versions' = versions /\ req' = req
      /\ \E stage \in {"failed", "crashed"} : pc' = [pc EXCEPT ![u] = stage]
  BY DEF Fault, Throw, Crash, Goto, Requests
<1>2. disk' = disk \/ disk' = Without(Temp(u))
  BY DEF Fault, Throw, Crash
<1> QED
  BY <1>1, <1>2, SameDisk, AfterWithout

(* It leaves the turns and the order of the paths as they were: the next   *)
(* upload of the path starts as if it had not been.                        *)
LEMMA FaultOrder ==
    ASSUME Setting, Order, NEW u \in Uploads, req[u].path \in Watched, Fault(u)
    PROVE  Turns' /\ Order'
<1>1. /\ u \in Requests /\ Active(u) /\ pc[u] \notin Moves
      /\ files' = files /\ versions' = versions /\ req' = req
      /\ \A l : SameAt(l) \/ l = Temp(u)
  BY FaultChanges
<1>2. PICK stage \in {"failed", "crashed"} : pc' = [pc EXCEPT ![u] = stage]
  BY FaultChanges
<1>3. HasPath(u) /\ Turns /\ TypeOK
  BY <1>1, ActiveHasPath DEF Setting, IInv, Types
<1>4. Turns'
  BY <1>1, <1>2, <1>3, StageTurn DEF OfNewPath, OfVersion, AfterVersions
<1>5. pc'[u] = stage /\ \A s \in Requests : s # u => pc'[s] = pc[s]
  BY <1>1, <1>2, <1>3 DEF TypeOK
<1>6. pc'[u] \notin Marked /\ Acts(u)
  BY <1>5 DEF Marked, AfterVersions, Acts, Fault
<1> QED
  BY <1>1, <1>3, <1>4, <1>5, <1>6, QuietOrder

(***************************************************************************)
(* Requests at other paths keep away from the watched ones.                *)
(***************************************************************************)

(* At a path that is not watched only foreign contents are sent. *)
LEMMA ForeignContent ==
    ASSUME Setting, NEW r \in Requests, req[r].path \notin Watched
    PROVE  Foreign(req[r].content)
<1>1. PICK t : t = <<req[r].path, req[r].content>> /\ t \in MayUpload
  BY DEF Setting, Others, StaysAway
<1>2. t[1] \notin Watched /\ t[2] = req[r].content
  BY <1>1
<1> QED
  BY <1>1, <1>2 DEF Setting, Apart, Foreign

(* So no row of a watched path is found by such a content. *)
LEMMA ForeignRowsFound ==
    ASSUME Setting, NEW a \in DOMAIN files, Foreign(files[a].hash)
    PROVE  files[a].path \notin Watched
<1> SUFFICES ASSUME files[a].path \in Watched PROVE FALSE
  OBVIOUS
<1>1. PICK t : t = <<files[a].path, files[a].hash>> /\ t \in MayUpload
  BY DEF Setting, Turns, RowInTurn
<1>2. t[1] = files[a].path /\ t[2] = files[a].hash
  BY <1>1
<1> QED
  BY <1>1, <1>2 DEF Foreign

(* What is inserted and updated from there is elsewhere, too. *)
ForeignWrite(r, p) ==
    /\ RowsMove(r, p)
    /\ \A a \in DOMAIN files' :
          IF files'[a].path \in Watched THEN RowInTurn(a)'
                                       ELSE Foreign(files'[a].hash)

LEMMA ForeignInsert ==
    ASSUME Setting, NEW r, NEW p, p \notin Watched, r \notin DOMAIN files,
           NEW q, q \notin Watched, NEW c, Foreign(c), Insert(r, q, c),
           \A a \in DOMAIN files : VersionsOf(a)' = VersionsOf(a)
    PROVE  ForeignWrite(r, p)
<1>1. /\ DOMAIN files' = DOMAIN files \cup {r}
      /\ \A a \in DOMAIN files : files'[a] = files[a]
      /\ files'[r].path = q /\ files'[r].hash = c
  BY DEF Insert
<1>2. RowsMove(r, p)
  BY <1>1 DEF RowsMove
<1>3. ASSUME NEW a \in DOMAIN files
      PROVE  IF files'[a].path \in Watched THEN RowInTurn(a)'
                                          ELSE Foreign(files'[a].hash)
  BY <1>1 DEF Setting, Turns, RowInTurn, Others
<1> QED
  BY <1>1, <1>2, <1>3 DEF ForeignWrite

LEMMA ForeignUpdate ==
    ASSUME Setting, NEW r, NEW p, p \notin Watched,
           NEW a \in DOMAIN files, files[a].path \notin Watched,
           NEW c, Foreign(c), files' = [files EXCEPT ![a].hash = c],
           \A b : b # a => VersionsOf(b)' = VersionsOf(b)
    PROVE  ForeignWrite(r, p)
<1>1. files[a] \in FileRow
  BY DEF Setting, IInv, Types, TypeOK
<1>2. /\ DOMAIN files' = DOMAIN files
      /\ files'[a].path = files[a].path /\ files'[a].deleted = files[a].deleted
      /\ files'[a].hash = c
      /\ \A b \in DOMAIN files : b # a => files'[b] = files[b]
  BY <1>1 DEF FileRow
<1>3. RowsMove(r, p)
  BY <1>2 DEF RowsMove
<1>4. ASSUME NEW b \in DOMAIN files, b # a
      PROVE  IF files'[b].path \in Watched THEN RowInTurn(b)'
                                          ELSE Foreign(files'[b].hash)
  BY <1>2, <1>4 DEF Setting, Turns, RowInTurn, Others
<1> QED
  BY <1>2, <1>3, <1>4 DEF ForeignWrite

LEMMA ForeignWrites ==
    ASSUME Setting, NEW r \in Requests, NEW p, p = req[r].path, p \notin Watched,
           Acts(r)
    PROVE  ForeignWrite(r, p)
<1>1. IInv /\ StaysAway(r) /\ Foreign(req[r].content)
  BY ForeignContent DEF Setting, Others
<1>2. CASE ~Commits(r)
  <2>1. files' = files /\ versions' = versions
    BY <1>1, <1>2, ActsLocally DEF Local
  <2>2. ASSUME NEW a \in DOMAIN files
        PROVE  IF files[a].path \in Watched THEN RowInTurn(a)'
                                           ELSE Foreign(files[a].hash)
    BY <2>1 DEF Setting, Turns, RowInTurn, Others, VersionsOf
  <2> QED
    BY <2>1, <2>2, SameRows DEF ForeignWrite
<1>3. CASE r \in Uploads /\ CommitAlias(r)
  <2>1. pc[r] = "aliasing" /\ versions' = versions
        /\ Insert(r, files[req[r].asset].path, req[r].content)
    BY <1>3 DEF CommitAlias
  <2>2. r \notin DOMAIN files
    BY <1>1, <2>1, NoRowYet DEF Stages, UploadStages, BeforeVersions
  <2>3. files[req[r].asset].path \notin Watched
    BY <1>1, <2>1 DEF StaysAway, Referring
  <2> QED
    BY <1>1, <2>1, <2>2, <2>3, ForeignInsert DEF VersionsOf
<1>4. CASE r \in Uploads /\ CommitNew(r)
  <2>1. pc[r] = "inserting" /\ Insert(r, p, req[r].content)
    BY <1>4 DEF CommitNew
  <2>2. r \notin DOMAIN files
    BY <1>1, <2>1, NoRowYet DEF Stages, UploadStages, BeforeVersions
  <2>3. \A a \in DOMAIN files : VersionsOf(a)' = VersionsOf(a)
    <3> DEFINE First == [asset |-> r, number |-> 1, hash |-> req[r].content,
                         archived |-> FALSE, isCurrent |-> TRUE]
    <3>1. versions' = versions \cup {First} /\ First.asset = r
      BY <1>4 DEF CommitNew
    <3> HIDE DEF First
    <3> QED
      BY <2>2, <3>1 DEF VersionsOf
  <2> QED
    BY <1>1, <2>1, <2>2, <2>3, ForeignInsert
<1>5. CASE r \in Uploads /\ CommitVersion(r)
  <2>1. PICK a, c : a = req[r].asset /\ c = req[r].content
    OBVIOUS
  <2>2. pc[r] = "committing" /\ files' = [files EXCEPT ![a].hash = c]
    BY <1>5, <2>1 DEF CommitVersion
  <2>3. pc[r] \in Referring
    BY <2>2 DEF Referring, AfterVersions
  <2>4. a \in DOMAIN files /\ files[a].path \notin Watched
    BY <1>1, <2>1, <2>3 DEF IInv, Types, KnownAssets, StaysAway
  <2>5. \A b : b # a => VersionsOf(b)' = VersionsOf(b)
    BY <1>1, <1>5, <2>1, OtherAssetsUntouched DEF VersionsOf
  <2> QED
    BY <1>1, <2>1, <2>2, <2>4, <2>5, ForeignUpdate
<1>6. CASE r \in Registrations /\ CommitEnrolment(r)
  <2>1. pc[r] = "enrolling" /\ Insert(r, p, req[r].hash) /\ versions' = versions
    BY <1>6 DEF CommitEnrolment
  <2>2. r \notin DOMAIN files
    BY <1>1, <2>1, NoRowYet DEF Stages, RegisterStages
  <2>3. Foreign(req[r].hash)
    BY <1>1, <2>1 DEF StaysAway
  <2> QED
    BY <2>1, <2>2, <2>3, ForeignInsert DEF VersionsOf
<1>7. CASE r \in Registrations /\ CommitUpdate(r)
  <2>1. PICK a, c : a = req[r].asset /\ c = req[r].hash
    OBVIOUS
  <2>2. pc[r] = "updating" /\ files' = [files EXCEPT ![a].hash = c]
        /\ versions' = versions
    BY <1>7, <2>1 DEF CommitUpdate
  <2>3. pc[r] \in Referring
    BY <2>2 DEF Referring
  <2>4. /\ a \in DOMAIN files /\ files[a].path \notin Watched /\ Foreign(c)
    BY <1>1, <2>1, <2>2, <2>3 DEF IInv, Types, KnownAssets, StaysAway
  <2> QED
    BY <2>2, <2>4, ForeignUpdate DEF VersionsOf
<1> QED
  BY <1>2, <1>3, <1>4, <1>5, <1>6, <1>7 DEF Commits

(* The bytes that a request puts at such a path are foreign. *)
LEMMA ForeignBytes ==
    ASSUME Setting, Order, NEW r \in Requests, Acts(r),
           NEW p, p = req[r].path, p \notin Watched, Exists(Canonical(p))'
    PROVE  Foreign(disk'[Canonical(p)])
<1>1. PICK c : c = req[r].content /\ Foreign(c)
  BY ForeignContent
<1>2. CASE disk'[Canonical(p)] = c
  BY <1>1, <1>2
<1>3. CASE SameAt(Canonical(p))
  BY <1>3 DEF SameAt, Setting, Others
<1>4. SameAt(Canonical(p)) \/ disk'[Canonical(p)] = c
  <2>1. CASE r \in Uploads /\ (Place(r) \/ Promote(r))
    <3>1. CASE disk' = Without(Temp(r)) \/ disk' = Without(Canonical(p))
      BY <3>1, AfterWithout, Places DEF Exists, Canonical
    <3>2. CASE /\ disk' = Moved(Temp(r), Canonical(p))
               /\ pc[r] \in {"moving", "swapping"}
      <4>1. Holds(Temp(r), c)
        BY <1>1, <3>2 DEF Order, Bodies, TempIsThere, HoldsTemp, UploadStages,
           BeforeVersions, AfterVersions, Placed
      <4> QED
        BY <3>2, <4>1, AfterMoved, Places DEF Holds
    <3>3. CASE disk' = disk
      BY <3>3, SameDisk
    <3> QED
      BY <2>1, <3>1, <3>2, <3>3
      DEF Place, Promote, MoveOverwrite, End, SafeDelete
  <2>2. CASE r \in Uploads /\ ArchiveCurrent(r)
    <3>1. disk' \in {disk, Without(Temp(r)), Without(Shelf(r)),
                     Moved(Canonical(p), Shelf(r))}
      BY <2>2 DEF ArchiveCurrent, MoveOverwrite, End, SafeDelete
    <3>2. disk' # Moved(Canonical(p), Shelf(r))
      BY AfterMoved, Places DEF Shelf, Exists, Canonical
    <3> QED
      BY <3>1, <3>2, SameDisk, AfterWithout, Places DEF Shelf
  <2>3. CASE r \in Uploads /\ StartUpload(r)
    BY <2>3, AfterWith, Places DEF StartUpload
  <2>4. CASE \/ r \in Uploads /\ UploadStep(r) /\ ~Place(r) /\ ~Promote(r)
                 /\ ~ArchiveCurrent(r)
             \/ Throw(r) \/ Crash(r)
    <3>1. disk' = disk \/ disk' = Without(Temp(r))
      BY <2>4 DEF UploadStep, Receive, Reject, LookUpPath, LookUpHash,
         CommitAlias, CommitNew, ReadVersions, LookAtCanonical, CommitVersion,
         ConflictingVersion, Throw, Crash, End, SafeDelete
    <3> QED
      BY <3>1, SameDisk, AfterWithout, Places
  <2>5. CASE r \in Registrations /\ ConnectorWrites(r)
    BY <1>1, <2>5, AfterWith DEF ConnectorWrites
  <2>6. CASE r \in Registrations /\ RegisterStep(r)
    BY <2>6, SameDisk DEF RegisterStep, HashFile, LookUpRow, CommitEnrolment,
       CommitUpdate
  <2> QED
    BY <2>1, <2>2, <2>3, <2>4, <2>5, <2>6 DEF Acts
<1> QED
  BY <1>2, <1>3, <1>4

(* Such a request finds rows of its like only, and keeps away. *)
LEMMA ForeignStays ==
    ASSUME Setting, NEW r \in Requests, Acts(r), req[r].path \notin Watched
    PROVE  StaysAway(r)'
<1> USE DEF Referring, AfterVersions
<1>1. /\ StaysAway(r) /\ Foreign(req[r].content) /\ IInv
      /\ pc \in [Requests -> {"idle"} \cup Stages \cup Outcomes]
      /\ req \in [Requests -> Locals]
  BY ForeignContent DEF Setting, Others, IInv, Types, TypeOK
<1>2. PICK p, c : p = req[r].path /\ c = req[r].content
  OBVIOUS
<1>3. <<p, c>> \in MayUpload /\ req'[r].path = p /\ req'[r].content = c
  BY <1>1, <1>2, ActsAlone DEF StaysAway
<1>4. \A a \in DOMAIN files : files'[a].path = files[a].path
  BY <1>2, ForeignWrites DEF ForeignWrite, RowsMove
<1>5. pc[r] \in Referring => /\ req[r].asset \in DOMAIN files
                             /\ files[req[r].asset].path \notin Watched
  BY <1>1 DEF StaysAway, IInv, Types, KnownAssets
<1>6. ASSUME NEW stage, pc' = [pc EXCEPT ![r] = stage],
             stage \notin Referring \cup {"hashed", "enrolling", "updating"}
      PROVE  StaysAway(r)'
  BY <1>1, <1>3, <1>6 DEF StaysAway, Foreign
<1>7. ASSUME NEW stage, pc' = [pc EXCEPT ![r] = stage], pc[r] \in Referring,
             req'[r].asset = req[r].asset,
             stage \notin {"hashed", "enrolling", "updating"}
      PROVE  StaysAway(r)'
  BY <1>1, <1>3, <1>4, <1>5, <1>7 DEF StaysAway, Foreign
<1>8. ASSUME NEW stage, pc' = [pc EXCEPT ![r] = stage],
             NEW a \in DOMAIN files, files[a].path \notin Watched,
             req'[r].asset = a,
             stage \in {"hashed", "enrolling", "updating"} =>
                Foreign(req'[r].hash)
      PROVE  StaysAway(r)'
  BY <1>1, <1>3, <1>4, <1>8 DEF StaysAway, Foreign
<1>9. ASSUME NEW stage \in {"hashed", "enrolling"},
             pc' = [pc EXCEPT ![r] = stage], Foreign(req'[r].hash)
      PROVE  StaysAway(r)'
  BY <1>1, <1>3, <1>9 DEF StaysAway, Foreign
<1>10. CASE r \in Uploads /\ (StartUpload(r) \/ Receive(r) \/ Reject(r)
               \/ CommitAlias(r) \/ Place(r) \/ CommitNew(r)
               \/ ConflictingVersion(r))
  <2>1. \E stage \in {"writing", "received", "rejected", "aliased", "moving",
                     "inserting", "failed", "stored"} :
           pc' = [pc EXCEPT ![r] = stage]
    BY <1>10 DEF StartUpload, Receive, Reject, CommitAlias, Place, CommitNew,
       ConflictingVersion, MoveOverwrite, End, Goto
  <2> QED
    BY <1>6, <2>1
<1>11. CASE r \in Uploads /\ (ArchiveCurrent(r) \/ Promote(r)
                                \/ CommitVersion(r))
  <2>1. /\ pc[r] \in Referring /\ req' = req
        /\ \E stage \in {"shelved", "promoting", "swapping", "committing",
                         "failed", "versioned"} : pc' = [pc EXCEPT ![r] = stage]
    BY <1>11
    DEF ArchiveCurrent, Promote, CommitVersion, MoveOverwrite, End, Goto
  <2> QED
    BY <1>7, <2>1
<1>12. CASE r \in Uploads /\ LookUpPath(r)
  <2>1. CASE LiveAt(p) = {}
    BY <1>2, <1>6, <1>12, <2>1 DEF LookUpPath, Goto
  <2>2. CASE LiveAt(p) # {}
    <3>1. PICK a \in LiveAt(p) :
             /\ req' = [req EXCEPT ![r].asset = a, ![r].hash = files[a].hash]
             /\ \E stage \in {"duplicate", "replacing"} :
                   pc' = [pc EXCEPT ![r] = stage]
      BY <1>2, <1>12, <2>2 DEF LookUpPath, End, Goto
    <3>2. /\ a \in DOMAIN files /\ files[a].path = p /\ p \notin Watched
      BY <1>2 DEF LiveAt
    <3>3. req'[r].asset = a
      BY <1>1, <3>1 DEF Locals
    <3> QED
      BY <1>8, <3>1, <3>2, <3>3
  <2> QED
    BY <2>1, <2>2
<1>13. CASE r \in Uploads /\ LookUpHash(r)
  <2>1. CASE Goto(r, "placing")
    BY <1>6, <2>1 DEF Goto
  <2>2. ASSUME NEW a \in LiveWith(c), req' = [req EXCEPT ![r].asset = a],
               Goto(r, "aliasing")
        PROVE  StaysAway(r)'
    <3>1. a \in DOMAIN files /\ files[a].hash = c
      BY <2>2 DEF LiveWith
    <3>2. files[a].path \notin Watched
      BY <1>1, <1>2, <3>1, ForeignRowsFound
    <3>3. req'[r].asset = a
      BY <1>1, <2>2 DEF Locals
    <3>4. PICK stage \in {"aliasing"} : pc' = [pc EXCEPT ![r] = stage]
      BY <2>2 DEF Goto
    <3> QED
      BY <1>8, <3>1, <3>2, <3>3, <3>4
  <2> QED
    BY <1>2, <1>13, <2>1, <2>2 DEF LookUpHash
<1>14. CASE r \in Uploads /\ (ReadVersions(r) \/ LookAtCanonical(r))
  <2>1. /\ pc[r] \in Referring
        /\ \E stage \in {"archiving", "shelving", "promoting"} :
              pc' = [pc EXCEPT ![r] = stage]
    BY <1>14 DEF ReadVersions, LookAtCanonical, Goto
  <2>2. req'[r].asset = req[r].asset
    <3>1. CASE ReadVersions(r)
      <4>1. PICK n, m, l : req' = [req EXCEPT ![r].last = n, ![r].current = m,
                                              ![r].legacy = l]
        BY <3>1 DEF ReadVersions
      <4> QED
        BY <1>1, <4>1 DEF Locals
    <3>2. CASE LookAtCanonical(r)
      BY <1>1, <3>2 DEF LookAtCanonical, Locals
    <3> QED
      BY <1>14, <3>1, <3>2
  <2> QED
    BY <1>7, <2>1, <2>2
<1>15. CASE r \in Registrations /\ ConnectorWrites(r)
  BY <1>6, <1>15 DEF ConnectorWrites, Goto
<1>16. CASE r \in Registrations /\ HashFile(r)
  <2>1. CASE Goto(r, "skipped")
    BY <1>6, <2>1 DEF Goto
  <2>2. CASE /\ Exists(Canonical(p)) /\ Goto(r, "hashed")
             /\ req' = [req EXCEPT ![r].hash = disk[Canonical(p)]]
    <3>1. Foreign(disk[Canonical(p)])
      BY <1>2, <2>2 DEF Setting, Others
    <3>2. req'[r].hash = disk[Canonical(p)]
      BY <1>1, <2>2 DEF Locals
    <3> QED
      BY <1>9, <2>2, <3>1, <3>2 DEF Goto
  <2> QED
    BY <1>2, <1>16, <2>1, <2>2 DEF HashFile
<1>17. CASE r \in Registrations /\ LookUpRow(r)
  <2>1. Foreign(req[r].hash)
    BY <1>1, <1>17 DEF LookUpRow, StaysAway
  <2>2. CASE req' = req /\ Goto(r, "enrolling")
    BY <1>9, <2>1, <2>2 DEF Goto
  <2>3. ASSUME NEW a \in LiveAt(p), req' = [req EXCEPT ![r].asset = a],
               NEW stage \in {"unchanged", "updating"}, Goto(r, stage)
        PROVE  StaysAway(r)'
    <3>1. /\ a \in DOMAIN files /\ files[a].path \notin Watched
      BY <1>2, <2>3 DEF LiveAt
    <3>2. req'[r].asset = a /\ req'[r].hash = req[r].hash
      BY <1>1, <2>3 DEF Locals
    <3> QED
      BY <1>8, <2>1, <2>3, <3>1, <3>2 DEF Goto
  <2> QED
    BY <1>2, <1>17, <2>2, <2>3 DEF LookUpRow
<1>18. CASE r \in Registrations /\ CommitEnrolment(r)
  BY <1>6, <1>18 DEF CommitEnrolment, Goto
<1>19. CASE r \in Registrations /\ CommitUpdate(r)
  BY <1>7, <1>19 DEF CommitUpdate, Goto
<1>20. CASE Throw(r) \/ Crash(r)
  BY <1>6, <1>20 DEF Throw, Crash, Goto
<1> QED
  BY <1>10, <1>11, <1>12, <1>13, <1>14, <1>15, <1>16, <1>17, <1>18, <1>19,
     <1>20 DEF Acts, UploadStep, RegisterStep

(* What a step of a request has to show for the others to stay away. *)
LEMMA OthersStep ==
    ASSUME Setting, NEW r \in Requests, Acts(r), NEW p, p = req[r].path,
           RowsMove(r, p),
           p \notin Watched =>
              /\ StaysAway(r)' /\ ForeignWrite(r, p)
              /\ Exists(Canonical(p))' => Foreign(disk'[Canonical(p)])
    PROVE  Others'
<1>1. /\ \A s \in Requests : s # r => pc'[s] = pc[s] /\ req'[s] = req[s]
      /\ req'[r].path = p /\ Touches(r, p)
  BY ActsAlone, ActTouches DEF Setting
<1>2. ASSUME NEW s \in Requests, req'[s].path \notin Watched
      PROVE  StaysAway(s)'
  <2>1. CASE s = r
    BY <1>1, <1>2, <2>1
  <2>2. CASE s # r
    <3>1. StaysAway(s) /\ pc'[s] = pc[s] /\ req'[s] = req[s]
      BY <1>1, <1>2, <2>2 DEF Setting, Others
    <3>2. PICK a : a = req[s].asset
      OBVIOUS
    <3>3. pc[s] \in Referring => /\ a \in DOMAIN files /\ files[a].path \notin Watched
                                 /\ files'[a].path = files[a].path
      BY <3>1, <3>2 DEF StaysAway, Setting, IInv, Types, KnownAssets, RowsMove
    <3> QED
      BY <3>1, <3>2, <3>3 DEF StaysAway, Foreign
  <2> QED
    BY <2>1, <2>2
<1>3. ASSUME NEW a \in DOMAIN files', files'[a].path \notin Watched
      PROVE  Foreign(files'[a].hash)
  <2>1. CASE p \notin Watched
    BY <1>3, <2>1 DEF ForeignWrite
  <2>2. CASE p \in Watched
    <3>1. a \in DOMAIN files /\ files[a].path \notin Watched
          /\ files'[a].hash = files[a].hash
      BY <1>3, <2>2 DEF RowsMove
    <3> QED
      BY <3>1 DEF Setting, Others
  <2> QED
    BY <2>1, <2>2
<1>4. ASSUME NEW q, q \notin Watched, Exists(Canonical(q))'
      PROVE  Foreign(disk'[Canonical(q)])
  <2>1. CASE q = p
    BY <1>4, <2>1
  <2>2. CASE q # p
    <3>1. SameAt(Canonical(q))
      BY <1>1, <2>2, Places DEF Touches
    <3> QED
      BY <1>4, <3>1 DEF SameAt, Setting, Others
  <2> QED
    BY <2>1, <2>2
<1>5. ASSUME NEW q, q \notin Watched, Exists(Canonical(q))'
      PROVE  Foreign(disk[Canonical(q)])'
  <2>1. Canonical(q)' = Canonical(q)
    BY DEF Canonical
  <2> QED
    BY <1>4, <1>5, <2>1 DEF Foreign
<1> QED
  BY <1>2, <1>3, <1>5 DEF Others, Foreign, Exists, Canonical

(* Requests elsewhere disturb nothing. *)
LEMMA ForeignOrder ==
    ASSUME Setting, Order, NEW r \in Requests, req[r].path \notin Watched,
           Acts(r)
    PROVE  Turns' /\ Order' /\ Others'
<1>1. PICK p : p = req[r].path /\ p \notin Watched
  OBVIOUS
<1>2. /\ \A s \in Requests : s # r => pc'[s] = pc[s] /\ req'[s] = req[s]
      /\ req'[r].path = p /\ Touches(r, p)
  BY <1>1, ActsAlone, ActTouches DEF Setting
<1>3. /\ RowsMove(r, p) /\ ForeignWrite(r, p)
      /\ \A a \in DOMAIN files' : files'[a].path \in Watched => RowInTurn(a)'
  BY <1>1, ForeignWrites DEF ForeignWrite
<1>4. Turns'
  BY <1>1, <1>2, <1>3, TurnStep DEF Setting
<1>5. Order'
  BY <1>1, <1>2, <1>3, ActKeepsTemp, OrderStep DEF Setting
<1>6. Others'
  BY <1>1, <1>3, ForeignStays, ForeignBytes, OthersStep
<1> QED
  BY <1>4, <1>5, <1>6

(* Nor do the uploads of watched paths disturb the others. *)
LEMMA WatchedOthers ==
    ASSUME Setting, NEW u \in Uploads, req[u].path \in Watched,
           StartUpload(u) \/ UploadStep(u) \/ Fault(u)
    PROVE  Others'
<1>1. u \in Requests /\ Acts(u)
  BY DEF Requests, Acts, Fault
<1>2. RowsMove(u, req[u].path)
  <2>1. CASE CommitNew(u) \/ CommitVersion(u)
    BY <2>1, NewRowTurns, NewVersionTurns
  <2>2. CASE ~CommitNew(u) /\ ~CommitVersion(u)
    <3>1. ~CommitAlias(u)
      BY <1>1 DEF Setting, Turns, InTurn, CommitAlias
    <3>2. ~Commits(u)
      BY <2>2, <3>1, RequestsAssumption DEF Commits
    <3>3. files' = files /\ versions' = versions
      BY <1>1, <3>2, ActsLocally DEF Local, Setting
    <3> QED
      BY <3>3, SameRows
  <2> QED
    BY <2>1, <2>2
<1> QED
  BY <1>1, <1>2, OthersStep

(* A deletion changes no path and no hash, and the cleanup makes no file.  *)
LEMMA RestOthers ==
    ASSUME Setting, pc' = pc, req' = req, DOMAIN files' = DOMAIN files,
           \A a \in DOMAIN files : /\ files'[a].path = files[a].path
                                   /\ files'[a].hash = files[a].hash,
           \A l : Exists(l)' => SameAt(l)
    PROVE  Others'
<1>1. ASSUME NEW s \in Requests, req[s].path \notin Watched
      PROVE  StaysAway(s)'
  <2>1. StaysAway(s)
    BY <1>1 DEF Setting, Others
  <2>2. PICK a : a = req[s].asset
    OBVIOUS
  <2>3. pc[s] \in Referring => /\ a \in DOMAIN files /\ files[a].path \notin Watched
                               /\ files'[a].path = files[a].path
    BY <2>1, <2>2 DEF StaysAway, Setting, IInv, Types, KnownAssets
  <2> QED
    BY <2>1, <2>2, <2>3 DEF StaysAway, Foreign
<1>2. ASSUME NEW q, q \notin Watched, Exists(Canonical(q))'
      PROVE  Foreign(disk[Canonical(q)])'
  <2>1. SameAt(Canonical(q)) /\ Canonical(q)' = Canonical(q)
    BY <1>2 DEF Canonical
  <2>2. Exists(Canonical(q)) /\ disk'[Canonical(q)] = disk[Canonical(q)]
    BY <1>2, <2>1 DEF SameAt
  <2>3. Foreign(disk[Canonical(q)])
    BY <1>2, <2>2 DEF Setting, Others
  <2> QED
    BY <2>1, <2>2, <2>3 DEF Foreign
<1>3. ASSUME NEW a \in DOMAIN files, files[a].path \notin Watched
      PROVE  Foreign(files'[a].hash)
  BY <1>3 DEF Setting, Others
<1> QED
  BY <1>1, <1>2, <1>3 DEF Others, Foreign, Exists, Canonical

(***************************************************************************)
(* The invariant.                                                          *)
(***************************************************************************)

LEMMA InitOrder == ASSUME Init PROVE Order
<1>1. /\ DOMAIN files = {} /\ DOMAIN disk = {}
      /\ \A r \in Requests : pc[r] = "idle"
  BY DEF Init
<1>2. Bodies /\ \A r \in Requests : RequestIsOnCourse(r)
  BY <1>1 DEF Bodies, TempIsThere, RequestIsOnCourse, HoldsTemp, UploadStages, Placed,
     Swap, BeforeVersions, AfterVersions
<1>3. \A p : CanonicalIsKnown(p)
  BY <1>1 DEF CanonicalIsKnown, Exists
<1> QED
  BY <1>1, <1>2, <1>3 DEF Order, PathInOrder

LEMMA InitOthers == ASSUME Init PROVE Others
<1>1. PICK sent \in [Requests -> MayUpload] :
        req = [r \in Requests |->
                   [path |-> sent[r][1], content |-> sent[r][2],
                    asset |-> r, hash |-> sent[r][2],
                    last |-> 0, current |-> 0,
                    legacy |-> FALSE, archived |-> FALSE]]
  BY DEF Init
<1>2. /\ DOMAIN files = {} /\ DOMAIN disk = {}
      /\ \A r \in Requests : pc[r] = "idle"
  BY DEF Init
<1>3. ASSUME NEW r \in Requests PROVE StaysAway(r)
  <2>1. sent[r] \in MayUpload /\ sent[r] \in Paths \X Contents
    BY InputsAssumption
  <2>2. req[r].path = sent[r][1] /\ req[r].content = sent[r][2]
    BY <1>1
  <2>3. <<req[r].path, req[r].content>> \in MayUpload
    BY <2>1, <2>2
  <2> QED
    BY <1>2, <2>3 DEF StaysAway, Referring, AfterVersions
<1> QED
  BY <1>2, <1>3 DEF Others, Exists

LEMMA NextKeepsOrder ==
    ASSUME Setting, Order, [Next /\ LeftInPeace]_vars
    PROVE  Turns' /\ Order' /\ Others'
<1>1. ASSUME NEW u \in Uploads, req[u].path \in Watched,
             (StartUpload(u) /\ Quiet(req[u].path)) \/ UploadStep(u) \/ Fault(u)
      PROVE  Turns' /\ Order' /\ Others'
  BY <1>1, StartTurns, UploadsTurn, UploadsOrder, FaultOrder, WatchedOthers
<1>2. ASSUME NEW r \in Requests, req[r].path \notin Watched, Acts(r)
      PROVE  Turns' /\ Order' /\ Others'
  BY <1>2, ForeignOrder
<1>3. ASSUME NEW a \in DOMAIN files, SoftDelete(a)
      PROVE  Turns' /\ Order' /\ Others'
  <2>1. disk' = disk /\ pc' = pc /\ req' = req
    BY <1>3 DEF SoftDelete
  <2> QED
    BY <1>3, <2>1, SameDisk, SoftDeleteTurns, SoftDeleteOrder, RestOthers
<1>4. CASE CleanupTemp
  <2>1. UNCHANGED <<files, versions, pc, req>>
    BY <1>4 DEF CleanupTemp
  <2>2. \A l : Exists(l)' => SameAt(l)
    BY <1>4, AfterWithout DEF CleanupTemp
  <2> QED
    BY <1>4, <2>1, <2>2, NothingTurns, CleanupOrder, RestOthers DEF Setting
<1>5. CASE UNCHANGED vars
  <2>1. UNCHANGED <<files, versions, pc, req, disk>>
    BY <1>5 DEF vars
  <2>2. Turns'
    BY <2>1, NothingTurns DEF Setting
  <2>3. Bodies'
    BY <2>1 DEF Order, Bodies, TempIsThere, Holds, Exists
  <2>4. ASSUME NEW p \in Watched PROVE PathInOrder(p)'
    <3>1. \A b : VersionsOf(b)' = VersionsOf(b)
      BY <2>1 DEF VersionsOf
    <3>2. \A s \in Requests : pc[s] \in Swap => req[s].asset \in DOMAIN files
      BY StagesOfOrder DEF Setting, IInv, Types, KnownAssets, Referring
    <3> QED
      BY <2>1, <2>4, <3>1, <3>2, SameDisk, PathStays DEF Order
  <2>5. Others'
    BY <2>1, SameDisk, RestOthers
  <2> QED
    BY <2>2, <2>3, <2>4, <2>5 DEF Order
<1> QED
  BY <1>1, <1>2, <1>3, <1>4, <1>5, Steps

(* The watched paths of a peaceful execution stay in order. *)
InOrder == Setting /\ Order

LEMMA InitInOrder == Apart /\ Init => InOrder
<1> SUFFICES ASSUME Apart, Init PROVE InOrder
  OBVIOUS
<1>1. AssetHashIsCurrent
  BY DEF Init, AssetHashIsCurrent
<1> QED
  BY <1>1, InitIInv, InitTurns, InitOthers, InitOrder DEF InOrder, Setting

LEMMA NextKeepsInOrder == InOrder /\ [Next /\ LeftInPeace]_vars => InOrder'
<1> SUFFICES ASSUME Setting, Order, [Next /\ LeftInPeace]_vars PROVE InOrder'
  BY DEF InOrder
<1>1. IInv' /\ AssetHashIsCurrent'
  BY NextKeepsIInv, NextKeepsHash DEF Setting
<1>2. Apart'
  BY DEF Setting, Apart
<1> QED
  BY <1>1, <1>2, NextKeepsOrder DEF InOrder, Setting

LEMMA AlwaysInOrder == Apart /\ PeacefulSpec => []InOrder
  BY InitInOrder, NextKeepsInOrder, PTL DEF PeacefulSpec

(* Where uploads take turns everywhere, elFinder is not used and nothing   *)
(* fails, every path is left in peace in every execution, so that the      *)
(* theorems below speak of them all.                                       *)
THEOREM UndisturbedExecutions ==
    MaxFaults = 0 /\ Registrations = {} /\ ~Overlapping
        => (Spec => PeacefulSpec)
<1> SUFFICES ASSUME MaxFaults = 0, Registrations = {}, ~Overlapping
             PROVE  Spec => PeacefulSpec
  OBVIOUS
<1>1. IInv => LeftInPeace
  BY DEF IInv, Types, TypeOK, LeftInPeace, Throw, Crash, StartUpload, MayStart,
     Quiet
<1>2. IInv /\ [Next]_vars => [Next /\ LeftInPeace]_vars
  BY <1>1
<1> QED
  BY <1>2, InitIInv, NextKeepsIInv, PTL DEF Spec, PeacefulSpec

(***************************************************************************)
(* What it means for clients.                                              *)
(***************************************************************************)

(* The bytes of the live row of a path. *)
LEMMA RowsBytes ==
    ASSUME InOrder, NEW a \in DOMAIN files, Live(a),
           NEW p, p = files[a].path, p \in Watched
    PROVE  /\ a \in Requests /\ p \in Paths /\ PathInOrder(p)
           /\ \/ Exists(Canonical(p)) /\ disk[Canonical(p)] = files[a].hash
              \/ \E r \in Requests :
                    /\ pc[r] \in Swap /\ req[r].path = p
                    /\ Exists(Shelf(r)) /\ disk[Shelf(r)] = files[a].hash
           /\ \A v \in VersionsOf(a) :
                 v.archived => Exists(Archive(p, v.number))
                                  /\ disk[Archive(p, v.number)] = v.hash
           /\ \A v \in VersionsOf(a) : v.archived \/ v.hash = files[a].hash
<1>1. a \in Requests /\ p \in Paths
  BY DEF InOrder, Setting, IInv, Types, TypeOK, FileRow
<1>2. PathInOrder(p) /\ RowIsServed(a)
  BY <1>1 DEF InOrder, Order, PathInOrder
<1>3. ASSUME At(p, Swap)
      PROVE  \E r \in Requests :
                /\ pc[r] \in Swap /\ req[r].path = p
                /\ Exists(Shelf(r)) /\ disk[Shelf(r)] = files[a].hash
  <2>1. PICK r \in Requests : pc[r] \in Swap /\ req[r].path = p
    BY <1>3 DEF At
  <2>2. InTurn(r) /\ RequestIsOnCourse(r)
    BY <1>2, <2>1 DEF InOrder, Setting, Turns, PathInOrder
  <2>3. Target(r)
    BY <2>1, <2>2, StagesOfOrder DEF InTurn, OfVersion
  <2>4. a \in LiveAt(p)
    BY DEF LiveAt
  <2>5. req[r].asset = a /\ req[r].hash = files[a].hash
    BY <2>1, <2>3, <2>4 DEF Target
  <2> QED
    BY <2>1, <2>2, <2>5 DEF RequestIsOnCourse, Holds
<1>4. \A v \in VersionsOf(a) : v.archived \/ v.hash = files[a].hash
  BY <1>2, HashOfCurrent, Served DEF VersionsOf, InOrder
<1> QED
  BY <1>1, <1>2, <1>3, <1>4, Served

(* Whatever happens at the other paths: if the watched ones are left in    *)
(* peace, then, once no request is at work on it, the watched path of a    *)
(* live asset serves the bytes that its row describes.                     *)
THEOREM CanonicalCorrectness == Apart => (PeacefulSpec => []CanonicalIsCurrent)
<1>1. InOrder => CanonicalIsCurrent
  <2> SUFFICES ASSUME InOrder, NEW a \in DOMAIN files, Settled(a)
               PROVE  /\ Exists(Canonical(files[a].path))
                      /\ disk[Canonical(files[a].path)] = files[a].hash
    BY DEF CanonicalIsCurrent
  <2>1. \A r \in Requests : pc[r] \in Swap => req[r].path # files[a].path
    BY StagesOfOrder DEF Settled, Quiet, Active
  <2> QED
    BY <2>1, RowsBytes DEF Settled
<1> QED
  BY <1>1, AlwaysInOrder, PTL

(* Then, too, each version row leads to its bytes, the superseded ones to  *)
(* the archive they were moved to and the current one to the path itself.  *)
THEOREM VersionsCorrectness == Apart => (PeacefulSpec => []VersionsLeadToBytes)
<1>1. InOrder => VersionsLeadToBytes
  <2> SUFFICES ASSUME InOrder, NEW v \in versions, Settled(v.asset)
               PROVE  Exists(PlaceOf(v)) /\ disk[PlaceOf(v)] = v.hash
    BY DEF VersionsLeadToBytes
  <2>1. PICK a, p : a = v.asset /\ p = files[a].path
    OBVIOUS
  <2>2. a \in DOMAIN files /\ Live(a) /\ p \in Watched /\ v \in VersionsOf(a)
    BY <2>1 DEF Settled, Live, VersionsOf
  <2>3. \A r \in Requests : pc[r] \in Swap => req[r].path # p
    BY <2>1, StagesOfOrder DEF Settled, Quiet, Active
  <2>4. Exists(Canonical(p)) /\ disk[Canonical(p)] = files[a].hash
    BY <2>1, <2>2, <2>3, RowsBytes
  <2>5. PlaceOf(v) = IF v.archived THEN Archive(p, v.number) ELSE Canonical(p)
    BY <2>1 DEF PlaceOf
  <2> QED
    BY <2>1, <2>2, <2>4, <2>5, RowsBytes
<1> QED
  BY <1>1, AlwaysInOrder, PTL

(* At every moment, in the middle of a re-upload too, when the path has no *)
(* file or already the new one, the bytes of every version of a live asset *)
(* are on the disk.                                                        *)
THEOREM PreservationCorrectness == Apart => (PeacefulSpec => []BytesPreserved)
<1>1. InOrder => BytesPreserved
  <2> SUFFICES ASSUME InOrder, NEW v \in versions, Live(v.asset),
                      files[v.asset].path \in Watched
               PROVE  \E l \in DOMAIN disk : disk[l] = v.hash
    BY DEF BytesPreserved
  <2>1. PICK a, p : a = v.asset /\ p = files[a].path
    OBVIOUS
  <2>2. a \in DOMAIN files /\ v \in VersionsOf(a)
    BY <2>1 DEF Live, VersionsOf
  <2>3. CASE v.archived
    BY <2>1, <2>2, <2>3, RowsBytes DEF Exists
  <2>4. CASE ~v.archived
    <3>1. v.hash = files[a].hash
      BY <2>1, <2>2, <2>4, RowsBytes
    <3>2. \E l : Exists(l) /\ disk[l] = files[a].hash
      BY <2>1, <2>2, RowsBytes
    <3> QED
      BY <3>1, <3>2 DEF Exists
  <2> QED
    BY <2>3, <2>4
<1> QED
  BY <1>1, AlwaysInOrder, PTL

(* A client that is told its content is already there finds it there.      *)
THEOREM DuplicateCorrectness == Apart => (PeacefulSpec => DuplicatesAreStored)
<1> DEFINE Stored ==
       \A u \in Uploads :
          LET l == Canonical(req[u].path) IN
          pc[u] # "duplicate" /\ pc'[u] = "duplicate"
             /\ req[u].path \in Watched
             => Exists(l) /\ disk[l] = req[u].content
<1>1. InOrder /\ [Next /\ LeftInPeace]_vars => Stored
  <2> SUFFICES ASSUME InOrder, [Next /\ LeftInPeace]_vars, NEW u \in Uploads,
                      pc[u] # "duplicate", pc'[u] = "duplicate",
                      req[u].path \in Watched
               PROVE  /\ Exists(Canonical(req[u].path))
                      /\ disk[Canonical(req[u].path)] = req[u].content
    OBVIOUS
  <2>1. PICK p : p = req[u].path
    OBVIOUS
  <2>2. Setting /\ Turns /\ TypeOK /\ u \in Requests
    BY DEF InOrder, Setting, IInv, Types, Requests
  <2>3. LookUpPath(u)
    <3>1. ASSUME NEW w \in Uploads, NEW stage, pc' = [pc EXCEPT ![w] = stage],
                 stage # "duplicate"
          PROVE  FALSE
      BY <2>2, <3>1 DEF TypeOK
    <3>2. ASSUME NEW w \in Uploads, Fault(w) PROVE FALSE
      BY <2>2, <3>1, <3>2, FaultChanges
    <3>3. ASSUME NEW r \in Requests, req[r].path \notin Watched, Acts(r)
          PROVE  FALSE
      BY <2>2, <3>3, ActsAlone DEF Setting
    <3>4. PICK w \in Uploads : StartUpload(w) \/ UploadStep(w)
      BY <2>2, <3>2, <3>3, Steps DEF vars, SoftDelete, CleanupTemp
    <3>5. LookUpPath(w)
      BY <3>1, <3>4
      DEF StartUpload, UploadStep, Receive, Reject, LookUpHash, CommitAlias,
          Place, CommitNew, ReadVersions, LookAtCanonical, ArchiveCurrent,
          Promote, CommitVersion, ConflictingVersion, MoveOverwrite, End, Goto
    <3>6. PICK stage : pc' = [pc EXCEPT ![w] = stage]
      BY <3>5 DEF LookUpPath, End, Goto
    <3>7. w = u
      BY <2>2, <3>6 DEF TypeOK
    <3> QED
      BY <3>5, <3>7
  <2>4. pc[u] = "received" /\ HasPath(u)
    BY <2>2, <2>3, AtWork DEF LookUpPath, UploadStages, BeforeVersions
  <2>5. PICK a \in LiveAt(p) : files[a].hash = req[u].content
    BY <2>1, <2>2, <2>3 DEF LookUpPath, Goto, TypeOK
  <2>6. a \in DOMAIN files /\ Live(a) /\ files[a].path = p
    BY DEF LiveAt
  <2>7. \A r \in Requests : pc[r] \in Swap => req[r].path # p
    BY <2>1, <2>4, StagesOfOrder DEF HasPath, Active, Swap
  <2> QED
    BY <2>1, <2>5, <2>6, <2>7, RowsBytes
<1> QED
  BY <1>1, AlwaysInOrder, PTL DEF PeacefulSpec, DuplicatesAreStored

(***************************************************************************)
(* What it means for downloads and for the integrity job.                  *)
(***************************************************************************)

(* A download has found a row, and rows are never removed. *)
DownloadsFound ==
    /\ DOMAIN download = Downloads
    /\ \A d \in Downloads :
          download[d].at = "found" => download[d].asset \in DOMAIN files

(* What the job read is still so where no request has been at work since.  *)
ScanIsExplained ==
    /\ scan = [todo |-> scan.todo, count |-> scan.count]
    /\ scan.todo # {} =>
          /\ BusyPaths \subseteq touched
          /\ \A row \in scan.todo :
                \/ row.path \notin Watched \/ row.path \in touched
                \/ Holds(Canonical(row.path), row.hash)

RInv == DownloadsFound /\ ScanIsExplained /\ AlarmsAreExplained

(* So nothing happens to a path at which no request is at work.            *)
LEMMA QuietPathStays ==
    ASSUME Setting, Next, LeftInPeace, NEW p \in Watched, p \notin BusyPaths
    PROVE  SameAt(Canonical(p))
<1>1. ASSUME NEW r \in Requests, Acts(r), req[r].path # p
      PROVE  SameAt(Canonical(p))
  BY <1>1, ActTouches, Places DEF Touches
<1>2. ASSUME NEW u \in Uploads, StartUpload(u)
      PROVE  SameAt(Canonical(p))
  BY <1>2, AfterWith, Places DEF StartUpload
<1>3. ASSUME NEW u \in Uploads, UploadStep(u) \/ Fault(u)
      PROVE  SameAt(Canonical(p))
  <2>1. u \in Requests /\ Active(u) /\ Acts(u)
    BY <1>3 DEF Requests, Active, Acts, Fault, Throw, Crash, Stages, UploadStep,
       UploadStages, BeforeVersions, AfterVersions, Receive, Reject, LookUpPath,
       LookUpHash, CommitAlias, Place, CommitNew, ReadVersions, LookAtCanonical,
       ArchiveCurrent, Promote, CommitVersion, ConflictingVersion, MoveOverwrite
  <2> QED
    BY <1>1, <2>1 DEF BusyPaths
<1>4. ASSUME NEW a \in DOMAIN files, SoftDelete(a) PROVE SameAt(Canonical(p))
  BY <1>4, SameDisk DEF SoftDelete
<1>5. CASE CleanupTemp
  <2>1. PICK l \in DOMAIN disk : Temporary(l) /\ disk' = Without(l)
    BY <1>5 DEF CleanupTemp
  <2>2. l # Canonical(p)
    BY <2>1, WatchedAssumption DEF Temporary, Canonical
  <2> QED
    BY <2>1, <2>2, AfterWithout
<1> QED
  BY <1>1, <1>2, <1>3, <1>4, <1>5, Steps

(* The rows of FileStorage stay. *)
LEMMA RowsRemain == ASSUME Next PROVE DOMAIN files \subseteq DOMAIN files'
<1>1. ASSUME NEW u \in Uploads, StartUpload(u) \/ UploadStep(u)
      PROVE  DOMAIN files \subseteq DOMAIN files'
  BY <1>1 DEF UploadStep, StartUpload, Receive, Reject, LookUpPath, LookUpHash,
     CommitAlias, Place, CommitNew, ReadVersions, LookAtCanonical,
     ArchiveCurrent, Promote, CommitVersion, ConflictingVersion, MoveOverwrite,
     Insert
<1>2. ASSUME NEW g \in Registrations, ConnectorWrites(g) \/ RegisterStep(g)
      PROVE  DOMAIN files \subseteq DOMAIN files'
  BY <1>2 DEF ConnectorWrites, RegisterStep, HashFile, LookUpRow,
     CommitEnrolment, CommitUpdate, Insert
<1> QED
  BY <1>1, <1>2 DEF Next, SoftDelete, CleanupTemp, Throw, Crash

LEMMA StorageKeepsRInv ==
    ASSUME InOrder, RInv, StorageStep, LeftInPeace
    PROVE  RInv'
<1>1. /\ Next /\ download' = download /\ scan' = scan /\ alarms' = alarms
      /\ touched' = IF scan.todo = {} THEN touched ELSE touched \cup BusyPaths'
  BY DEF StorageStep
<1>2. Setting
  BY DEF InOrder
<1>3. DownloadsFound'
  BY <1>1, <1>2, RowsRemain DEF RInv, DownloadsFound
<1>4. AlarmsAreExplained'
  BY <1>1 DEF RInv, AlarmsAreExplained
<1>5. ASSUME scan.todo # {}, NEW row \in scan.todo,
             row.path \notin touched \cup BusyPaths', row.path \in Watched
      PROVE  Holds(Canonical(row.path), row.hash)'
  <2>1. PICK p, h : p = row.path /\ h = row.hash
    OBVIOUS
  <2>2. Exists(Canonical(p)) /\ disk[Canonical(p)] = h /\ p \notin BusyPaths
    BY <1>5, <2>1 DEF RInv, ScanIsExplained, Holds
  <2>3. SameAt(Canonical(p))
    BY <1>1, <1>2, <1>5, <2>1, <2>2, QuietPathStays
  <2>4. Exists(Canonical(p))' /\ disk'[Canonical(p)] = h
    BY <2>2, <2>3 DEF SameAt
  <2> QED
    BY <2>1, <2>4 DEF Holds, Exists
<1>6. ScanIsExplained'
  BY <1>1, <1>5 DEF RInv, ScanIsExplained
<1> QED
  BY <1>3, <1>4, <1>6 DEF RInv

LEMMA ReadersKeepRInv ==
    ASSUME InOrder, RInv, UNCHANGED vars,
           \/ \E d \in Downloads, a \in DOMAIN files : FindRow(d, a)
           \/ \E d \in Downloads : OpenFile(d) \/ FindNoFile(d)
           \/ ReadRows
           \/ (\E row \in scan.todo : Check(row)) \/ Abandon
    PROVE  RInv'
<1>1. /\ files' = files /\ disk' = disk /\ BusyPaths' = BusyPaths
      /\ \A l, c : Holds(l, c)' <=> Holds(l, c)
  BY DEF vars, BusyPaths, Active, Holds, Exists
<1>2. CASE UNCHANGED <<scan, alarms, touched>>
  <2>1. ScanIsExplained' /\ AlarmsAreExplained'
    BY <1>1, <1>2 DEF RInv, ScanIsExplained, AlarmsAreExplained, Holds, Exists
  <2>2. DownloadsFound'
    <3>1. ASSUME NEW d \in Downloads, NEW a \in DOMAIN files, FindRow(d, a)
          PROVE  DownloadsFound'
      BY <1>1, <3>1 DEF FindRow, RInv, DownloadsFound
    <3>2. ASSUME NEW d \in Downloads, OpenFile(d) \/ FindNoFile(d)
          PROVE  DownloadsFound'
      BY <1>1, <3>2 DEF OpenFile, FindNoFile, RInv, DownloadsFound
    <3>3. CASE download' = download
      BY <1>1, <3>3 DEF RInv, DownloadsFound
    <3> QED
      BY <3>1, <3>2, <3>3 DEF ReadRows, Check, Abandon
  <2> QED
    BY <2>1, <2>2 DEF RInv
<1>3. CASE ReadRows
  <2>1. /\ scan' = [todo |-> {[path |-> files[a].path, hash |-> files[a].hash] :
                                 a \in {b \in DOMAIN files : Live(b)}},
                    count |-> scan.count + 1]
        /\ alarms' = {} /\ touched' = BusyPaths /\ download' = download
    BY <1>3 DEF ReadRows
  <2>2. ASSUME NEW a \in DOMAIN files, Live(a), NEW p, p = files[a].path,
               p \notin BusyPaths, p \in Watched
        PROVE  Exists(Canonical(p)) /\ disk[Canonical(p)] = files[a].hash
    <3>1. \A r \in Requests : pc[r] \in Swap => req[r].path # p
      BY <2>2, StagesOfOrder DEF BusyPaths, Active
    <3> QED
      BY <2>2, <3>1, RowsBytes
  <2>3. ASSUME NEW row \in scan'.todo, row.path \in Watched \ BusyPaths
        PROVE  Holds(Canonical(row.path), row.hash)'
    <3>1. PICK a \in DOMAIN files :
             Live(a) /\ row = [path |-> files[a].path, hash |-> files[a].hash]
      BY <2>1, <2>3
    <3>2. PICK p, h : p = row.path /\ h = row.hash
      OBVIOUS
    <3>3. Exists(Canonical(p)) /\ disk[Canonical(p)] = h
      BY <2>2, <2>3, <3>1, <3>2
    <3> QED
      BY <1>1, <3>2, <3>3 DEF Holds, Exists, Canonical
  <2>4. scan' = [todo |-> scan'.todo, count |-> scan'.count]
    BY <2>1
  <2>5. ScanIsExplained'
    BY <1>1, <2>1, <2>3, <2>4 DEF ScanIsExplained
  <2>6. DownloadsFound' /\ AlarmsAreExplained'
    BY <1>1, <2>1 DEF RInv, DownloadsFound, AlarmsAreExplained
  <2> QED
    BY <2>5, <2>6 DEF RInv
<1>4. ASSUME NEW row \in scan.todo, Check(row)
      PROVE  RInv'
  <2>1. /\ scan' = [scan EXCEPT !.todo = @ \ {row}]
        /\ touched' = touched /\ download' = download
        /\ \/ alarms' = alarms
           \/ /\ alarms' = alarms \cup {row.path}
              /\ ~Holds(Canonical(row.path), row.hash)
    BY <1>4 DEF Check, Holds
  <2>2. /\ scan' = [todo |-> scan'.todo, count |-> scan'.count]
        /\ scan'.todo = scan.todo \ {row}
    BY <2>1 DEF RInv, ScanIsExplained
  <2>3. \A l \in scan'.todo : Holds(Canonical(l.path), l.hash)
                                 => Holds(Canonical(l.path), l.hash)'
    BY <1>1 DEF Holds, Exists, Canonical
  <2>4. ScanIsExplained'
    BY <1>1, <2>1, <2>2, <2>3 DEF RInv, ScanIsExplained
  <2>5. DownloadsFound' /\ AlarmsAreExplained'
    BY <1>1, <2>1 DEF RInv, DownloadsFound, AlarmsAreExplained, ScanIsExplained
  <2> QED
    BY <2>4, <2>5 DEF RInv
<1>5. CASE Abandon
  <2>1. /\ scan' = [scan EXCEPT !.todo = {}]
        /\ touched' = touched /\ download' = download /\ alarms' = alarms
    BY <1>5 DEF Abandon
  <2>2. scan' = [todo |-> {}, count |-> scan'.count]
    BY <2>1 DEF RInv, ScanIsExplained
  <2>3. ScanIsExplained'
    BY <2>2 DEF ScanIsExplained
  <2>4. DownloadsFound' /\ AlarmsAreExplained'
    BY <1>1, <2>1 DEF RInv, DownloadsFound, AlarmsAreExplained
  <2> QED
    BY <2>3, <2>4 DEF RInv
<1> QED
  BY <1>2, <1>3, <1>4, <1>5 DEF FindRow, OpenFile, FindNoFile

LEMMA ReadersNextKeepsRInv ==
    InOrder /\ RInv /\ [ReadersNext /\ LeftInPeace]_allVars => RInv'
<1> SUFFICES ASSUME InOrder, RInv, [ReadersNext /\ LeftInPeace]_allVars
             PROVE  RInv'
  OBVIOUS
<1>1. CASE StorageStep /\ LeftInPeace
  BY <1>1, StorageKeepsRInv
<1>2. CASE \/ \E d \in Downloads, a \in DOMAIN files : FindRow(d, a)
           \/ \E d \in Downloads : OpenFile(d) \/ FindNoFile(d)
           \/ ReadRows
           \/ (\E row \in scan.todo : Check(row)) \/ Abandon
  <2>1. UNCHANGED vars
    BY <1>2 DEF FindRow, OpenFile, FindNoFile, ReadRows, Check, Abandon
  <2> QED
    BY <1>2, <2>1, ReadersKeepRInv
<1>3. CASE UNCHANGED allVars
  BY <1>3 DEF allVars, vars, readers, RInv, DownloadsFound, ScanIsExplained,
     AlarmsAreExplained, BusyPaths, Active, Holds, Exists
<1> QED
  BY <1>1, <1>2, <1>3 DEF ReadersNext

(* Readers change nothing of the storage. *)
LEMMA ReadersAreReaders ==
    [ReadersNext /\ LeftInPeace]_allVars => [Next /\ LeftInPeace]_vars
  BY DEF ReadersNext, StorageStep, FindRow, OpenFile, FindNoFile, ReadRows,
     Check, Abandon, allVars

LEMMA AlwaysExplained ==
    Apart /\ PeacefulReadersSpec => [](InOrder /\ RInv)
<1>1. ReadersInit => Init /\ RInv
  BY DEF ReadersInit, RInv, DownloadsFound, ScanIsExplained, AlarmsAreExplained
<1> QED
  BY <1>1, InitInOrder, NextKeepsInOrder, ReadersNextKeepsRInv,
     ReadersAreReaders, PTL DEF PeacefulReadersSpec

(* Of a watched path the integrity job raises no false alarm, unless a     *)
(* request was at work there since the job read the rows.                  *)
THEOREM AlarmCorrectness ==
    Apart => (PeacefulReadersSpec => []AlarmsAreExplained)
<1>1. RInv => AlarmsAreExplained
  BY DEF RInv
<1> QED
  BY <1>1, AlwaysExplained, PTL

(* A download from a watched path that found its row before any number of  *)
(* steps of requests delivers bytes that a row of the path records or an   *)
(* upload at work on it is about to record, and misses the file only       *)
(* during an upload.                                                       *)
THEOREM DownloadCorrectness ==
    Apart => (PeacefulReadersSpec => DownloadsAreCurrent)
<1> DEFINE Current ==
       \A d \in Downloads :
          LET p == files[download[d].asset].path
              recorded == {files[a].hash : a \in {b \in DOMAIN files :
                                                    files[b].path = p}}
              pending == {req[r].content : r \in {q \in Requests :
                                              Active(q) /\ req[q].path = p}}
          IN download[d].at = "found" /\ download'[d] # download[d]
                /\ p \in Watched
             => IF download'[d].at = "streaming"
                THEN download'[d].content \in recorded \cup pending
                ELSE p \in BusyPaths
<1>1. InOrder /\ RInv /\ [ReadersNext /\ LeftInPeace]_allVars => Current
  <2> SUFFICES ASSUME InOrder, RInv, [ReadersNext /\ LeftInPeace]_allVars,
                      NEW d \in Downloads,
                      NEW a, a = download[d].asset, NEW p, p = files[a].path,
                      download[d].at = "found", download'[d] # download[d],
                      p \in Watched
               PROVE  IF download'[d].at = "streaming"
                      THEN \/ \E b \in DOMAIN files :
                                 /\ files[b].path = p
                                 /\ files[b].hash = download'[d].content
                           \/ \E r \in Requests :
                                 /\ Active(r) /\ req[r].path = p
                                 /\ req[r].content = download'[d].content
                      ELSE p \in BusyPaths
    BY DEF Current
  <2>1. a \in DOMAIN files /\ DOMAIN download = Downloads
    BY DEF RInv, DownloadsFound
  <2>2. PathInOrder(p) /\ RowIsServed(a)
    BY <2>1
    DEF InOrder, Order, Setting, IInv, Types, TypeOK, FileRow, PathInOrder
  <2>3. OpenFile(d) \/ FindNoFile(d)
    BY <2>1 DEF ReadersNext, StorageStep, FindRow, OpenFile, FindNoFile,
       ReadRows, Check, Abandon, allVars, readers
  <2>4. CASE OpenFile(d)
    <3>1. /\ Exists(Canonical(p))
          /\ download'[d] = [at |-> "streaming", asset |-> a,
                             content |-> disk[Canonical(p)]]
      BY <2>1, <2>4 DEF OpenFile, CanonicalOf
    <3>2. \/ \E b \in DOMAIN files :
                files[b].path = p /\ files[b].hash = disk[Canonical(p)]
          \/ \E r \in Requests : /\ pc[r] \in Placed /\ req[r].path = p
                                 /\ req[r].content = disk[Canonical(p)]
      BY <2>2, <3>1 DEF PathInOrder, CanonicalIsKnown
    <3>3. Placed \subseteq Stages
      BY StagesOfOrder
    <3> QED
      BY <3>1, <3>2, <3>3 DEF Active
  <2>5. CASE FindNoFile(d)
    <3>1. /\ ~Exists(Canonical(p))
          /\ download'[d] = [at |-> "missing", asset |-> a]
      BY <2>1, <2>5 DEF FindNoFile, CanonicalOf
    <3>2. p \in BusyPaths
      BY <2>2, <3>1, StagesOfOrder DEF RowIsServed, At, BusyPaths, Active
    <3> QED
      BY <3>1, <3>2
  <2> QED
    BY <2>3, <2>4, <2>5
<1> QED
  BY <1>1, AlwaysExplained, PTL DEF PeacefulReadersSpec, DownloadsAreCurrent

=============================================================================
