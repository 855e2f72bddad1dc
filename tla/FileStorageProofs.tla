------------------------- MODULE FileStorageProofs -------------------------
(***************************************************************************)
(* The safety properties of FileStorage that hold whatever the requests,   *)
(* paths, contents, interleavings, exceptions and crashes are.             *)
(***************************************************************************)
EXTENDS FileStorageProperties, TLAPS

(***************************************************************************)
(* The inductive invariant.  Types alone are not inductive: CommitAlias    *)
(* and CommitVersion use the row that the request found earlier            *)
(* (KnownAssets), and ReadVersions computes a maximum, which exists        *)
(* because a history that is not empty has a current version.              *)
(***************************************************************************)

Referring == {"aliasing", "replacing", "updating"} \cup AfterVersions
                \cup {"versioned", "updated"}

(* Rows are never removed from CDN.Files. *)
KnownAssets ==
    \A r \in Requests : pc[r] \in Referring => req[r].asset \in DOMAIN files

(* A request inserts a row at its end, so CommitNew makes the first        *)
(* version of its asset.                                                   *)
RowsOfCommitted ==
    \A a \in DOMAIN files : pc[a] \in {"stored", "aliased", "enrolled"}

VersionsOfRows == \A v \in versions : v.asset \in DOMAIN files

HasCurrent ==
    \A v \in versions : \E w \in VersionsOf(v.asset) : w.isCurrent

(* What a request read of the versions stays true until it commits, except *)
(* that other requests may have added versions after the last it saw.      *)
Snapshot(r) ==
    LET q == req[r] IN
    /\ q.last >= 1 /\ q.current = q.last
    /\ IF q.legacy THEN q.last = 1 ELSE q.last \in NumbersOf(q.asset)

Snapshots == \A r \in Requests : pc[r] \in AfterVersions => Snapshot(r)

Types == TypeOK /\ KnownAssets
Rows == RowsOfCommitted /\ VersionsOfRows
Chain == VersionChain /\ HasCurrent

IInv == Types /\ Rows /\ Chain /\ Snapshots

LEMMA InitIInv == Init => IInv
<1> SUFFICES ASSUME Init PROVE IInv
  OBVIOUS
<1> PICK sent \in [Requests -> MayUpload] :
        req = [r \in Requests |->
                   [path |-> sent[r][1], content |-> sent[r][2],
                    asset |-> r, hash |-> sent[r][2],
                    last |-> 0, current |-> 0,
                    legacy |-> FALSE, archived |-> FALSE]]
  BY DEF Init
<1>1. \A r \in Requests : sent[r][1] \in Paths /\ sent[r][2] \in Contents
  BY InputsAssumption
<1>2. req \in [Requests -> Locals]
  BY <1>1 DEF Locals
<1>3. files = [a \in {} |-> {}] /\ disk = [l \in {} |-> {}]
  BY DEF Init
<1>4. DOMAIN files = {} /\ DOMAIN disk = {}
  BY <1>3
<1>5. pc \in [Requests -> {"idle"}] /\ versions = {} /\ faults = 0
  BY DEF Init
<1>6. TypeOK
  BY <1>2, <1>4, <1>5 DEF TypeOK, IsDisk
<1>7. KnownAssets /\ Snapshots
  BY <1>5 DEF KnownAssets, Snapshots, Referring, AfterVersions
<1>8. Rows /\ Chain
  BY <1>4, <1>5 DEF Rows, Chain, RowsOfCommitted, VersionsOfRows, HasCurrent,
     VersionChain, UniqueNumbers, ContiguousNumbers, CurrentIsLatest
<1> QED
  BY <1>6, <1>7, <1>8 DEF IInv, Types

(***************************************************************************)
(* Lemmas about the operators of the model.                                *)
(***************************************************************************)

(* The three operations on files keep a disk a disk. *)
LEMMA WithoutIsDisk == ASSUME IsDisk(disk), NEW l PROVE IsDisk(Without(l))
  BY DEF IsDisk, Without

LEMMA WithIsDisk ==
    ASSUME IsDisk(disk), NEW l \in Locations, NEW c \in Contents
    PROVE IsDisk(With(l, c))
  BY DEF IsDisk, With

LEMMA MovedIsDisk ==
    ASSUME IsDisk(disk), NEW from, Exists(from), NEW to \in Locations
    PROVE IsDisk(Moved(from, to))
  BY DEF IsDisk, Moved, Exists

LEMMA PlacesAreLocations ==
    /\ \A p \in Paths : Canonical(p) \in Locations
    /\ \A p \in Paths, n \in Nat : Archive(p, n) \in Locations
    /\ \A r \in Requests : Temp(r) \in Locations
  BY DEF Locations, Canonical, Archive, Temp

(* maxVersion is the number of the current version. *)
LEMMA MaxIsCurrent ==
    ASSUME TypeOK, Chain, NEW v \in versions, v.isCurrent
    PROVE MaxNumber(v.asset) = v.number
<1> DEFINE N == NumbersOf(v.asset)
<1>1. N \subseteq Nat
  BY DEF TypeOK, VersionRow, NumbersOf, VersionsOf
<1>2. v.number \in N /\ \A m \in N : m <= v.number
  BY DEF Chain, VersionChain, CurrentIsLatest, NumbersOf, VersionsOf
<1>3. \A n \in N : (\A m \in N : m <= n) => n = v.number
  BY <1>1, <1>2
<1>4. VersionsOf(v.asset) # {}
  BY DEF VersionsOf
<1> HIDE DEF N
<1>5. (CHOOSE n \in N : \A m \in N : m <= n) = v.number
  BY <1>2, <1>3
<1> QED
  BY <1>4, <1>5 DEF MaxNumber, N

(* Without a current version there is no version. *)
LEMMA NoCurrentNoVersion ==
    ASSUME Chain, NEW a, {v \in VersionsOf(a) : v.isCurrent} = {}
    PROVE VersionsOf(a) = {} /\ MaxNumber(a) = 0
  BY DEF Chain, HasCurrent, VersionsOf, MaxNumber

(* What ReadVersions puts in the request's variables. *)
Reads(u, n, l) ==
    /\ req' = [req EXCEPT ![u].last = n, ![u].current = n, ![u].legacy = l]
    /\ n >= 1
    /\ IF l THEN n = 1 ELSE n \in NumbersOf(req[u].asset)

LEMMA ReadVersionsReads ==
    ASSUME IInv, NEW u \in Uploads, ReadVersions(u)
    PROVE \E n \in Nat, l \in BOOLEAN : Reads(u, n, l)
<1> DEFINE a == req[u].asset
           current == {v \in VersionsOf(a) : v.isCurrent}
<1>1. CASE current = {}
  <2>1. MaxNumber(a) = 0
    BY <1>1, NoCurrentNoVersion DEF IInv
  <2>2. req' = [req EXCEPT ![u].last = 1, ![u].current = 1, ![u].legacy = TRUE]
    BY <1>1, <2>1 DEF ReadVersions
  <2>3. Reads(u, 1, TRUE)
    BY <2>2 DEF Reads
  <2> QED
    BY <2>3
<1>2. CASE current # {}
  <2> PICK v \in current :
        req' = [req EXCEPT ![u].last = MaxNumber(a), ![u].current = v.number,
                           ![u].legacy = FALSE]
    BY <1>2 DEF ReadVersions
  <2>1. v \in versions /\ v.asset = a /\ v.isCurrent
    BY DEF VersionsOf
  <2>2. MaxNumber(a) = v.number
    BY <2>1, MaxIsCurrent DEF IInv, Types
  <2>3. v.number \in Nat /\ v.number >= 1
    BY <2>1 DEF IInv, Types, TypeOK, VersionRow, Chain, VersionChain,
       ContiguousNumbers
  <2>4. v.number \in NumbersOf(a)
    BY <2>1 DEF NumbersOf, VersionsOf
  <2>5. Reads(u, v.number, FALSE)
    BY <2>2, <2>3, <2>4 DEF Reads
  <2> QED
    BY <2>3, <2>5
<1> QED
  BY <1>1, <1>2

(***************************************************************************)
(* Most steps move one request forward and touch no table.                 *)
(***************************************************************************)

Committed == {"stored", "aliased", "versioned", "enrolled", "updated"}

Local(r) ==
    /\ files' = files /\ versions' = versions
    /\ pc[r] \in {"idle"} \cup Stages
    /\ \E x \in Stages \cup (Outcomes \ Committed) : pc' = [pc EXCEPT ![r] = x]
    /\ req' \in [Requests -> Locals]
    /\ \A s \in Requests \ {r} : req'[s] = req[s]
    /\ req'[r].path = req[r].path /\ req'[r].content = req[r].content
    /\ pc'[r] \in Referring => req'[r].asset \in DOMAIN files
    /\ pc'[r] \in AfterVersions => Snapshot(r)'
    /\ faults' \in Nat

(* A step that changes only the stage, to one that asks for nothing more   *)
(* than the stage before it.                                               *)
LEMMA StageOnly ==
    ASSUME IInv, NEW r \in Requests, NEW x \in Stages \cup (Outcomes \ Committed),
           files' = files, versions' = versions, req' = req, faults' \in Nat,
           pc[r] \in {"idle"} \cup Stages, pc' = [pc EXCEPT ![r] = x],
           x \in Referring => pc[r] \in Referring,
           x \in AfterVersions => pc[r] \in AfterVersions
    PROVE Local(r)
<1>1. pc'[r] = x
  BY DEF IInv, Types, TypeOK
<1>2. x \in AfterVersions => Snapshot(r)'
  BY DEF IInv, Snapshots, Snapshot, NumbersOf, VersionsOf
<1> QED
  BY <1>1, <1>2 DEF Local, IInv, Types, TypeOK, KnownAssets

(* A step that finds a row, on the way to a stage that will use it. *)
LEMMA FoundAsset ==
    ASSUME IInv, NEW r \in Requests, NEW x \in Stages \cup (Outcomes \ Committed),
           NEW a \in DOMAIN files, NEW h \in {req[r].hash, files[a].hash},
           req' = [req EXCEPT ![r].asset = a, ![r].hash = h]
              \/ req' = [req EXCEPT ![r].asset = a],
           files' = files, versions' = versions, faults' \in Nat,
           pc[r] \in {"idle"} \cup Stages, pc' = [pc EXCEPT ![r] = x],
           x \notin AfterVersions
    PROVE Local(r)
<1>1. a \in Requests /\ files[a].hash \in Contents /\ req \in [Requests -> Locals]
  BY DEF IInv, Types, TypeOK, FileRow
<1>2. h \in Contents
  BY <1>1 DEF Locals
<1>3. /\ req' \in [Requests -> Locals]
      /\ req'[r].asset = a
      /\ req'[r].path = req[r].path /\ req'[r].content = req[r].content
      /\ \A s \in Requests \ {r} : req'[s] = req[s]
  BY <1>1, <1>2 DEF Locals
<1>4. pc'[r] = x
  BY DEF IInv, Types, TypeOK
<1> QED
  BY <1>3, <1>4 DEF Local

(* What the other two assignments to the variables of a request change. *)
LEMMA AfterReads ==
    ASSUME req \in [Requests -> Locals], NEW u \in Requests,
           NEW n \in Nat, NEW l \in BOOLEAN, Reads(u, n, l)
    PROVE /\ req' \in [Requests -> Locals]
          /\ req'[u].asset = req[u].asset
          /\ req'[u].path = req[u].path /\ req'[u].content = req[u].content
          /\ req'[u].last = n /\ req'[u].current = n /\ req'[u].legacy = l
          /\ \A s \in Requests \ {u} : req'[s] = req[s]
<1>1. req' \in [Requests -> Locals]
  BY DEF Reads, Locals
<1>2. /\ req'[u].last = n /\ req'[u].current = n /\ req'[u].legacy = l
      /\ \A s \in Requests \ {u} : req'[s] = req[s]
  BY DEF Reads, Locals
<1>3. /\ req'[u].asset = req[u].asset
      /\ req'[u].path = req[u].path /\ req'[u].content = req[u].content
  BY DEF Reads, Locals
<1> QED
  BY <1>1, <1>2, <1>3

LEMMA AfterShelving ==
    ASSUME req \in [Requests -> Locals], NEW u \in Requests,
           req' = [req EXCEPT ![u].archived = TRUE]
    PROVE /\ req' \in [Requests -> Locals]
          /\ req'[u].asset = req[u].asset
          /\ req'[u].path = req[u].path /\ req'[u].content = req[u].content
          /\ req'[u].last = req[u].last /\ req'[u].current = req[u].current
          /\ req'[u].legacy = req[u].legacy
          /\ \A s \in Requests \ {u} : req'[s] = req[s]
<1>1. req' \in [Requests -> Locals]
  BY DEF Locals
<1>2. \A s \in Requests \ {u} : req'[s] = req[s]
  BY DEF Locals
<1>3. /\ req'[u].asset = req[u].asset
      /\ req'[u].path = req[u].path /\ req'[u].content = req[u].content
  BY DEF Locals
<1>4. /\ req'[u].last = req[u].last /\ req'[u].current = req[u].current
      /\ req'[u].legacy = req[u].legacy
  BY DEF Locals
<1> QED
  BY <1>1, <1>2, <1>3, <1>4

LEMMA AfterHashing ==
    ASSUME req \in [Requests -> Locals], NEW g \in Requests,
           NEW c \in Contents, req' = [req EXCEPT ![g].hash = c]
    PROVE /\ req' \in [Requests -> Locals]
          /\ req'[g].path = req[g].path /\ req'[g].content = req[g].content
          /\ \A s \in Requests \ {g} : req'[s] = req[s]
<1>1. req' \in [Requests -> Locals]
  BY DEF Locals
<1>2. /\ req'[g].path = req[g].path /\ req'[g].content = req[g].content
      /\ \A s \in Requests \ {g} : req'[s] = req[s]
  BY DEF Locals
<1> QED
  BY <1>1, <1>2

(* A handler that ends counts at most a deletion that failed. *)
LEMMA EndsCounted ==
    ASSUME IInv, NEW u, NEW outcome, End(u, outcome)
    PROVE  faults' \in Nat /\ pc' = [pc EXCEPT ![u] = outcome]
  BY DEF IInv, Types, TypeOK, End, SafeDelete, Goto

LEMMA UploadLocal ==
    ASSUME IInv, NEW u \in Uploads, StartUpload(u) \/ UploadStep(u),
           ~CommitAlias(u), ~CommitNew(u), ~CommitVersion(u)
    PROVE Local(u)
<1> u \in Requests
  BY DEF Requests
<1> USE DEF Stages, UploadStages, BeforeVersions, AfterVersions, Outcomes,
            Committed, Referring
<1>0. faults \in Nat /\ pc \in [Requests -> {"idle"} \cup Stages \cup Outcomes]
      /\ req \in [Requests -> Locals]
  BY DEF IInv, Types, TypeOK
<1>1. CASE StartUpload(u)
  BY <1>0, <1>1, StageOnly DEF StartUpload, MayStart, Goto
<1>2. CASE Receive(u)
  BY <1>0, <1>2, StageOnly DEF Receive, Goto
<1>3. CASE Reject(u)
  BY <1>0, <1>3, StageOnly, EndsCounted DEF Reject
<1>4. CASE Place(u)
  BY <1>0, <1>4, StageOnly, EndsCounted DEF Place, MoveOverwrite, Goto
<1>5. CASE ArchiveCurrent(u)
  BY <1>0, <1>5, StageOnly, EndsCounted DEF ArchiveCurrent, MoveOverwrite, Goto
<1>6. CASE Promote(u)
  BY <1>0, <1>6, StageOnly, EndsCounted DEF Promote, MoveOverwrite, Goto
<1>7. CASE ConflictingVersion(u)
  BY <1>0, <1>7, StageOnly, EndsCounted DEF ConflictingVersion
<1>8. CASE LookUpPath(u)
  <2>1. CASE LiveAt(req[u].path) = {}
    BY <1>0, <1>8, <2>1, StageOnly DEF LookUpPath, Goto
  <2>2. CASE LiveAt(req[u].path) # {}
    <3> PICK a \in LiveAt(req[u].path) :
           /\ req' = [req EXCEPT ![u].asset = a, ![u].hash = files[a].hash]
           /\ \E x \in {"duplicate", "replacing"} : pc' = [pc EXCEPT ![u] = x]
           /\ faults' \in Nat
      BY <1>0, <1>8, <2>2, EndsCounted DEF LookUpPath, Goto
    <3> QED
      BY <1>0, <1>8, FoundAsset DEF LookUpPath, LiveAt
  <2> QED
    BY <2>1, <2>2
<1>9. CASE LookUpHash(u)
  <2>1. CASE LiveWith(req[u].content) = {}
    BY <1>0, <1>9, <2>1, StageOnly DEF LookUpHash, Goto
  <2>2. CASE LiveWith(req[u].content) # {}
    <3> PICK a \in LiveWith(req[u].content) :
           req' = [req EXCEPT ![u].asset = a] /\ Goto(u, "aliasing")
      BY <1>9, <2>2 DEF LookUpHash
    <3> QED
      BY <1>0, <1>9, FoundAsset DEF LookUpHash, Goto, LiveWith
  <2> QED
    BY <2>1, <2>2
<1>10. CASE ReadVersions(u)
  <2> PICK n \in Nat, l \in BOOLEAN : Reads(u, n, l)
    BY <1>10, ReadVersionsReads
  <2>1. pc[u] = "replacing" /\ pc' = [pc EXCEPT ![u] = "archiving"]
        /\ files' = files /\ versions' = versions /\ faults' = faults
    BY <1>10 DEF ReadVersions, Goto
  <2>2. req' \in [Requests -> Locals]
        /\ req'[u].asset = req[u].asset
        /\ req'[u].path = req[u].path /\ req'[u].content = req[u].content
        /\ req'[u].last = n /\ req'[u].current = n /\ req'[u].legacy = l
        /\ \A s \in Requests \ {u} : req'[s] = req[s]
    BY <1>0, AfterReads
  <2>3. Snapshot(u)'
    BY <2>1, <2>2 DEF Reads, Snapshot, NumbersOf, VersionsOf
  <2>4. req[u].asset \in DOMAIN files
    BY <2>1 DEF IInv, Types, KnownAssets
  <2>5. pc'[u] \in AfterVersions /\ pc[u] \in Stages
        /\ \E x \in Stages \cup (Outcomes \ Committed) : pc' = [pc EXCEPT ![u] = x]
    BY <1>0, <2>1
  <2> HIDE DEF Stages, UploadStages, BeforeVersions, AfterVersions, Outcomes,
               Committed, Referring
  <2> QED
    BY <1>0, <2>1, <2>2, <2>3, <2>4, <2>5 DEF Local
<1>11. CASE LookAtCanonical(u) /\ ~Exists(Canonical(req[u].path))
  BY <1>0, <1>11, StageOnly DEF LookAtCanonical, Goto
<1>12. CASE LookAtCanonical(u) /\ Exists(Canonical(req[u].path))
  <2>1. pc[u] = "archiving" /\ pc' = [pc EXCEPT ![u] = "shelving"]
        /\ files' = files /\ versions' = versions /\ faults' = faults
        /\ req' = [req EXCEPT ![u].archived = TRUE]
    BY <1>12 DEF LookAtCanonical, Goto
  <2>2. req' \in [Requests -> Locals]
        /\ req'[u].asset = req[u].asset
        /\ req'[u].path = req[u].path /\ req'[u].content = req[u].content
        /\ req'[u].last = req[u].last /\ req'[u].current = req[u].current
        /\ req'[u].legacy = req[u].legacy
        /\ \A s \in Requests \ {u} : req'[s] = req[s]
    BY <1>0, <2>1, AfterShelving
  <2>3. Snapshot(u) /\ req[u].asset \in DOMAIN files
    BY <2>1 DEF IInv, Types, KnownAssets, Snapshots
  <2>4. Snapshot(u)'
    BY <2>1, <2>2, <2>3 DEF Snapshot, NumbersOf, VersionsOf
  <2>5. pc'[u] \in AfterVersions /\ pc[u] \in Stages
        /\ \E x \in Stages \cup (Outcomes \ Committed) : pc' = [pc EXCEPT ![u] = x]
    BY <1>0, <2>1
  <2> HIDE DEF Stages, UploadStages, BeforeVersions, AfterVersions, Outcomes,
               Committed, Referring
  <2> QED
    BY <1>0, <2>1, <2>2, <2>3, <2>4, <2>5 DEF Local
<1> QED
  BY <1>1, <1>2, <1>3, <1>4, <1>5, <1>6, <1>7, <1>8, <1>9, <1>10, <1>11,
     <1>12
  DEF UploadStep

LEMMA RegisterLocal ==
    ASSUME IInv, NEW g \in Registrations,
           ConnectorWrites(g) \/ RegisterStep(g),
           ~CommitEnrolment(g), ~CommitUpdate(g)
    PROVE Local(g)
<1> g \in Requests
  BY DEF Requests
<1> USE DEF Stages, RegisterStages, AfterVersions, Outcomes, Committed, Referring
<1>0. faults \in Nat /\ pc \in [Requests -> {"idle"} \cup Stages \cup Outcomes]
      /\ req \in [Requests -> Locals] /\ IsDisk(disk)
  BY DEF IInv, Types, TypeOK
<1>1. CASE ConnectorWrites(g)
  BY <1>0, <1>1, StageOnly DEF ConnectorWrites, MayStart, Goto
<1>2. CASE LookUpRow(g) /\ LiveAt(req[g].path) = {}
  BY <1>0, <1>2, StageOnly DEF LookUpRow, Goto
<1>3. CASE LookUpRow(g) /\ LiveAt(req[g].path) # {}
  <2> PICK a \in LiveAt(req[g].path) :
         /\ req' = [req EXCEPT ![g].asset = a]
         /\ \E x \in {"unchanged", "updating"} : pc' = [pc EXCEPT ![g] = x]
    BY <1>3 DEF LookUpRow, Goto
  <2> QED
    BY <1>0, <1>3, FoundAsset DEF LookUpRow, LiveAt
<1>4. CASE HashFile(g) /\ ~Exists(Canonical(req[g].path))
  BY <1>0, <1>4, StageOnly DEF HashFile, Goto
<1>5. CASE HashFile(g) /\ Exists(Canonical(req[g].path))
  <2>1. disk[Canonical(req[g].path)] \in Contents
    BY <1>0, <1>5 DEF IsDisk, Exists
  <2>2. /\ req' = [req EXCEPT ![g].hash = disk[Canonical(req[g].path)]]
        /\ files' = files /\ versions' = versions /\ faults' = faults
        /\ pc[g] = "registering" /\ pc' = [pc EXCEPT ![g] = "hashed"]
    BY <1>5 DEF HashFile, Goto
  <2>3. /\ req' \in [Requests -> Locals]
        /\ req'[g].path = req[g].path /\ req'[g].content = req[g].content
        /\ \A s \in Requests \ {g} : req'[s] = req[s]
    BY <1>0, <2>1, <2>2, AfterHashing
  <2>4. pc'[g] = "hashed"
    BY <1>0, <2>2
  <2> QED
    BY <1>0, <2>2, <2>3, <2>4 DEF Local
<1> QED
  BY <1>1, <1>2, <1>3, <1>4, <1>5 DEF RegisterStep

LEMMA FaultLocal ==
    ASSUME IInv, NEW r \in Requests, Throw(r) \/ Crash(r)
    PROVE Local(r)
<1> USE DEF Outcomes, Committed, Referring, AfterVersions
<1>1. pc[r] \in Stages /\ faults' \in Nat
      /\ files' = files /\ versions' = versions /\ req' = req
  BY DEF Throw, Crash, Active, IInv, Types, TypeOK
<1>2. \E x \in {"failed", "crashed"} : pc' = [pc EXCEPT ![r] = x]
  BY DEF Throw, Crash, Goto
<1> QED
  BY <1>1, <1>2, StageOnly

(* What else a step may be. *)
LEMMA Classified ==
    ASSUME IInv, Next
    PROVE \/ \E r \in Requests : Local(r)
          \/ \E u \in Uploads : CommitAlias(u) \/ CommitNew(u) \/ CommitVersion(u)
          \/ \E g \in Registrations : CommitEnrolment(g) \/ CommitUpdate(g)
          \/ \E a \in DOMAIN files : SoftDelete(a)
          \/ CleanupTemp
<1>1. ASSUME NEW u \in Uploads, StartUpload(u) \/ UploadStep(u)
      PROVE Local(u) \/ CommitAlias(u) \/ CommitNew(u) \/ CommitVersion(u)
  BY <1>1, UploadLocal
<1>2. ASSUME NEW g \in Registrations, ConnectorWrites(g) \/ RegisterStep(g)
      PROVE Local(g) \/ CommitEnrolment(g) \/ CommitUpdate(g)
  BY <1>2, RegisterLocal
<1>3. Uploads \subseteq Requests /\ Registrations \subseteq Requests
  BY DEF Requests
<1>4. CASE \E u \in Uploads : StartUpload(u) \/ UploadStep(u)
  BY <1>1, <1>3, <1>4
<1>5. CASE \E g \in Registrations : ConnectorWrites(g) \/ RegisterStep(g)
  BY <1>2, <1>3, <1>5
<1>6. CASE \E r \in Requests : Throw(r) \/ Crash(r)
  BY <1>6, FaultLocal
<1> QED
  BY <1>4, <1>5, <1>6 DEF Next

(***************************************************************************)
(* The step that matters: a new version is committed.                      *)
(***************************************************************************)

(* The unique index acts as an optimistic lock.  Numbers have no gap, so   *)
(* if last + 1 is free then nothing was added since the rows were read.    *)
LEMMA SnapshotIsCurrent ==
    ASSUME IInv, NEW u \in Uploads, pc[u] = "committing",
           UniqueIndexAllows(InsertedRows(u))
    PROVE LET q == req[u] IN
          /\ q.asset \in DOMAIN files /\ q.asset \in Requests
          /\ q.last \in Nat /\ q.last >= 1 /\ q.current = q.last
          /\ q.hash \in Contents /\ q.content \in Contents
          /\ q.archived \in BOOLEAN /\ q.legacy \in BOOLEAN
          /\ \A v \in versions : v.asset = q.asset => v.number <= q.last
          /\ q.legacy => q.last = 1 /\ VersionsOf(q.asset) = {}
          /\ ~q.legacy => q.last \in NumbersOf(q.asset)
<1> DEFINE q == req[u]
<1> u \in Requests
  BY DEF Requests
<1>1. q \in Locals
  BY DEF IInv, Types, TypeOK
<1>2. q.asset \in DOMAIN files /\ Snapshot(u)
  BY DEF IInv, Types, KnownAssets, Snapshots, Referring, AfterVersions
<1>3. q.asset \in Requests /\ q.last \in Nat /\ q.hash \in Contents
      /\ q.content \in Contents /\ q.archived \in BOOLEAN /\ q.legacy \in BOOLEAN
  BY <1>1 DEF Locals
<1>4. q.last >= 1 /\ q.current = q.last
      /\ IF q.legacy THEN q.last = 1 ELSE q.last \in NumbersOf(q.asset)
  BY <1>2 DEF Snapshot
<1>5. \A m \in Nat, v \in versions :
         v.asset = q.asset /\ 1 <= m /\ m <= v.number => m \in NumbersOf(q.asset)
  <2>1. \A v \in versions : v.number \in Nat
    BY DEF IInv, Types, TypeOK, VersionRow
  <2>2. \A v \in versions : \A m \in 1 .. v.number :
           \E w \in versions : w.asset = v.asset /\ w.number = m
    BY DEF IInv, Chain, VersionChain, ContiguousNumbers
  <2> QED
    BY <2>1, <2>2 DEF NumbersOf, VersionsOf
<1>6. q.last + 1 \notin NumbersOf(q.asset)
  <2>1. [asset |-> q.asset, number |-> q.last + 1, hash |-> q.content,
         archived |-> FALSE, isCurrent |-> TRUE] \in InsertedRows(u)
    BY DEF InsertedRows
  <2> QED
    BY <2>1 DEF UniqueIndexAllows
<1>7. \A v \in versions : v.number \in Nat /\ v.number >= 1
  BY DEF IInv, Types, TypeOK, VersionRow, Chain, VersionChain, ContiguousNumbers
<1>8. \A v \in versions : v.asset = q.asset => v.number <= q.last
  BY <1>3, <1>5, <1>6, <1>7
<1>9. q.legacy => q.last = 1 /\ VersionsOf(q.asset) = {}
  <2> SUFFICES ASSUME q.legacy PROVE q.last = 1 /\ VersionsOf(q.asset) = {}
    OBVIOUS
  <2>1. [asset |-> q.asset, number |-> q.last, hash |-> q.hash,
         archived |-> q.archived, isCurrent |-> FALSE] \in InsertedRows(u)
    BY DEF InsertedRows
  <2>2. q.last \notin NumbersOf(q.asset) /\ q.last = 1
    BY <1>4, <2>1 DEF UniqueIndexAllows
  <2>3. \A v \in versions : v.asset # q.asset
    BY <1>5, <1>7, <2>2
  <2> QED
    BY <2>2, <2>3 DEF VersionsOf
<1> QED
  BY <1>2, <1>3, <1>4, <1>8, <1>9

(* The rows of the other assets are as before. *)
LEMMA OtherAssetsUntouched ==
    ASSUME IInv, NEW u \in Uploads, CommitVersion(u)
    PROVE /\ \A v \in versions : v.asset # req[u].asset => v \in versions'
          /\ \A v \in versions' : v.asset # req[u].asset => v \in versions
<1>1. versions' = Retired(u) \cup InsertedRows(u)
  BY DEF CommitVersion
<1>2. \A w \in InsertedRows(u) : w.asset = req[u].asset
  BY DEF InsertedRows
<1>3. \A w \in versions : w.asset # req[u].asset => w \in Retired(u)
  BY DEF Retired
<1>4. \A w \in Retired(u) : w.asset # req[u].asset => w \in versions
  <2> SUFFICES ASSUME NEW w \in Retired(u), w.asset # req[u].asset
               PROVE  w \in versions
    OBVIOUS
  <2> PICK x \in versions :
        w = IF x.asset = req[u].asset /\ x.number = req[u].current
                /\ ~req[u].legacy
            THEN [x EXCEPT !.isCurrent = FALSE, !.archived = @ \/ req[u].archived]
            ELSE x
    BY DEF Retired
  <2>1. x \in VersionRow
    BY DEF IInv, Types, TypeOK
  <2> QED
    BY <2>1 DEF VersionRow
<1> QED
  BY <1>1, <1>2, <1>3, <1>4

(* Of the asset itself every version keeps its number and hash, none stays *)
(* current, and the only rows without a predecessor are the inserted ones. *)
Successor(v, w) ==
    /\ w.asset = v.asset /\ w.number = v.number /\ w.hash = v.hash

LEMMA RowsAreKept ==
    ASSUME IInv, NEW u \in Uploads, CommitVersion(u)
    PROVE /\ \A v \in versions :
                \E w \in versions' : Successor(v, w) /\ (w.isCurrent => v.isCurrent)
          /\ \A w \in versions' :
                \/ w \in InsertedRows(u)
                \/ /\ \E v \in versions : Successor(v, w)
                   /\ w \in VersionRow
                   /\ w.asset = req[u].asset => ~w.isCurrent
<1> DEFINE q == req[u]
           Touched(v) == v.asset = q.asset /\ v.number = q.current /\ ~q.legacy
           Update(v) == [v EXCEPT !.isCurrent = FALSE,
                                  !.archived = @ \/ q.archived]
<1>1. pc[u] = "committing" /\ UniqueIndexAllows(InsertedRows(u))
      /\ versions' = Retired(u) \cup InsertedRows(u)
  BY DEF CommitVersion
<1>2. Retired(u) = {IF Touched(v) THEN Update(v) ELSE v : v \in versions}
  BY DEF Retired
<1>3. \A v \in versions : v \in VersionRow
  BY DEF IInv, Types, TypeOK
<1>4. q.archived \in BOOLEAN
  BY <1>1, SnapshotIsCurrent
<1>5. \A v \in versions :
         /\ Update(v) \in VersionRow /\ Successor(v, Update(v))
         /\ ~Update(v).isCurrent
  BY <1>3, <1>4 DEF VersionRow, Successor
<1>6. \A v \in versions : Successor(v, v)
  BY DEF Successor
<1>7. \A v \in versions : v.asset = q.asset /\ ~Touched(v) => ~v.isCurrent
  <2> SUFFICES ASSUME NEW v \in versions, v.asset = q.asset, ~Touched(v)
               PROVE  ~v.isCurrent
    OBVIOUS
  <2>1. ~q.legacy /\ v.number # q.current
    BY <1>1, SnapshotIsCurrent DEF VersionsOf
  <2> PICK w \in versions : w.asset = q.asset /\ w.number = q.last
    BY <1>1, <2>1, SnapshotIsCurrent DEF NumbersOf, VersionsOf
  <2>2. v.number \in Nat /\ q.last \in Nat /\ v.number <= q.last
        /\ q.current = q.last
    BY <1>1, <1>3, SnapshotIsCurrent DEF VersionRow
  <2>3. ~(w.number <= v.number)
    BY <2>1, <2>2
  <2> QED
    BY <2>3 DEF IInv, Chain, VersionChain, CurrentIsLatest, VersionsOf
<1> HIDE DEF Touched, Update
<1>8. \A v \in versions :
         \E w \in versions' : Successor(v, w) /\ (w.isCurrent => v.isCurrent)
  <2> SUFFICES ASSUME NEW v \in versions
               PROVE  \E w \in versions' :
                         Successor(v, w) /\ (w.isCurrent => v.isCurrent)
    OBVIOUS
  <2>1. CASE Touched(v)
    BY <1>1, <1>2, <1>5, <2>1
  <2>2. CASE ~Touched(v)
    BY <1>1, <1>2, <1>6, <2>2
  <2> QED
    BY <2>1, <2>2
<1>9. ASSUME NEW w \in Retired(u)
      PROVE  /\ \E v \in versions : Successor(v, w)
             /\ w \in VersionRow
             /\ w.asset = q.asset => ~w.isCurrent
  <2> PICK v \in versions : w = IF Touched(v) THEN Update(v) ELSE v
    BY <1>2
  <2>1. CASE Touched(v)
    BY <1>5, <2>1
  <2>2. CASE ~Touched(v)
    BY <1>3, <1>6, <1>7, <2>2
  <2> QED
    BY <2>1, <2>2
<1> QED
  BY <1>1, <1>8, <1>9

(* The update of the retired row makes no two rows of different ones. *)
LEMMA KeptRowsAreUnique ==
    ASSUME IInv, NEW u \in Uploads, CommitVersion(u),
           NEW v \in versions', v \notin InsertedRows(u),
           NEW w \in versions', w \notin InsertedRows(u),
           v.asset = w.asset, v.number = w.number
    PROVE v = w
<1> DEFINE q == req[u]
           Image(x) ==
              IF x.asset = q.asset /\ x.number = q.current /\ ~q.legacy
              THEN [x EXCEPT !.isCurrent = FALSE, !.archived = @ \/ q.archived]
              ELSE x
<1>1. \A x \in versions : x \in VersionRow
  BY DEF IInv, Types, TypeOK
<1>2. \A x \in versions : Image(x).asset = x.asset /\ Image(x).number = x.number
  BY <1>1 DEF VersionRow
<1>3. v \in Retired(u) /\ w \in Retired(u)
  BY DEF CommitVersion
<1>4. Retired(u) = {Image(x) : x \in versions}
  BY DEF Retired
<1> HIDE DEF Image
<1>5. PICK x \in versions, y \in versions : v = Image(x) /\ w = Image(y)
  BY <1>3, <1>4
<1>6. x.asset = y.asset /\ x.number = y.number
  BY <1>2, <1>5
<1>7. x = y
  BY <1>6 DEF IInv, Chain, VersionChain, UniqueNumbers
<1> QED
  BY <1>5, <1>7

(* So the history of the asset is extended, and by nothing else than the   *)
(* content of the upload, after the content the asset had if it had none.  *)
LEMMA HistoryExtended ==
    ASSUME IInv, NEW u \in Uploads, CommitVersion(u)
    PROVE LET q == req[u]
              Of(v) == v.asset = q.asset IN
          /\ \A v \in versions' : v \in VersionRow
          /\ \A v \in versions' : Of(v) =>
                /\ v.number >= 1 /\ v.number <= q.last + 1
                /\ v.isCurrent <=> v.number = q.last + 1
                /\ v.isCurrent => v.hash = q.content
          /\ \A v, w \in versions' : Of(v) /\ Of(w) /\ v.number = w.number => v = w
          /\ \A n \in 1 .. q.last + 1 : \E v \in versions' : Of(v) /\ v.number = n
<1> DEFINE q == req[u]
           a == q.asset
           New == [asset |-> a, number |-> q.last + 1, hash |-> q.content,
                   archived |-> FALSE, isCurrent |-> TRUE]
           Old == [asset |-> a, number |-> q.last, hash |-> q.hash,
                   archived |-> q.archived, isCurrent |-> FALSE]
<1>1. pc[u] = "committing" /\ UniqueIndexAllows(InsertedRows(u))
      /\ versions' = Retired(u) \cup InsertedRows(u)
  BY DEF CommitVersion
<1>2. /\ a \in Requests /\ q.last \in Nat /\ q.last >= 1
      /\ q.hash \in Contents /\ q.content \in Contents
      /\ q.archived \in BOOLEAN /\ q.legacy \in BOOLEAN
  BY <1>1, SnapshotIsCurrent
<1>3. New \in VersionRow /\ Old \in VersionRow
  BY <1>2 DEF VersionRow
<1>4. /\ InsertedRows(u) = {New} \cup IF q.legacy THEN {Old} ELSE {}
      /\ New \in versions'
      /\ q.legacy => Old \in versions'
  BY <1>1 DEF InsertedRows
<1>5. /\ New.asset = a /\ New.number = q.last + 1 /\ New.hash = q.content
      /\ New.isCurrent
      /\ Old.asset = a /\ Old.number = q.last /\ ~Old.isCurrent
  OBVIOUS
<1> HIDE DEF New, Old
<1>6. ASSUME NEW w \in versions', w.asset = a, w \notin InsertedRows(u)
      PROVE  /\ w \in VersionRow /\ ~w.isCurrent
             /\ w.number >= 1 /\ w.number <= q.last
             /\ \E v \in versions : Successor(v, w)
             /\ ~q.legacy
  <2>1. PICK v \in versions : Successor(v, w)
    BY <1>6, RowsAreKept
  <2>2. v.asset = a /\ v.number = w.number /\ v.number >= 1
    BY <1>6, <2>1 DEF Successor, IInv, Chain, VersionChain, ContiguousNumbers
  <2>3. v.number <= q.last
    BY <1>1, <2>2, SnapshotIsCurrent
  <2>4. ~q.legacy
    BY <1>1, <2>2, SnapshotIsCurrent DEF VersionsOf
  <2> QED
    BY <1>6, <2>2, <2>3, <2>4, RowsAreKept
<1>7. \A v \in versions' : v \in VersionRow
  BY <1>3, <1>4, RowsAreKept
<1>8. \A v \in versions' : v.asset = a =>
         /\ v.number >= 1 /\ v.number <= q.last + 1
         /\ v.isCurrent <=> v.number = q.last + 1
         /\ v.isCurrent => v.hash = q.content
  <2> SUFFICES ASSUME NEW v \in versions', v.asset = a
               PROVE  /\ v.number >= 1 /\ v.number <= q.last + 1
                      /\ v.isCurrent <=> v.number = q.last + 1
                      /\ v.isCurrent => v.hash = q.content
    OBVIOUS
  <2>1. v.number \in Nat
    BY <1>7 DEF VersionRow
  <2>2. CASE v \notin InsertedRows(u)
    BY <1>2, <1>6, <2>1, <2>2
  <2>3. CASE v = New
    BY <1>2, <1>5, <2>3
  <2>4. CASE v = Old
    BY <1>2, <1>5, <2>4
  <2> QED
    BY <1>4, <2>2, <2>3, <2>4
<1>9. \A v, w \in versions' :
         v.asset = a /\ w.asset = a /\ v.number = w.number => v = w
  <2> SUFFICES ASSUME NEW v \in versions', NEW w \in versions',
                      v.asset = a, w.asset = a, v.number = w.number
               PROVE  v = w
    OBVIOUS
  <2>1. CASE v \in InsertedRows(u) /\ w \in InsertedRows(u)
    BY <1>2, <1>4, <1>5, <2>1
  <2>2. CASE v \in InsertedRows(u) /\ w \notin InsertedRows(u)
    BY <1>2, <1>4, <1>5, <1>6, <2>2
  <2>3. CASE v \notin InsertedRows(u) /\ w \in InsertedRows(u)
    BY <1>2, <1>4, <1>5, <1>6, <2>3
  <2>4. CASE v \notin InsertedRows(u) /\ w \notin InsertedRows(u)
    BY <1>1, <2>4, KeptRowsAreUnique
  <2> QED
    BY <2>1, <2>2, <2>3, <2>4
<1>10. \A n \in 1 .. q.last + 1 : \E v \in versions' : v.asset = a /\ v.number = n
  <2> SUFFICES ASSUME NEW n \in 1 .. q.last + 1
               PROVE  \E v \in versions' : v.asset = a /\ v.number = n
    OBVIOUS
  <2>1. CASE n = q.last + 1
    BY <1>4, <1>5, <2>1
  <2>2. CASE n <= q.last /\ q.legacy
    <3>1. n = q.last
      BY <1>1, <1>2, <2>2, SnapshotIsCurrent
    <3> QED
      BY <1>4, <1>5, <2>2, <3>1
  <2>3. CASE n <= q.last /\ ~q.legacy
    <3>1. PICK x \in versions : x.asset = a /\ x.number = q.last
      BY <1>1, <2>3, SnapshotIsCurrent DEF NumbersOf, VersionsOf
    <3>2. n \in 1 .. x.number
      BY <1>2, <2>3, <3>1
    <3>3. PICK v \in versions : v.asset = a /\ v.number = n
      BY <3>1, <3>2 DEF IInv, Chain, VersionChain, ContiguousNumbers
    <3> QED
      BY <3>3, RowsAreKept DEF Successor
  <2> QED
    BY <1>2, <2>1, <2>2, <2>3
<1> QED
  BY <1>7, <1>8, <1>9, <1>10

(***************************************************************************)
(* The invariant is inductive.                                             *)
(***************************************************************************)

LEMMA DiskStep == ASSUME IInv, Next PROVE IsDisk(disk')
<1>1. /\ IsDisk(disk) /\ req \in [Requests -> Locals]
      /\ Uploads \subseteq Requests /\ Registrations \subseteq Requests
  BY DEF IInv, Types, TypeOK, Requests
<1>2. \A r \in Requests : /\ req[r].path \in Paths /\ req[r].content \in Contents
                          /\ req[r].current \in Nat
  BY <1>1 DEF Locals
<1>3. \A r \in Requests : /\ Canonical(req[r].path) \in Locations
                          /\ Shelf(r) \in Locations
                          /\ Temp(r) \in Locations
  BY <1>2, PlacesAreLocations DEF Shelf
<1>4. CASE disk' = disk
  BY <1>1, <1>4
<1>5. CASE \E l : disk' = Without(l)
  BY <1>1, <1>5, WithoutIsDisk
<1>6. CASE \E r \in Requests :
              \/ disk' = With(Temp(r), req[r].content)
              \/ disk' = With(Canonical(req[r].path), req[r].content)
  BY <1>1, <1>2, <1>3, <1>6, WithIsDisk
<1>7. CASE \E r \in Requests : \E from :
              /\ Exists(from)
              /\ disk' = Moved(from, Canonical(req[r].path))
                    \/ disk' = Moved(from, Shelf(r))
  BY <1>1, <1>3, <1>7, MovedIsDisk
<1>8. ASSUME NEW u \in Uploads, StartUpload(u) \/ UploadStep(u)
      PROVE  IsDisk(disk')
  <2>1. CASE StartUpload(u)
    BY <1>1, <1>6, <2>1 DEF StartUpload
  <2>2. CASE Receive(u) \/ LookUpHash(u) \/ ReadVersions(u)
             \/ LookAtCanonical(u)
    BY <1>4, <2>2 DEF Receive, LookUpHash, ReadVersions, LookAtCanonical
  <2>3. CASE Reject(u) \/ LookUpPath(u) \/ CommitAlias(u) \/ CommitNew(u)
             \/ CommitVersion(u) \/ ConflictingVersion(u)
    BY <1>4, <1>5, <2>3 DEF Reject, LookUpPath, CommitAlias, CommitNew,
       CommitVersion, ConflictingVersion, End, SafeDelete
  <2>4. CASE Place(u) \/ ArchiveCurrent(u) \/ Promote(u)
    BY <1>1, <1>5, <1>7, <2>4
    DEF Place, ArchiveCurrent, Promote, MoveOverwrite, End, SafeDelete
  <2> QED
    BY <1>8, <2>1, <2>2, <2>3, <2>4 DEF UploadStep
<1>9. ASSUME NEW g \in Registrations, ConnectorWrites(g) \/ RegisterStep(g)
      PROVE  IsDisk(disk')
  <2>1. CASE ConnectorWrites(g)
    BY <1>1, <1>6, <2>1 DEF ConnectorWrites
  <2>2. CASE RegisterStep(g)
    BY <1>4, <2>2 DEF RegisterStep, HashFile, LookUpRow, CommitEnrolment,
       CommitUpdate
  <2> QED
    BY <1>9, <2>1, <2>2
<1>10. ASSUME NEW a \in DOMAIN files, SoftDelete(a) PROVE IsDisk(disk')
  BY <1>4, <1>10 DEF SoftDelete
<1>11. CASE CleanupTemp
  BY <1>5, <1>11 DEF CleanupTemp
<1>12. ASSUME NEW r \in Requests, Throw(r) \/ Crash(r) PROVE IsDisk(disk')
  BY <1>4, <1>5, <1>12 DEF Throw, Crash
<1> QED
  BY <1>8, <1>9, <1>10, <1>11, <1>12 DEF Next

LEMMA LocalKeepsIInv ==
    ASSUME IInv, NEW r \in Requests, Local(r), IsDisk(disk')
    PROVE IInv'
<1> USE DEF Local
<1>1. PICK x \in Stages \cup (Outcomes \ Committed) : pc' = [pc EXCEPT ![r] = x]
  OBVIOUS
<1>2. /\ pc' \in [Requests -> {"idle"} \cup Stages \cup Outcomes]
      /\ pc'[r] = x /\ \A s \in Requests \ {r} : pc'[s] = pc[s]
  BY <1>1 DEF IInv, Types, TypeOK
<1>3. TypeOK'
  BY <1>2 DEF IInv, Types, TypeOK
<1>4. KnownAssets'
  BY <1>2 DEF IInv, Types, KnownAssets
<1>5. RowsOfCommitted'
  <2>1. pc[r] \notin {"stored", "aliased", "enrolled"}
    BY DEF Stages, UploadStages, BeforeVersions, AfterVersions, RegisterStages
  <2> QED
    BY <1>2, <2>1 DEF IInv, Types, TypeOK, Rows, RowsOfCommitted
<1>6. VersionsOfRows' /\ Chain'
  BY DEF IInv, Rows, Chain, VersionsOfRows, VersionChain, UniqueNumbers,
     ContiguousNumbers, CurrentIsLatest, HasCurrent, VersionsOf
<1>7. Snapshots'
  <2> SUFFICES ASSUME NEW s \in Requests, pc'[s] \in AfterVersions
               PROVE  Snapshot(s)'
    BY DEF Snapshots
  <2>1. CASE s = r
    BY <2>1
  <2>2. CASE s # r
    BY <1>2, <2>2 DEF IInv, Snapshots, Snapshot, NumbersOf, VersionsOf
  <2> QED
    BY <2>1, <2>2
<1> QED
  BY <1>3, <1>4, <1>5, <1>6, <1>7 DEF IInv, Types, Rows

(* A step that ends a request and writes the tables: what the requests     *)
(* have read is still true if rows are only added and numbers only grow.   *)
LEMMA CommitKeepsIInv ==
    ASSUME IInv, NEW r \in Requests, NEW x \in Outcomes,
           pc[r] \in Stages, pc' = [pc EXCEPT ![r] = x],
           x \in Referring => pc[r] \in Referring,
           req' = req, faults' \in Nat, IsDisk(disk'),
           DOMAIN files \subseteq DOMAIN files', DOMAIN files' \subseteq Requests,
           \A a \in DOMAIN files' : files'[a] \in FileRow,
           \A a \in DOMAIN files' \ DOMAIN files :
              a = r /\ x \in {"stored", "aliased", "enrolled"},
           versions' \subseteq VersionRow, VersionsOfRows', Chain',
           \A v \in versions : \E w \in versions' : Successor(v, w)
    PROVE IInv'
<1>1. /\ pc' \in [Requests -> {"idle"} \cup Stages \cup Outcomes]
      /\ pc'[r] = x /\ \A s \in Requests \ {r} : pc'[s] = pc[s]
  BY DEF IInv, Types, TypeOK
<1>2. TypeOK'
  BY <1>1 DEF IInv, Types, TypeOK
<1>3. KnownAssets'
  BY <1>1 DEF IInv, Types, KnownAssets
<1>4. RowsOfCommitted'
  <2>1. pc[r] \notin {"stored", "aliased", "enrolled"}
    BY DEF Stages, UploadStages, BeforeVersions, AfterVersions, RegisterStages
  <2> QED
    BY <1>1, <2>1 DEF IInv, Types, TypeOK, Rows, RowsOfCommitted
<1>5. Snapshots'
  <2> SUFFICES ASSUME NEW s \in Requests, pc'[s] \in AfterVersions
               PROVE  Snapshot(s)'
    BY DEF Snapshots
  <2>1. s # r
    BY <1>1 DEF Outcomes, AfterVersions
  <2>2. Snapshot(s)
    BY <1>1, <2>1 DEF IInv, Snapshots
  <2>3. \A a, n : n \in NumbersOf(a) => n \in NumbersOf(a)'
    BY DEF NumbersOf, VersionsOf, Successor
  <2> QED
    BY <2>2, <2>3 DEF Snapshot
<1> QED
  BY <1>2, <1>3, <1>4, <1>5 DEF IInv, Types, Rows

LEMMA InsertAddsRow ==
    ASSUME TypeOK, NEW r \in Requests, r \notin DOMAIN files,
           NEW p \in Paths, NEW h \in Contents, Insert(r, p, h)
    PROVE /\ DOMAIN files \subseteq DOMAIN files'
          /\ DOMAIN files' \subseteq Requests /\ r \in DOMAIN files'
          /\ \A a \in DOMAIN files' \ DOMAIN files : a = r
          /\ \A a \in DOMAIN files' : files'[a] \in FileRow
          /\ \A a \in DOMAIN files : files'[a] = files[a]
          /\ files'[r].hash = h
  BY DEF Insert, TypeOK, FileRow

(* A request that is still running has inserted no row. *)
LEMMA NoRowYet ==
    ASSUME IInv, NEW r \in Requests, pc[r] \in Stages
    PROVE r \notin DOMAIN files /\ \A v \in versions : v.asset # r
<1>1. pc[r] \notin {"stored", "aliased", "enrolled"}
  BY DEF Stages, UploadStages, BeforeVersions, AfterVersions, RegisterStages
<1> QED
  BY <1>1 DEF IInv, Rows, RowsOfCommitted, VersionsOfRows

LEMMA UnchangedVersions ==
    ASSUME IInv, versions' = versions, DOMAIN files \subseteq DOMAIN files'
    PROVE /\ versions' \subseteq VersionRow /\ VersionsOfRows' /\ Chain'
          /\ \A v \in versions : \E w \in versions' : Successor(v, w)
  BY DEF IInv, Types, TypeOK, Rows, Chain, VersionsOfRows, VersionChain,
     UniqueNumbers, ContiguousNumbers, CurrentIsLatest, HasCurrent, VersionsOf,
     Successor

LEMMA InsertKeepsIInv ==
    ASSUME IInv, IsDisk(disk'), NEW r \in Requests,
           \/ r \in Uploads /\ CommitAlias(r)
           \/ r \in Registrations /\ CommitEnrolment(r)
    PROVE IInv'
<1>1. /\ versions' = versions /\ req' = req /\ pc[r] \in Stages
  BY DEF CommitAlias, CommitEnrolment, Stages, UploadStages, BeforeVersions,
     RegisterStages
<1>2. \E x \in {"aliased", "enrolled"} : pc' = [pc EXCEPT ![r] = x]
  BY DEF CommitAlias, CommitEnrolment, End, Goto
<1>3. \E p \in Paths, h \in Contents : Insert(r, p, h)
  <2>1. req[r].path \in Paths /\ req[r].hash \in Contents
        /\ req[r].content \in Contents
    BY DEF IInv, Types, TypeOK, Locals
  <2>2. CASE CommitAlias(r)
    <3>1. pc[r] \in Referring
      BY <2>2 DEF CommitAlias, Referring
    <3>2. files[req[r].asset].path \in Paths
      BY <3>1 DEF IInv, Types, TypeOK, KnownAssets, FileRow
    <3> QED
      BY <2>1, <2>2, <3>2 DEF CommitAlias
  <2>3. CASE CommitEnrolment(r)
    BY <2>1, <2>3 DEF CommitEnrolment
  <2> QED
    BY <2>2, <2>3
<1>4. r \notin DOMAIN files
  BY <1>1, NoRowYet
<1>5. /\ DOMAIN files \subseteq DOMAIN files' /\ DOMAIN files' \subseteq Requests
      /\ \A a \in DOMAIN files' \ DOMAIN files : a = r
      /\ \A a \in DOMAIN files' : files'[a] \in FileRow
  BY <1>3, <1>4, InsertAddsRow DEF IInv, Types
<1>6. PICK x \in {"aliased", "enrolled"} : pc' = [pc EXCEPT ![r] = x]
  BY <1>2
<1>7. x \in Outcomes /\ x \notin Referring
  BY DEF Outcomes, Referring, AfterVersions
<1>8. faults' \in Nat
  BY EndsCounted DEF CommitAlias, CommitEnrolment, IInv, Types, TypeOK
<1> QED
  BY <1>1, <1>5, <1>6, <1>7, <1>8, UnchangedVersions, CommitKeepsIInv

LEMMA CommitNewKeepsIInv ==
    ASSUME IInv, IsDisk(disk'), NEW u \in Uploads, CommitNew(u)
    PROVE IInv'
<1> DEFINE First == [asset |-> u, number |-> 1, hash |-> req[u].content,
                     archived |-> FALSE, isCurrent |-> TRUE]
<1>1. /\ u \in Requests /\ pc[u] \in Stages /\ req' = req /\ faults' \in Nat
      /\ pc' = [pc EXCEPT ![u] = "stored"]
      /\ versions' = versions \cup {First}
      /\ Insert(u, req[u].path, req[u].content)
  BY EndsCounted DEF CommitNew, Requests, Stages, UploadStages, BeforeVersions
<1>2. req[u].path \in Paths /\ req[u].content \in Contents
  BY <1>1 DEF IInv, Types, TypeOK, Locals
<1>3. u \notin DOMAIN files /\ \A v \in versions : v.asset # u
  BY <1>1, NoRowYet
<1>4. /\ DOMAIN files \subseteq DOMAIN files' /\ DOMAIN files' \subseteq Requests
      /\ u \in DOMAIN files'
      /\ \A a \in DOMAIN files' \ DOMAIN files : a = u
      /\ \A a \in DOMAIN files' : files'[a] \in FileRow
  BY <1>1, <1>2, <1>3, InsertAddsRow DEF IInv, Types
<1>5. First \in VersionRow /\ First.asset = u /\ First.number = 1
      /\ First.isCurrent
  BY <1>1, <1>2 DEF VersionRow
<1> HIDE DEF First
<1>6. versions' \subseteq VersionRow /\ VersionsOfRows'
      /\ \A v \in versions : \E w \in versions' : Successor(v, w)
  BY <1>1, <1>4, <1>5 DEF IInv, Types, TypeOK, Rows, VersionsOfRows, Successor
<1>7. UniqueNumbers'
  BY <1>1, <1>3, <1>5 DEF IInv, Chain, VersionChain, UniqueNumbers
<1>8. ContiguousNumbers'
  <2>1. \A n \in 1 .. First.number : n = First.number
    BY <1>5
  <2> QED
    BY <1>1, <1>5, <2>1 DEF IInv, Chain, VersionChain, ContiguousNumbers
<1>9. CurrentIsLatest'
  <2>1. VersionsOf(u)' = {First}
    BY <1>1, <1>3, <1>5 DEF VersionsOf
  <2>2. \A v \in versions : VersionsOf(v.asset)' = VersionsOf(v.asset)
    BY <1>1, <1>3, <1>5 DEF VersionsOf
  <2> QED
    BY <1>1, <1>5, <2>1, <2>2 DEF IInv, Chain, VersionChain, CurrentIsLatest
<1>10. HasCurrent'
  BY <1>1, <1>5 DEF IInv, Chain, HasCurrent, VersionsOf
<1>11. "stored" \in Outcomes /\ "stored" \notin Referring
  BY DEF Outcomes, Referring, AfterVersions
<1> QED
  BY <1>1, <1>4, <1>6, <1>7, <1>8, <1>9, <1>10, <1>11, CommitKeepsIInv
  DEF Chain, VersionChain

LEMMA HashUpdateKeepsRows ==
    ASSUME IInv, NEW a \in DOMAIN files, NEW h \in Contents,
           files' = [files EXCEPT ![a].hash = h]
    PROVE /\ DOMAIN files' = DOMAIN files
          /\ \A b \in DOMAIN files' : files'[b] \in FileRow
          /\ files'[a].hash = h
          /\ \A b \in DOMAIN files \ {a} : files'[b] = files[b]
  BY DEF IInv, Types, TypeOK, FileRow

LEMMA CommitVersionKeepsIInv ==
    ASSUME IInv, IsDisk(disk'), NEW u \in Uploads, CommitVersion(u)
    PROVE IInv'
<1> DEFINE a == req[u].asset
           last == req[u].last
<1>1. /\ u \in Requests /\ pc[u] = "committing" /\ pc[u] \in Stages
      /\ UniqueIndexAllows(InsertedRows(u))
      /\ req' = req /\ faults' \in Nat /\ pc' = [pc EXCEPT ![u] = "versioned"]
      /\ files' = [files EXCEPT ![a].hash = req[u].content]
  BY EndsCounted DEF CommitVersion, Requests, Stages, UploadStages, AfterVersions
<1>2. a \in DOMAIN files /\ req[u].content \in Contents
      /\ last \in Nat /\ last >= 1
  BY <1>1, SnapshotIsCurrent
<1>3. DOMAIN files' = DOMAIN files /\ \A b \in DOMAIN files' : files'[b] \in FileRow
  BY <1>1, <1>2, HashUpdateKeepsRows
<1>4. /\ \A v \in versions' : v \in VersionRow
      /\ \A v \in versions' : v.asset = a =>
            /\ v.number >= 1 /\ v.number <= last + 1
            /\ v.isCurrent <=> v.number = last + 1
      /\ \A v, w \in versions' :
            v.asset = a /\ w.asset = a /\ v.number = w.number => v = w
      /\ \A n \in 1 .. last + 1 : \E v \in versions' : v.asset = a /\ v.number = n
  BY HistoryExtended
<1>5. /\ \A v \in versions : v.asset # a => v \in versions'
      /\ \A v \in versions' : v.asset # a => v \in versions
  BY OtherAssetsUntouched
<1>6. \A v \in versions : \E w \in versions' : Successor(v, w)
  BY RowsAreKept
<1> HIDE DEF a, last
<1>7. versions' \subseteq VersionRow
  BY <1>4
<1>8. VersionsOfRows'
  BY <1>2, <1>3, <1>5 DEF IInv, Rows, VersionsOfRows
<1>9. UniqueNumbers'
  BY <1>4, <1>5 DEF IInv, Chain, VersionChain, UniqueNumbers
<1>10. ContiguousNumbers'
  <2> SUFFICES ASSUME NEW v \in versions'
               PROVE  /\ v.number >= 1
                      /\ \A n \in 1 .. v.number :
                            \E w \in versions' : w.asset = v.asset /\ w.number = n
    BY DEF ContiguousNumbers
  <2>1. CASE v.asset = a
    <3>1. v.number \in Nat /\ v.number >= 1 /\ v.number <= last + 1
      BY <1>4, <2>1 DEF VersionRow
    <3>2. \A n \in 1 .. v.number : n \in 1 .. last + 1
      BY <1>2, <3>1
    <3> QED
      BY <1>4, <2>1, <3>1, <3>2
  <2>2. CASE v.asset # a
    <3>1. v \in versions
      BY <1>5, <2>2
    <3> QED
      BY <1>5, <2>2, <3>1 DEF IInv, Chain, VersionChain, ContiguousNumbers
  <2> QED
    BY <2>1, <2>2
<1>11. CurrentIsLatest' /\ HasCurrent'
  <2>1. ASSUME NEW v \in versions', v.asset = a
        PROVE  /\ v.isCurrent <=>
                     \A w \in versions' : w.asset = v.asset => w.number <= v.number
               /\ \E w \in versions' : w.asset = v.asset /\ w.isCurrent
    <3>1. PICK top \in versions' : top.asset = a /\ top.number = last + 1
      BY <1>2, <1>4
    <3>2. v.number \in Nat
      BY <1>4 DEF VersionRow
    <3> QED
      BY <1>2, <1>4, <2>1, <3>1, <3>2
  <2>2. ASSUME NEW v \in versions', v.asset # a
        PROVE  /\ v.isCurrent <=>
                     \A w \in versions' : w.asset = v.asset => w.number <= v.number
               /\ \E w \in versions' : w.asset = v.asset /\ w.isCurrent
    <3>1. v \in versions
      BY <1>5, <2>2
    <3>2. /\ v.isCurrent <=>
                \A w \in versions : w.asset = v.asset => w.number <= v.number
          /\ \E w \in versions : w.asset = v.asset /\ w.isCurrent
      BY <3>1 DEF IInv, Chain, VersionChain, CurrentIsLatest, HasCurrent, VersionsOf
    <3> QED
      BY <1>5, <2>2, <3>2
  <2> QED
    BY <2>1, <2>2 DEF CurrentIsLatest, HasCurrent, VersionsOf
<1>12. "versioned" \in Outcomes /\ pc[u] \in Referring
  BY <1>1 DEF Outcomes, Referring, AfterVersions
<1> QED
  BY <1>1, <1>3, <1>6, <1>7, <1>8, <1>9, <1>10, <1>11, <1>12, CommitKeepsIInv
  DEF Chain, VersionChain, IInv, Types, TypeOK

LEMMA CommitUpdateKeepsIInv ==
    ASSUME IInv, IsDisk(disk'), NEW g \in Registrations, CommitUpdate(g)
    PROVE IInv'
<1>1. /\ g \in Requests /\ pc[g] \in Stages /\ pc[g] \in Referring
      /\ req' = req /\ faults' = faults /\ versions' = versions
      /\ pc' = [pc EXCEPT ![g] = "updated"]
      /\ files' = [files EXCEPT ![req[g].asset].hash = req[g].hash]
  BY DEF CommitUpdate, Goto, Requests, Stages, RegisterStages, Referring
<1>2. req[g].asset \in DOMAIN files /\ req[g].hash \in Contents
  BY <1>1 DEF IInv, Types, TypeOK, KnownAssets, Locals
<1>3. DOMAIN files' = DOMAIN files /\ \A b \in DOMAIN files' : files'[b] \in FileRow
  BY <1>1, <1>2, HashUpdateKeepsRows
<1>4. "updated" \in Outcomes
  BY DEF Outcomes
<1> QED
  BY <1>1, <1>3, <1>4, UnchangedVersions, CommitKeepsIInv DEF IInv, Types, TypeOK

(* Steps of no request. *)
LEMMA RestKeepsIInv ==
    ASSUME IInv, IsDisk(disk'), UNCHANGED <<versions, pc, req, faults>>,
           \/ files' = files
           \/ \E a \in DOMAIN files : files' = [files EXCEPT ![a].deleted = TRUE]
    PROVE IInv'
<1>1. DOMAIN files' = DOMAIN files /\ \A b \in DOMAIN files' : files'[b] \in FileRow
  BY DEF IInv, Types, TypeOK, FileRow
<1>2. TypeOK' /\ KnownAssets' /\ Rows'
  BY <1>1 DEF IInv, Types, TypeOK, KnownAssets, Rows, RowsOfCommitted,
     VersionsOfRows
<1>3. Chain' /\ Snapshots'
  BY <1>1, UnchangedVersions
  DEF IInv, Snapshots, Snapshot, NumbersOf, VersionsOf
<1> QED
  BY <1>2, <1>3 DEF IInv, Types

LEMMA NextKeepsIInv == IInv /\ [Next]_vars => IInv'
<1> SUFFICES ASSUME IInv, [Next]_vars PROVE IInv'
  OBVIOUS
<1>1. CASE UNCHANGED vars
  BY <1>1, RestKeepsIInv DEF vars, IInv, Types, TypeOK
<1>2. CASE Next
  <2>1. IsDisk(disk')
    BY <1>2, DiskStep
  <2>2. ASSUME NEW r \in Requests, Local(r) PROVE IInv'
    BY <2>1, <2>2, LocalKeepsIInv
  <2>3. ASSUME NEW u \in Uploads, CommitAlias(u) PROVE IInv'
    BY <2>1, <2>3, InsertKeepsIInv DEF Requests
  <2>4. ASSUME NEW u \in Uploads, CommitNew(u) PROVE IInv'
    BY <2>1, <2>4, CommitNewKeepsIInv
  <2>5. ASSUME NEW u \in Uploads, CommitVersion(u) PROVE IInv'
    BY <2>1, <2>5, CommitVersionKeepsIInv
  <2>6. ASSUME NEW g \in Registrations, CommitEnrolment(g) PROVE IInv'
    BY <2>1, <2>6, InsertKeepsIInv DEF Requests
  <2>7. ASSUME NEW g \in Registrations, CommitUpdate(g) PROVE IInv'
    BY <2>1, <2>7, CommitUpdateKeepsIInv
  <2>8. ASSUME NEW a \in DOMAIN files, SoftDelete(a) PROVE IInv'
    BY <2>1, <2>8, RestKeepsIInv DEF SoftDelete
  <2>9. CASE CleanupTemp
    BY <2>1, <2>9, RestKeepsIInv DEF CleanupTemp
  <2> QED
    BY <1>2, <2>2, <2>3, <2>4, <2>5, <2>6, <2>7, <2>8, <2>9, Classified
<1> QED
  BY <1>1, <1>2

(***************************************************************************)
(* The theorems.                                                           *)
(***************************************************************************)

(* The state of the model always has its type. *)
THEOREM TypeCorrectness == Spec => []TypeOK
<1>1. IInv => TypeOK
  BY DEF IInv, Types
<1> QED
  BY <1>1, InitIInv, NextKeepsIInv, PTL DEF Spec

(* For any number of uploads, registrations, deletions, exceptions and     *)
(* crashes, the versions of an asset are numbered without a gap and the    *)
(* latest is the current one.                                              *)
THEOREM ChainCorrectness == Spec => []VersionChain
<1>1. IInv => VersionChain
  BY DEF IInv, Chain
<1> QED
  BY <1>1, InitIInv, NextKeepsIInv, PTL DEF Spec

(* Every step keeps the versions there were. *)
LEMMA NextKeepsVersions == ASSUME IInv, [Next]_vars PROVE VersionsKept
<1>1. CASE versions' = versions
  BY <1>1 DEF VersionsKept, Succeeds
<1>2. ASSUME NEW u \in Uploads, CommitNew(u) PROVE VersionsKept
  BY <1>2 DEF CommitNew, VersionsKept, Succeeds
<1>3. ASSUME NEW u \in Uploads, CommitVersion(u) PROVE VersionsKept
  BY <1>3, RowsAreKept DEF VersionsKept, Succeeds, Successor
<1>4. CASE UNCHANGED vars
  BY <1>1, <1>4 DEF vars
<1>5. CASE Next
  <2>1. CASE \E r \in Requests : Local(r)
    BY <1>1, <2>1 DEF Local
  <2>2. CASE \E u \in Uploads : CommitAlias(u) \/ CommitNew(u) \/ CommitVersion(u)
    BY <1>1, <1>2, <1>3, <2>2 DEF CommitAlias
  <2>3. CASE \E g \in Registrations : CommitEnrolment(g) \/ CommitUpdate(g)
    BY <1>1, <2>3 DEF CommitEnrolment, CommitUpdate
  <2>4. CASE (\E a \in DOMAIN files : SoftDelete(a)) \/ CleanupTemp
    BY <1>1, <2>4 DEF SoftDelete, CleanupTemp
  <2> QED
    BY <1>5, <2>1, <2>2, <2>3, <2>4, Classified
<1> QED
  BY <1>4, <1>5

(* No step removes, renumbers or rewrites a version, or makes a superseded *)
(* one current again.                                                      *)
THEOREM HistoryCorrectness == Spec => HistoryIsKept
<1>1. IInv /\ [Next]_vars => [VersionsKept]_versions
  BY NextKeepsVersions
<1> QED
  BY <1>1, InitIInv, NextKeepsIInv, PTL DEF Spec, HistoryIsKept

(***************************************************************************)
(* What became of the requests that ended.                                 *)
(***************************************************************************)

(* A request that ended stays as it ended. *)
LEMMA EndedStays ==
    ASSUME IInv, [Next]_vars, NEW r \in Requests, pc[r] \in Outcomes
    PROVE pc'[r] = pc[r] /\ req'[r] = req[r]
<1>1. pc[r] \notin {"idle"} \cup Stages
  BY DEF Outcomes, Stages, UploadStages, BeforeVersions, AfterVersions,
     RegisterStages
<1>2. pc \in [Requests -> {"idle"} \cup Stages \cup Outcomes]
      /\ Uploads \subseteq Requests /\ Registrations \subseteq Requests
  BY DEF IInv, Types, TypeOK, Requests
<1>3. ASSUME NEW s \in Requests, Local(s) PROVE pc'[r] = pc[r] /\ req'[r] = req[r]
  BY <1>1, <1>2, <1>3 DEF Local
<1>4. ASSUME NEW s \in Requests,
             \/ CommitAlias(s) \/ CommitNew(s) \/ CommitVersion(s)
             \/ CommitEnrolment(s) \/ CommitUpdate(s)
      PROVE pc'[r] = pc[r] /\ req'[r] = req[r]
  <2>1. pc[s] \in Stages /\ req' = req
    BY <1>4 DEF CommitAlias, CommitNew, CommitVersion, CommitEnrolment,
       CommitUpdate, Stages, UploadStages, BeforeVersions, AfterVersions,
       RegisterStages
  <2>2. \E x : pc' = [pc EXCEPT ![s] = x]
    BY <1>4 DEF CommitAlias, CommitNew, CommitVersion, CommitEnrolment,
       CommitUpdate, End, Goto
  <2> QED
    BY <1>1, <1>2, <2>1, <2>2
<1>5. CASE UNCHANGED vars
  BY <1>5 DEF vars
<1>6. CASE (\E a \in DOMAIN files : SoftDelete(a)) \/ CleanupTemp
  BY <1>6 DEF SoftDelete, CleanupTemp
<1>7. CASE Next
  BY <1>2, <1>3, <1>4, <1>6, <1>7, Classified
<1> QED
  BY <1>5, <1>7

(* A request ends as a new version only by committing one. *)
LEMMA VersionedByCommit ==
    ASSUME IInv, [Next]_vars, NEW u \in Uploads,
           pc'[u] = "versioned", pc[u] # "versioned"
    PROVE CommitVersion(u)
<1>1. pc \in [Requests -> {"idle"} \cup Stages \cup Outcomes]
      /\ Uploads \subseteq Requests /\ Registrations \subseteq Requests
  BY DEF IInv, Types, TypeOK, Requests
<1>2. ASSUME NEW s \in Requests, Local(s) PROVE FALSE
  <2> PICK x \in Stages \cup (Outcomes \ Committed) : pc' = [pc EXCEPT ![s] = x]
    BY <1>2 DEF Local
  <2>1. x # "versioned"
    BY DEF Committed, Stages, UploadStages, BeforeVersions, AfterVersions,
       RegisterStages
  <2> QED
    BY <1>1, <2>1
<1>3. ASSUME NEW s \in Requests,
             CommitAlias(s) \/ CommitNew(s) \/ CommitEnrolment(s) \/ CommitUpdate(s)
      PROVE FALSE
  <2>1. \E x \in {"aliased", "stored", "enrolled", "updated"} :
           pc' = [pc EXCEPT ![s] = x]
    BY <1>3 DEF CommitAlias, CommitNew, CommitEnrolment, CommitUpdate, End, Goto
  <2> QED
    BY <1>1, <2>1
<1>4. ASSUME NEW s \in Uploads, CommitVersion(s) PROVE s = u
  BY <1>1, <1>4 DEF CommitVersion, End, Goto
<1>5. pc' # pc
  OBVIOUS
<1>6. CASE (\E a \in DOMAIN files : SoftDelete(a)) \/ CleanupTemp
  BY <1>5, <1>6 DEF SoftDelete, CleanupTemp
<1>7. Next
  BY <1>5 DEF vars
<1> QED
  BY <1>1, <1>2, <1>3, <1>4, <1>6, <1>7, Classified

LEMMA NextKeepsUpdates ==
    ASSUME IInv, [Next]_vars, NoLostUpdate PROVE NoLostUpdate'
<1> DEFINE Recorded(r) ==
        \E v \in VersionsOf(req[r].asset) :
           v.number = req[r].last + 1 /\ v.hash = req[r].content
<1>0. Uploads \subseteq Requests /\ "versioned" \in Outcomes
  BY DEF Requests, Outcomes
<1>1. \A u \in Uploads : pc[u] = "versioned" => pc'[u] = pc[u] /\ req'[u] = req[u]
  BY <1>0, EndedStays
<1>2. ASSUME NEW u \in Uploads, pc[u] = "versioned" PROVE Recorded(u)'
  <2>1. Recorded(u)
    BY <1>2 DEF NoLostUpdate
  <2> QED
    BY <1>1, <1>2, <2>1, NextKeepsVersions DEF VersionsKept, Succeeds, VersionsOf
<1>3. ASSUME NEW u \in Uploads, CommitVersion(u) PROVE Recorded(u)'
  <2>1. PICK v \in versions' : v.asset = req[u].asset /\ v.number = req[u].last + 1
    <3>1. pc[u] = "committing" /\ UniqueIndexAllows(InsertedRows(u))
      BY <1>3 DEF CommitVersion
    <3>2. req[u].last \in Nat
      BY <3>1, SnapshotIsCurrent
    <3>3. req[u].last + 1 \in 1 .. req[u].last + 1
      BY <3>2
    <3> QED
      BY <1>3, <3>3, HistoryExtended
  <2>2. v.hash = req[u].content
    BY <1>3, <2>1, HistoryExtended
  <2>3. req' = req
    BY <1>3 DEF CommitVersion
  <2> QED
    BY <2>1, <2>2, <2>3 DEF VersionsOf
<1>4. ASSUME NEW u \in Uploads, CommitVersion(u),
             NEW w \in Uploads, pc[w] = "versioned", req[w].asset = req[u].asset
      PROVE  req[w].last # req[u].last
  <2>1. req[w].last + 1 \in NumbersOf(req[u].asset)
    BY <1>4 DEF NoLostUpdate, NumbersOf, VersionsOf
  <2>2. [asset |-> req[u].asset, number |-> req[u].last + 1,
         hash |-> req[u].content, archived |-> FALSE, isCurrent |-> TRUE]
            \in InsertedRows(u)
    BY DEF InsertedRows
  <2>3. req[u].last + 1 \notin NumbersOf(req[u].asset)
    BY <1>4, <2>2 DEF CommitVersion, UniqueIndexAllows
  <2> QED
    BY <2>1, <2>3
<1>5. ASSUME NEW u \in Uploads, pc'[u] = "versioned" PROVE Recorded(u)'
  BY <1>2, <1>3, <1>5, VersionedByCommit
<1>6. ASSUME NEW u \in Uploads, NEW w \in Uploads \ {u}, pc'[u] = "versioned",
             pc'[w] = "versioned", req'[w].asset = req'[u].asset
      PROVE  req'[w].last # req'[u].last
  <2>1. CASE pc[u] = "versioned" /\ pc[w] = "versioned"
    BY <1>1, <1>6, <2>1 DEF NoLostUpdate
  <2>2. CASE pc[u] # "versioned" /\ pc[w] = "versioned"
    <3>1. CommitVersion(u)
      BY <1>6, <2>2, VersionedByCommit
    <3>2. req' = req
      BY <3>1 DEF CommitVersion
    <3> QED
      BY <1>4, <1>6, <2>2, <3>1, <3>2
  <2>3. CASE pc[u] = "versioned" /\ pc[w] # "versioned"
    <3>1. CommitVersion(w)
      BY <1>6, <2>3, VersionedByCommit
    <3>2. req' = req
      BY <3>1 DEF CommitVersion
    <3> QED
      BY <1>4, <1>6, <2>3, <3>1, <3>2
  <2>4. CASE pc[u] # "versioned" /\ pc[w] # "versioned"
    <3>1. CommitVersion(u)
      BY <1>6, <2>4, VersionedByCommit
    <3>2. pc \in [Requests -> {"idle"} \cup Stages \cup Outcomes]
      BY DEF IInv, Types, TypeOK
    <3>3. pc'[w] = pc[w]
      BY <1>0, <3>1, <3>2 DEF CommitVersion, End, Goto
    <3> QED
      BY <1>6, <2>4, <3>3
  <2> QED
    BY <2>1, <2>2, <2>3, <2>4
<1> QED
  BY <1>5, <1>6 DEF NoLostUpdate

(* However many uploads re-upload one path at once, those answered "new    *)
(* version" each have a version of their own, with their content.          *)
THEOREM UpdateCorrectness == Spec => []NoLostUpdate
<1>1. Init => NoLostUpdate
  BY DEF Init, NoLostUpdate, Requests
<1>2. IInv /\ NoLostUpdate /\ [Next]_vars => NoLostUpdate'
  BY NextKeepsUpdates
<1> QED
  BY <1>1, <1>2, InitIInv, NextKeepsIInv, PTL DEF Spec

(* The hash of the asset is that of its current version. *)
LEMMA NextKeepsHash ==
    ASSUME IInv, [Next]_vars, AssetHashIsCurrent PROVE AssetHashIsCurrent'
<1> DEFINE Overwritten(a) ==
        \E g \in Registrations : pc[g] = "updated" /\ req[g].asset = a
<1>0. Uploads \subseteq Requests /\ Registrations \subseteq Requests
      /\ "updated" \in Outcomes
  BY DEF Requests, Outcomes
<1>1. \A a : Overwritten(a) => Overwritten(a)'
  BY <1>0, EndedStays
<1>2. \A v \in versions : v.asset \in DOMAIN files
  BY DEF IInv, Rows, VersionsOfRows
<1>3. ASSUME versions' = versions,
             \A a \in DOMAIN files : files'[a].hash = files[a].hash
      PROVE  AssetHashIsCurrent'
  BY <1>1, <1>2, <1>3 DEF AssetHashIsCurrent
<1>4. ASSUME NEW r \in Requests,
             \/ r \in Uploads /\ CommitAlias(r)
             \/ r \in Registrations /\ CommitEnrolment(r)
      PROVE  AssetHashIsCurrent'
  <2>1. pc[r] \in Stages /\ versions' = versions
    BY <1>4 DEF CommitAlias, CommitEnrolment, Stages, UploadStages,
       BeforeVersions, RegisterStages
  <2>2. \E p, h : Insert(r, p, h)
    BY <1>4 DEF CommitAlias, CommitEnrolment
  <2>3. r \notin DOMAIN files
    BY <2>1, NoRowYet
  <2>4. \A a \in DOMAIN files : files'[a] = files[a]
    BY <2>2, <2>3 DEF Insert
  <2> QED
    BY <1>3, <2>1, <2>4
<1>5. ASSUME NEW u \in Uploads, CommitNew(u) PROVE AssetHashIsCurrent'
  <2>1. u \in Requests /\ pc[u] \in Stages
    BY <1>0, <1>5 DEF CommitNew, Stages, UploadStages, BeforeVersions
  <2>2. u \notin DOMAIN files
    BY <2>1, NoRowYet
  <2>3. \A a \in DOMAIN files : files'[a] = files[a]
    BY <1>5, <2>2 DEF CommitNew, Insert
  <2>4. files'[u].hash = req[u].content
    BY <1>5 DEF CommitNew, Insert
  <2> DEFINE First == [asset |-> u, number |-> 1, hash |-> req[u].content,
                       archived |-> FALSE, isCurrent |-> TRUE]
  <2>5. \A v \in versions' : v \in versions \/ v = First
    BY <1>5 DEF CommitNew
  <2>6. First.asset = u /\ First.hash = req[u].content
    OBVIOUS
  <2> HIDE DEF First
  <2> QED
    BY <1>1, <1>2, <2>3, <2>4, <2>5, <2>6 DEF AssetHashIsCurrent
<1>6. ASSUME NEW u \in Uploads, CommitVersion(u) PROVE AssetHashIsCurrent'
  <2>1. pc[u] = "committing" /\ UniqueIndexAllows(InsertedRows(u))
        /\ files' = [files EXCEPT ![req[u].asset].hash = req[u].content]
    BY <1>6 DEF CommitVersion
  <2>2. req[u].asset \in DOMAIN files /\ req[u].content \in Contents
    BY <2>1, SnapshotIsCurrent
  <2>3. /\ files'[req[u].asset].hash = req[u].content
        /\ \A b \in DOMAIN files \ {req[u].asset} : files'[b] = files[b]
    BY <2>1, <2>2, HashUpdateKeepsRows
  <2>4. \A v \in versions' :
           v.asset = req[u].asset => (v.isCurrent => v.hash = req[u].content)
    BY <1>6, HistoryExtended
  <2>5. \A v \in versions' : v.asset # req[u].asset => v \in versions
    BY <1>6, OtherAssetsUntouched
  <2> QED
    BY <1>1, <1>2, <2>3, <2>4, <2>5 DEF AssetHashIsCurrent
<1>7. ASSUME NEW g \in Registrations, CommitUpdate(g) PROVE AssetHashIsCurrent'
  <2>1. /\ g \in Requests /\ pc[g] \in Referring /\ req' = req
        /\ versions' = versions /\ pc' = [pc EXCEPT ![g] = "updated"]
        /\ files' = [files EXCEPT ![req[g].asset].hash = req[g].hash]
    BY <1>0, <1>7 DEF CommitUpdate, Goto, Referring
  <2>2. req[g].asset \in DOMAIN files /\ req[g].hash \in Contents
    BY <2>1 DEF IInv, Types, TypeOK, KnownAssets, Locals
  <2>3. \A b \in DOMAIN files \ {req[g].asset} : files'[b] = files[b]
    BY <2>1, <2>2, HashUpdateKeepsRows
  <2>4. Overwritten(req[g].asset)'
    BY <2>1 DEF IInv, Types, TypeOK
  <2> QED
    BY <1>1, <1>2, <2>1, <2>3, <2>4 DEF AssetHashIsCurrent
<1>8. ASSUME NEW a \in DOMAIN files, SoftDelete(a) PROVE AssetHashIsCurrent'
  <2>1. versions' = versions /\ files' = [files EXCEPT ![a].deleted = TRUE]
    BY <1>8 DEF SoftDelete
  <2>2. \A b \in DOMAIN files : files'[b].hash = files[b].hash
    BY <2>1 DEF IInv, Types, TypeOK, FileRow
  <2> QED
    BY <1>3, <2>1, <2>2
<1>9. CASE UNCHANGED vars
  BY <1>3, <1>9 DEF vars
<1>10. ASSUME NEW r \in Requests, Local(r) PROVE AssetHashIsCurrent'
  BY <1>3, <1>10 DEF Local
<1>11. CASE CleanupTemp
  BY <1>3, <1>11 DEF CleanupTemp
<1>12. CASE Next
  BY <1>0, <1>4, <1>5, <1>6, <1>7, <1>8, <1>10, <1>11, <1>12, Classified
<1> QED
  BY <1>9, <1>12

(* The hash an asset's row gives is that of its current version, unless an *)
(* elFinder upload overwrote the file, however requests interleave.        *)
THEOREM AssetHashCorrectness == Spec => []AssetHashIsCurrent
<1>1. Init => AssetHashIsCurrent
  BY DEF Init, AssetHashIsCurrent
<1>2. IInv /\ AssetHashIsCurrent /\ [Next]_vars => AssetHashIsCurrent'
  BY NextKeepsHash
<1> QED
  BY <1>1, <1>2, InitIInv, NextKeepsIInv, PTL DEF Spec
=============================================================================
