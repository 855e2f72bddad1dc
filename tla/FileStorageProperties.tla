----------------------- MODULE FileStorageProperties -----------------------
(***************************************************************************)
(* What uploads promise, at their end and while others run: the properties *)
(* of FileStorage, checked by MCFileStorage and proved in                  *)
(* FileStorageProofs.                                                      *)
(***************************************************************************)
EXTENDS FileStorage, Sequences

CONSTANT
    Watched     \* the paths that the properties about bytes speak of

(* Of the bytes under temp/ nothing is said: CleanupTempJob deletes them.  *)
ASSUME WatchedAssumption == Watched \subseteq Paths \ TempZone

(***************************************************************************)
(* The chain of version rows.  Requests that re-upload a path at once read *)
(* the rows first and write them later, with no lock in between: only the  *)
(* unique index on (FileAssetId, VersionNumber) keeps the chain whole.     *)
(***************************************************************************)

UniqueNumbers ==
    \A v, w \in versions : v.asset = w.asset /\ v.number = w.number => v = w

ContiguousNumbers ==
    \A v \in versions :
       /\ v.number >= 1
       /\ \A n \in 1 .. v.number :
             \E w \in versions : w.asset = v.asset /\ w.number = n

CurrentIsLatest ==
    \A v \in versions :
       v.isCurrent <=> \A w \in VersionsOf(v.asset) : w.number <= v.number

(* The versions of an asset are numbered 1, 2, ... without a gap, and the  *)
(* latest one, and only that one, is current (FileVersion: "1-based,       *)
(* monotonically increasing per asset", "True when this version is the one *)
(* currently served"), however uploads, deletions, exceptions and crashes  *)
(* interleave.                                                             *)
VersionChain == UniqueNumbers /\ ContiguousNumbers /\ CurrentIsLatest

(* The hash that an asset's row serves for comparison and integrity checks *)
(* is the hash of its current version, unless elFinder overwrote the file: *)
(* RegisterPhysicalFileAsync writes the asset's row and no version row.    *)
AssetHashIsCurrent ==
    \A v \in versions :
       v.isCurrent =>
          \/ files[v.asset].hash = v.hash
          \/ \E g \in Registrations :
                pc[g] = "updated" /\ req[g].asset = v.asset

(* No lost update: two uploads that were both answered "new version" of    *)
(* one asset hold two version rows, each with the content it sent.         *)
NoLostUpdate ==
    \A u \in Uploads : pc[u] = "versioned" =>
       /\ \E v \in VersionsOf(req[u].asset) :
             v.number = req[u].last + 1 /\ v.hash = req[u].content
       /\ \A w \in Uploads \ {u} :
             pc[w] = "versioned" /\ req[w].asset = req[u].asset
                => req[w].last # req[u].last

(* Rolling back is possible only if no later request rewrites history: a   *)
(* version row is never removed, renumbered or given other content, and a  *)
(* version that was superseded is never current again.                     *)
Succeeds(w, v) ==
    /\ w.asset = v.asset /\ w.number = v.number /\ w.hash = v.hash
    /\ w.isCurrent => v.isCurrent

VersionsKept == \A v \in versions : \E w \in versions' : Succeeds(w, v)

HistoryIsKept == [][VersionsKept]_versions

(* FileStorage implements VersionHistory: the history of an asset is the   *)
(* column of hashes of its version rows in the order of their numbers, and *)
(* an upload is acknowledged when it ends as stored or versioned.          *)
HashOfVersion(a, n) ==
    (CHOOSE v \in VersionsOf(a) : v.number = n).hash

History ==
    INSTANCE VersionHistory WITH
        Assets <- Requests,
        Clients <- Uploads,
        sent <- [u \in Uploads |-> req[u].content],
        history <- [a \in Requests |->
                       [n \in 1 .. MaxNumber(a) |-> HashOfVersion(a, n)]],
        acknowledged <- {u \in Uploads : pc[u] \in {"stored", "versioned"}}

HistorySpec == History!Spec

(***************************************************************************)
(* The bytes.  They are moved before the rows are saved, so that these     *)
(* properties speak of the moments when no request is at work on the path. *)
(***************************************************************************)

Quiet(p) == \A r \in Requests : Active(r) => req[r].path # p

Settled(a) ==
    Live(a) /\ Quiet(files[a].path) /\ files[a].path \in Watched

PlaceOf(v) ==
    LET p == files[v.asset].path IN
    IF v.archived THEN Archive(p, v.number) ELSE Canonical(p)

(* "The canonical (served) path always holds the current bytes": once no   *)
(* request is at work on it, the path of a live asset holds the content    *)
(* its row records, so that the CDN serves what the API describes.         *)
CanonicalIsCurrent ==
    \A a \in DOMAIN files :
       Settled(a)
          => /\ Exists(Canonical(files[a].path))
             /\ disk[Canonical(files[a].path)] = files[a].hash

(* "Historical versions are moved into a .versions sub-folder": each       *)
(* version row leads to the bytes that its Hash names.                     *)
VersionsLeadToBytes ==
    \A v \in versions :
       Settled(v.asset) => Exists(PlaceOf(v)) /\ disk[PlaceOf(v)] = v.hash

(* "Each version's bytes are therefore preserved exactly once": whatever   *)
(* its row says of the place, the bytes of every version of a live asset   *)
(* are somewhere on the disk.                                              *)
BytesPreserved ==
    \A v \in versions :
       Live(v.asset) /\ files[v.asset].path \in Watched
          => \E l \in DOMAIN disk : disk[l] = v.hash

(* A client that is told its content is already there (identical hash, no  *)
(* look at the disk) finds it at the path: an upload ends as a duplicate   *)
(* only if the path it asked for holds these bytes.                        *)
DuplicatesAreStored ==
    [][\A u \in Uploads :
          LET l == Canonical(req[u].path) IN
          pc[u] # "duplicate" /\ pc'[u] = "duplicate"
             /\ req[u].path \in Watched
             => Exists(l) /\ disk[l] = req[u].content]_vars

(* The bytes of an upload that runs are in its temporary file until they   *)
(* are moved in place: neither the cleanup job nor another request takes   *)
(* them away, so that the move of a received body finds its source.  And   *)
(* the files that uploads leave behind are accounted for: UploadAsync has  *)
(* many ways out, but each file that outlives its upload is the price of   *)
(* an exception, a crash or a deletion that failed.                        *)
HoldsTemp == UploadStages \ {"inserting", "committing"}

Orphans == {u \in Uploads : Exists(Temp(u)) /\ ~Active(u)}

TempFilesAreOwned ==
    /\ \A u \in Uploads :
          pc[u] \in HoldsTemp =>
             Exists(Temp(u)) /\ disk[Temp(u)] = req[u].content
    /\ Cardinality(Orphans) <= faults

(***************************************************************************)
(* The executions in which these properties hold, but for the last one,    *)
(* which needs no such condition.                                          *)
(***************************************************************************)

(* At these stages the bytes of the path have begun to change and its rows *)
(* are not yet saved.                                                      *)
Moves == {"moving", "inserting", "promoting", "swapping", "committing"}

(* The watched paths are left in peace: uploads of such a path run one     *)
(* after the other, none of its files comes from elFinder, and exceptions  *)
(* and crashes spare the moves there.  What happens at the other paths is  *)
(* not restricted.                                                         *)
LeftInPeace ==
    /\ \A u \in Uploads :
          req[u].path \in Watched /\ StartUpload(u) => Quiet(req[u].path)
    /\ \A g \in Registrations : req[g].path \in Watched => ~ConnectorWrites(g)
    /\ \A r \in Requests :
          req[r].path \in Watched /\ pc[r] \in Moves => ~Throw(r) /\ ~Crash(r)

PeacefulSpec == Init /\ [][Next /\ LeftInPeace]_vars

(***************************************************************************)
(* Liveness.                                                               *)
(***************************************************************************)

(* Every upload that was started is answered or dies, whatever the others  *)
(* do: the handler takes no lock and no step of it waits.                  *)
UploadsEnd == \A u \in Uploads : pc[u] = "writing" ~> ~Active(u)

(* A temporary file that outlives its upload, however that ended, is       *)
(* deleted in the end.                                                     *)
OrphansAreRemoved ==
    \A u \in Uploads : pc[u] \in Outcomes ~> ~Exists(Temp(u))
=============================================================================
