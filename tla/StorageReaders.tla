--------------------------- MODULE StorageReaders ---------------------------
(***************************************************************************)
(* Those who read what FileStorage keeps: downloads (OpenReadAsync) and    *)
(* the daily VerifyFileIntegrityJob.  Both look at the rows first and at   *)
(* the disk later, while uploads run.                                      *)
(***************************************************************************)
EXTENDS FileStorageProperties

CONSTANTS
    Downloads,  \* calls of OpenReadAsync
    MaxScans    \* bound: executions of the job

ASSUME ReadersAssumption == MaxScans \in Nat

VARIABLES
    download,   \* what each download is at
    scan,       \* the job: rows read and not yet checked, executions so far
    alarms,     \* the paths it reported as missing or mismatched
    touched     \* history: paths at which a request was at work since it
                \* read the rows

readers == <<download, scan, alarms, touched>>
allVars == <<vars, readers>>

BusyPaths == {req[r].path : r \in {q \in Requests : Active(q)}}

ReadersInit ==
    /\ Init
    /\ download = [d \in Downloads |-> [at |-> "idle"]]
    /\ scan = [todo |-> {}, count |-> 0]
    /\ alarms = {}
    /\ touched = {}

----------------------------------------------------------------------------
(* OpenReadAsync. *)

FindRow(d, a) ==
    /\ download[d].at = "idle"
    /\ Live(a)
    /\ download' = [download EXCEPT ![d] = [at |-> "found", asset |-> a]]
    /\ UNCHANGED <<vars, scan, alarms, touched>>

CanonicalOf(a) == Canonical(files[a].path)

(* File.Exists, then the stream.  A file that goes between the two is an   *)
(* exception, which is no answer either.                                   *)
OpenFile(d) ==
    LET l == CanonicalOf(download[d].asset) IN
    /\ download[d].at = "found"
    /\ Exists(l)
    /\ download' = [download EXCEPT ![d] =
                      [at |-> "streaming", asset |-> download[d].asset,
                       content |-> disk[l]]]
    /\ UNCHANGED <<vars, scan, alarms, touched>>

FindNoFile(d) ==
    /\ download[d].at = "found"
    /\ ~Exists(CanonicalOf(download[d].asset))
    /\ download' = [download EXCEPT ![d] =
                      [at |-> "missing", asset |-> download[d].asset]]
    /\ UNCHANGED <<vars, scan, alarms, touched>>

----------------------------------------------------------------------------
(* VerifyFileIntegrityJob.Execute. *)

(* Mutant of ReadRows: deleted rows, too. *)
ReadAllRows ==
    /\ scan.todo = {}
    /\ scan.count < MaxScans
    /\ scan' = [todo |-> {[path |-> files[a].path, hash |-> files[a].hash] :
                            a \in DOMAIN files},
                count |-> scan.count + 1]
    /\ alarms' = {}
    /\ touched' = BusyPaths
    /\ UNCHANGED <<vars, download>>

ReadRows ==
    /\ scan.todo = {}
    /\ scan.count < MaxScans
    /\ scan' = [todo |-> {[path |-> files[a].path, hash |-> files[a].hash] :
                            a \in {b \in DOMAIN files : Live(b)}},
                count |-> scan.count + 1]
    /\ alarms' = {}
    /\ touched' = BusyPaths
    /\ UNCHANGED <<vars, download>>

(* The file is missing, or its hash is not the one that was read. *)
Check(row) ==
    LET l == Canonical(row.path)
        intact == Exists(l) /\ disk[l] = row.hash
    IN /\ scan' = [scan EXCEPT !.todo = @ \ {row}]
       /\ alarms' = IF intact THEN alarms ELSE alarms \cup {row.path}
       /\ UNCHANGED <<vars, download, touched>>

(* A file that cannot be read (it went after File.Exists, or an upload     *)
(* holds it open) is an exception, and the rest of the scan is dropped.    *)
Abandon ==
    /\ scan.todo # {}
    /\ scan' = [scan EXCEPT !.todo = {}]
    /\ UNCHANGED <<vars, download, alarms, touched>>

----------------------------------------------------------------------------
(* A step of the storage, seen by the history. *)
StorageStep ==
    /\ Next
    /\ touched' = IF scan.todo = {} THEN touched ELSE touched \cup BusyPaths'
    /\ UNCHANGED <<download, scan, alarms>>

ReadersNext ==
    \/ StorageStep
    \/ \E d \in Downloads, a \in DOMAIN files : FindRow(d, a)
    \/ \E d \in Downloads : OpenFile(d) \/ FindNoFile(d)
    \/ ReadRows
    \/ \E row \in scan.todo : Check(row)
    \/ Abandon

ReadersSpec == ReadersInit /\ [][ReadersNext]_allVars

PeacefulReadersSpec == ReadersInit /\ [][ReadersNext /\ LeftInPeace]_allVars
----------------------------------------------------------------------------
(* A download delivers what a row of its path records, or what a request   *)
(* at work there is about to record, though the row was read before; it    *)
(* finds no file only while a request is at work there (between the two    *)
(* moves of a re-upload the path is empty).                                *)
DownloadsAreCurrent ==
    [][\A d \in Downloads :
          LET p == files[download[d].asset].path
              recorded == {files[a].hash : a \in {b \in DOMAIN files :
                                                    files[b].path = p}}
              pending == {req[r].content : r \in {q \in Requests :
                                              Active(q) /\ req[q].path = p}}
          IN download[d].at = "found" /\ download'[d] # download[d]
                /\ p \in Watched
             => IF download'[d].at = "streaming"
                THEN download'[d].content \in recorded \cup pending
                ELSE p \in BusyPaths]_allVars

(* The integrity job raises no false alarm: a watched path that it reports *)
(* is one at which a request was at work after the job had read the rows.  *)
AlarmsAreExplained == alarms \cap Watched \subseteq touched
=============================================================================
