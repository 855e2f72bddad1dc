--------------------------- MODULE ImageVariants ---------------------------
(***************************************************************************)
(* The pictures derived from images: <name>.webp and <name>_thumb.webp     *)
(* beside each image, made by ImageSharpProcessor at the end of an upload  *)
(* or of an elFinder registration, and by the GenerateThumbnailJob of each *)
(* node for images without a thumbnail.                                    *)
(*                                                                         *)
(* One folder.  A file name is a base, the number of its suffixes _thumb,  *)
(* and an extension: an uploaded a_thumb.webp is the thumbnail of a.png.   *)
(* Bytes are what they show and how they were made; a hash is identified   *)
(* with the bytes.  The version rows and archives are in FileStorage.      *)
(***************************************************************************)
EXTENDS Naturals

CONSTANTS
    Uploads,        \* calls of UploadAsync
    Registrations,  \* elFinder uploads and their RegisterPhysicalFileAsync
    Jobs,           \* the GenerateThumbnailJob of each node
    Contents,       \* what images show
    Undecodable,    \* contents that ImageSharp cannot load
    MaySend,        \* the <<file name, content>> pairs that clients send
    MaxDeletes,     \* bound: soft deletions
    MaxFaults       \* bound: exceptions and crashes

Requests == Uploads \cup Registrations

ASSUME WorkersAssumption == Requests \cap Jobs = {}
ASSUME UndecodableAssumption == Undecodable \subseteq Contents
ASSUME NamesAssumption ==
    \A s \in MaySend :
       s[1] = [base |-> s[1].base, suffixes |-> s[1].suffixes, ext |-> s[1].ext]
          /\ s[1].suffixes \in Nat
ASSUME BoundsAssumption == MaxDeletes \in Nat /\ MaxFaults \in Nat

VARIABLES
    disk,       \* file name -> bytes
    rows,       \* file name -> the live row of its path
    sent,       \* request -> the file name and the content it sends
    work,       \* what each request and job is at
    deletes,    \* soft deletions so far
    faults,     \* exceptions and crashes so far
    disturbed   \* history: names whose last request failed or was not alone

vars == <<disk, rows, sent, work, deletes, faults, disturbed>>

Full(n) == [n EXCEPT !.ext = "webp"]
Thumb(n) == [n EXCEPT !.ext = "webp", !.suffixes = @ + 1]

Uploaded(c) == [made |-> "uploaded", shows |-> c]
Encoded(b) == [made |-> "webp", shows |-> b.shows]
Reduced(b) == [made |-> "thumb", shows |-> b.shows]
Truncated(b) == [made |-> "truncated", shows |-> b.shows]

Decodable(b) == b.made # "truncated" /\ b.shows \notin Undecodable

Exists(n) == n \in DOMAIN disk
With(n, b) == [m \in DOMAIN disk \cup {n} |-> IF m = n THEN b ELSE disk[m]]

(* Who has the file of this name in hand. *)
Generating == {"loading", "encoding", "reducing"}
Busy(n) ==
    {w \in DOMAIN work :
        work[w].at \in {"placed"} \cup Generating /\ work[w].name = n}

None == [is |-> "none"]

Goto(w, stage) == work' = [work EXCEPT ![w].at = stage]

(* GenerateVariantsAsync returns, whatever came of it. *)
Return(w) ==
    work' = [work EXCEPT
               ![w].at = IF w \in Jobs THEN "scanning" ELSE "ended",
               ![w].name = IF w \in Jobs THEN None ELSE @,
               ![w].image = None]

Init ==
    /\ disk = [n \in {} |-> {}]
    /\ rows = [n \in {} |-> {}]
    /\ sent \in [Requests -> MaySend]
    /\ work = [w \in Requests \cup Jobs |->
                 [at |-> "idle", todo |-> {},
                  name |-> IF w \in Jobs THEN None ELSE sent[w][1],
                  image |-> None]]
    /\ deletes = 0
    /\ faults = 0
    /\ disturbed = {}

----------------------------------------------------------------------------
(* UploadAsync and RegisterPhysicalFileAsync, up to the commit.            *)

Stored(n, b) == n \in DOMAIN rows /\ rows[n].hash = b

(* An upload of stored bytes makes no file: a duplicate changes nothing,   *)
(* an alias is one more row, as of now, for the path of another.           *)
Duplicate(u) ==
    /\ u \in Uploads
    /\ work[u].at = "idle"
    /\ Stored(sent[u][1], Uploaded(sent[u][2]))
    /\ Goto(u, "ended")
    /\ UNCHANGED <<disk, rows, sent, deletes, faults, disturbed>>

Alias(u) ==
    /\ u \in Uploads
    /\ work[u].at = "idle"
    /\ sent[u][1] \notin DOMAIN rows
    /\ \E n \in DOMAIN rows :
          /\ Stored(n, Uploaded(sent[u][2]))
          /\ rows' = [rows EXCEPT ![n].recent = TRUE]
    /\ Goto(u, "ended")
    /\ UNCHANGED <<disk, sent, deletes, faults, disturbed>>

(* A former version goes to an archive that is not in the folder. *)
Place(w) ==
    LET n == sent[w][1]
        b == Uploaded(sent[w][2])
    IN /\ work[w].at = "idle"
       /\ w \in Uploads =>
            /\ ~Stored(n, b)
            /\ n \in DOMAIN rows \/ \A m \in DOMAIN rows : rows[m].hash # b
       /\ disk' = With(n, b)
       /\ Goto(w, "placed")
       /\ disturbed' = IF Busy(n) = {} THEN disturbed \ {n}
                                       ELSE disturbed \cup {n}
       /\ UNCHANGED <<rows, sent, deletes, faults>>

(* A registration hashes what it finds.  A row keeps its CreatedDate. *)
Commit(w) ==
    LET n == sent[w][1]
        b == IF w \in Uploads THEN Uploaded(sent[w][2]) ELSE disk[n]
        recent == n \in DOMAIN rows => rows[n].recent
    IN /\ work[w].at = "placed"
       /\ rows' = [m \in DOMAIN rows \cup {n} |->
                     IF m = n THEN [hash |-> b, recent |-> recent]
                              ELSE rows[m]]
       /\ Goto(w, "loading")
       /\ UNCHANGED <<disk, sent, deletes, faults, disturbed>>

----------------------------------------------------------------------------
(* ImageSharpProcessor.GenerateVariantsAsync.                              *)

(* Mutant of EncodesFull: of every source. *)
EncodesAny(n) == TRUE

EncodesFull(n) == n.ext # "webp"

(* Mutant of Written: a file that exists is left alone. *)
WrittenOnce(n, b) == IF Exists(n) THEN disk ELSE With(n, b)

Written(n, b) == With(n, b)

Load(w) ==
    LET n == work[w].name
    IN /\ work[w].at = "loading"
       /\ IF Exists(n) /\ Decodable(disk[n])
            THEN work' = [work EXCEPT
                            ![w].at = IF EncodesFull(n) THEN "encoding"
                                                        ELSE "reducing",
                            ![w].image = disk[n]]
            ELSE Return(w)
       /\ UNCHANGED <<disk, rows, sent, deletes, faults, disturbed>>

SaveFull(w) ==
    /\ work[w].at = "encoding"
    /\ disk' = Written(Full(work[w].name), Encoded(work[w].image))
    /\ Goto(w, "reducing")
    /\ UNCHANGED <<rows, sent, deletes, faults, disturbed>>

SaveThumb(w) ==
    /\ work[w].at = "reducing"
    /\ disk' = Written(Thumb(work[w].name), Reduced(work[w].image))
    /\ Return(w)
    /\ UNCHANGED <<rows, sent, deletes, faults, disturbed>>

(* The file being written, if any: it may be left without its end. *)
Half(w) ==
    CASE work[w].at = "encoding" ->
           With(Full(work[w].name), Truncated(work[w].image))
      [] work[w].at = "reducing" ->
           With(Thumb(work[w].name), Truncated(work[w].image))
      [] OTHER -> disk

(* An exception here is swallowed: the upload is answered as a success. *)
Swallow(w) ==
    /\ faults < MaxFaults
    /\ work[w].at \in Generating
    /\ disk' \in {disk, Half(w)}
    /\ Return(w)
    /\ faults' = faults + 1
    /\ disturbed' = disturbed \cup {work[w].name}
    /\ UNCHANGED <<rows, sent, deletes>>

(* The end of the process of a node; its job starts anew. *)
Crash(w) ==
    /\ faults < MaxFaults
    /\ work[w].at \notin {"idle", "ended"}
    /\ disk' \in {disk, Half(w)}
    /\ work' = [work EXCEPT
                  ![w].at = IF w \in Jobs THEN "idle" ELSE "ended",
                  ![w].todo = {},
                  ![w].name = IF w \in Jobs THEN None ELSE @,
                  ![w].image = None]
    /\ faults' = faults + 1
    /\ disturbed' = IF work[w].at = "scanning" THEN disturbed
                    ELSE disturbed \cup {work[w].name}
    /\ UNCHANGED <<rows, sent, deletes>>

----------------------------------------------------------------------------
(* GenerateThumbnailJob.Execute, which reads the rows once.                *)

Fire(j) ==
    /\ work[j].at = "idle"
    /\ work' = [work EXCEPT
                  ![j].at = "scanning",
                  ![j].todo = {n \in DOMAIN rows : rows[n].recent}]
    /\ UNCHANGED <<disk, rows, sent, deletes, faults, disturbed>>

(* Mutant of Missing: looks for the other variant. *)
MissingFull(n) == ~Exists(Full(n))

Missing(n) == ~Exists(Thumb(n))

Inspect(j, n) ==
    /\ work[j].at = "scanning"
    /\ n \in work[j].todo
    /\ IF Exists(n) /\ Missing(n)
         THEN /\ work' = [work EXCEPT ![j].at = "loading", ![j].name = n,
                                      ![j].todo = @ \ {n}]
              /\ disturbed' = IF Busy(n) = {} THEN disturbed
                                              ELSE disturbed \cup {n}
         ELSE /\ work' = [work EXCEPT ![j].todo = @ \ {n}]
              /\ UNCHANGED disturbed
    /\ UNCHANGED <<disk, rows, sent, deletes, faults>>

Finish(j) ==
    /\ work[j].at = "scanning"
    /\ work[j].todo = {}
    /\ Goto(j, "idle")
    /\ UNCHANGED <<disk, rows, sent, deletes, faults, disturbed>>

----------------------------------------------------------------------------
(* A day after its CreatedDate the job passes a row by. *)
Age(n) ==
    /\ n \in DOMAIN rows
    /\ rows[n].recent
    /\ rows' = [rows EXCEPT ![n].recent = FALSE]
    /\ UNCHANGED <<disk, sent, work, deletes, faults, disturbed>>

(* FileMetadataService.SoftDeleteAsync leaves all files where they are. *)
SoftDelete(n) ==
    /\ deletes < MaxDeletes
    /\ n \in DOMAIN rows
    /\ rows' = [m \in DOMAIN rows \ {n} |-> rows[m]]
    /\ deletes' = deletes + 1
    /\ UNCHANGED <<disk, sent, work, faults, disturbed>>

Generate(w) == Load(w) \/ SaveFull(w) \/ SaveThumb(w)
JobStep(j) ==
    Fire(j) \/ (\E n \in work[j].todo : Inspect(j, n)) \/ Finish(j)

Next ==
    \/ \E u \in Uploads : Duplicate(u) \/ Alias(u)
    \/ \E w \in Requests : Place(w) \/ Commit(w)
    \/ \E w \in Requests \cup Jobs : Generate(w) \/ Swallow(w) \/ Crash(w)
    \/ \E j \in Jobs : JobStep(j)
    \/ \E n \in DOMAIN rows : Age(n) \/ SoftDelete(n)

Spec == Init /\ [][Next]_vars

(* A started request and a job that fired go on; Quartz fires the job every *)
(* five minutes.                                                           *)
Fairness ==
    /\ \A w \in Requests : WF_vars(Commit(w) \/ Generate(w))
    /\ \A j \in Jobs : WF_vars(JobStep(j) \/ Generate(j))

FairSpec == Spec /\ Fairness
----------------------------------------------------------------------------
Variants(n) == {Full(n), Thumb(n)}

(* No other name that is sent has a file in common with this one. *)
Alone(n) ==
    \A w \in Requests :
       sent[w][1] # n =>
          ({n} \cup Variants(n)) \cap ({sent[w][1]} \cup Variants(sent[w][1]))
             = {}

(* Nobody is at work on the name, and its last request ended without a     *)
(* fault and with no other at work on it.                                  *)
AtRest(n) == Alone(n) /\ Busy(n) = {} /\ n \notin disturbed

(* However often an image is replaced and its variants are made again, its *)
(* own variants never take its place: at rest, the bytes of a live row are *)
(* those of its hash, a .webp source included (ImageSharpProcessor.cs:37). *)
OriginalsAreKept ==
    \A n \in DOMAIN rows : AtRest(n) => Exists(n) /\ disk[n] = rows[n].hash

(* At rest, the variants beside an image show that image, not one of its   *)
(* former versions, also when an earlier upload left other variants there. *)
VariantsAreCurrent ==
    \A n \in DOMAIN disk :
       AtRest(n) /\ disk[n].made = "uploaded" /\ Decodable(disk[n])
                 /\ n \in DOMAIN rows =>
          /\ Exists(Thumb(n)) /\ disk[Thumb(n)] = Reduced(disk[n])
          /\ n.ext # "webp" => Exists(Full(n)) /\ disk[Full(n)] = Encoded(disk[n])

(* An image has a thumbnail in the end, unless it is deleted, replaced by  *)
(* what cannot be loaded or a day old before: what a crash or an exception *)
(* kept the upload from making, the job makes.                             *)
Wanted(n) ==
    /\ n \in DOMAIN rows /\ rows[n].recent
    /\ Exists(n) /\ Decodable(disk[n])

ThumbnailsAppear ==
    \A n \in {s[1] : s \in MaySend} :
       Wanted(n) ~> (~Wanted(n) \/ Exists(Thumb(n)))
=============================================================================
