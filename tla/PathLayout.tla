----------------------------- MODULE PathLayout -----------------------------
(***************************************************************************)
(* Where files lie below the storage root: the paths that the storage      *)
(* service builds for uploads, and the company that it reads from the path *)
(* of a file that elFinder wrote.                                          *)
(*                                                                         *)
(* A relative path is the sequence of its segments as they are after       *)
(* SanitizeSegment and SanitizeFileName; segments that differ in case only *)
(* are one, as they are on the disk.                                       *)
(***************************************************************************)
EXTENDS Integers, Sequences

CONSTANTS
    Companies,        \* tenants; a company stands for the segment of its id
    Shared,           \* the shared zone: no CompanyId
    CompaniesFolder,  \* StorageOptions.CompaniesFolder
    Segments,         \* segments of paths
    Reading,          \* segment -> the company that int.TryParse reads in it
    Folders,          \* what folder and subPath of an upload come to
    Names,            \* file names
    Elsewhere         \* other paths that elFinder writes

Zones == Companies \cup {Shared}

ASSUME ZonesAssumption == Shared \notin Companies
ASSUME SegmentsAssumption ==
    /\ Companies \cup Names \cup {CompaniesFolder} \subseteq Segments
    /\ Folders \subseteq Seq(Segments)
    /\ Elsewhere \subseteq Seq(Segments) \ {<<>>}

(* A number may be spelled in several ways ("19", "019"); the one that the *)
(* service writes is read as the number it stands for.                     *)
ASSUME ReadingAssumption ==
    /\ DOMAIN Reading \subseteq Segments
    /\ Reading \in [DOMAIN Reading -> Companies]
    /\ \A company \in Companies :
          company \in DOMAIN Reading /\ Reading[company] = company

(* A company's files are below companies/<id>, others at the root; folder  *)
(* is any that the client names, that of the companies too.                *)
BuildRelativePath(company, folder, fileName) ==
    LET base == IF company = Shared THEN <<>> ELSE <<CompaniesFolder, company>>
    IN base \o folder \o <<fileName>>

(* Mutant of ParseCompany: the last folder counts. *)
ParseCompanyOfLast(path) ==
    LET last == path[Len(path) - 1] IN
    IF Len(path) >= 3 /\ path[1] = CompaniesFolder /\ last \in DOMAIN Reading
    THEN Reading[last] ELSE Shared

ParseCompany(path) ==
    IF Len(path) >= 3 /\ path[1] = CompaniesFolder /\ path[2] \in DOMAIN Reading
    THEN Reading[path[2]] ELSE Shared

Paths ==
    {BuildRelativePath(company, folder, fileName) :
        company \in Zones, folder \in Folders, fileName \in Names}
      \cup Elsewhere

FileName(path) == path[Len(path)]

(* Below the root directory of the company's volume. *)
InTree(company, path) ==
    Len(path) > 2 /\ path[1] = CompaniesFolder /\ path[2] = company
=============================================================================
