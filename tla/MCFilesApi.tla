----------------------------- MODULE MCFilesApi -----------------------------
(***************************************************************************)
(* Instance of FilesApi for TLC: a user of one of two companies, a user    *)
(* without a company and a super-admin, who write for others.  Who uploads *)
(* without a company and names the folder of one meets the files that      *)
(* elFinder put there; elFinder finds a folder, too, whose name is the     *)
(* number of a company in another spelling.                                *)
(***************************************************************************)
EXTENDS FilesApi, TLC

CONSTANTS tenant, tenant0, rival, staff, guest, root, companies, n

MCClaims ==
    staff :> [company |-> tenant, permissions |-> Permissions \ {"AllCompanies"}]
      @@ guest :> [company |-> Shared,
                   permissions |-> {"View", "Upload"}]
      @@ root :> [company |-> Shared,
                  permissions |-> {"View", "Upload", "AllCompanies"}]

MCReading == tenant :> tenant @@ tenant0 :> tenant @@ rival :> rival

MCFolders == {<<companies, tenant>>}
MCElsewhere == {<<companies, tenant0, n>>}

Symmetry == Permutations(Requests) \cup Permutations(Contents)
=============================================================================
