--------------------------- MODULE MCFileStorage ---------------------------
(***************************************************************************)
(* Instances of FileStorage for TLC.                                       *)
(***************************************************************************)
EXTENDS FileStorageProperties, TLC

CONSTANTS u1, u2, u3, u4, g1, g2, p1, p2, c1, c2, c3

(* Any content to any path. *)
Anything == Paths \X Contents

Symmetric == Permutations(Uploads) \cup Permutations(Registrations)
                \cup Permutations(Paths) \cup Permutations(Contents)

SymmetricRequests == Permutations(Uploads) \cup Permutations(Registrations)
=============================================================================
