----------------------------- MODULE MCReaders -----------------------------
(***************************************************************************)
(* Instance of StorageReaders for TLC: the contents of a watched path are  *)
(* not sent for another one.                                               *)
(***************************************************************************)
EXTENDS StorageReaders, TLC

CONSTANTS p1, p2, c1, c2, c3

DistinctContents == {<<p1, c1>>, <<p1, c2>>, <<p2, c3>>}

(* Either all requests are for the watched path, where the connector's     *)
(* does not get to start, or two uploads are, and the other two requests   *)
(* do what they like elsewhere.                                            *)
AtWatched == {r \in Requests : req[r].path \in Watched}

AllOrTwo ==
    \/ AtWatched = Requests
    \/ AtWatched \subseteq Uploads /\ Cardinality(AtWatched) = 2

MCInit == ReadersInit /\ AllOrTwo

MCSpec == MCInit /\ [][ReadersNext /\ LeftInPeace]_allVars

Symmetry == Permutations(Uploads)
=============================================================================
