----------------------------- MODULE MCStartup -----------------------------
(***************************************************************************)
(* An instance of Startup for TLC.                                         *)
(***************************************************************************)
EXTENDS Startup

CONSTANTS n1, n2, n3, view, allCompanies
=============================================================================
