-------------------------- MODULE VersionHistory --------------------------
(***************************************************************************)
(* What the versioning of files promises, whatever the requests that run   *)
(* at once do to each other: an asset has one history, a sequence of       *)
(* contents; an upload that is acknowledged as a first or as a new version *)
(* has extended the history of one asset, once, in one step, at its end;   *)
(* nothing else changes a history.                                         *)
(*                                                                         *)
(* An asset made without a version row (an alias, a registered file) has   *)
(* the empty history until its first new version, which also records the   *)
(* content the asset had before.                                           *)
(***************************************************************************)
EXTENDS Sequences

CONSTANTS Assets, Clients, Contents

VARIABLES
    sent,           \* the content each client uploads
    history,        \* the versions of each asset, oldest first
    acknowledged    \* the clients whose content became a version

vars == <<sent, history, acknowledged>>

Init ==
    /\ sent \in [Clients -> Contents]
    /\ history = [a \in Assets |-> <<>>]
    /\ acknowledged = {}

(* The content that an asset without history had is its first version.     *)
Older(a) ==
    {<<>>} \cup {<<c>> : c \in IF history[a] = <<>> THEN Contents ELSE {}}

Publish(c, a) ==
    /\ c \notin acknowledged
    /\ acknowledged' = acknowledged \cup {c}
    /\ \E older \in Older(a) :
          history' = [history EXCEPT ![a] = @ \o older \o <<sent[c]>>]
    /\ UNCHANGED sent

Next == \E c \in Clients, a \in Assets : Publish(c, a)

Spec == Init /\ [][Next]_vars
=============================================================================
