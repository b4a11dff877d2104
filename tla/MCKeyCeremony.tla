--------------------------- MODULE MCKeyCeremony ---------------------------
(***************************************************************************)
(* Instances of KeyCeremony for TLC: the order in which signers arrive.    *)
(***************************************************************************)
EXTENDS KeyCeremony

Roster12 == <<1, 2>>
Roster312 == <<3, 1, 2>>
=============================================================================
