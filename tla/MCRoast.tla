------------------------------ MODULE MCRoast ------------------------------
(***************************************************************************)
(* Instances of RoastSystem for TLC: who has registered, in which order,   *)
(* and who runs with which --fault.                                        *)
(***************************************************************************)
EXTENDS RoastSystem

Roster12 == <<1, 2>>
Roster123 == <<1, 2, 3>>
Roster1234 == <<1, 2, 3, 4>>
Roster12345 == <<1, 2, 3, 4, 5>>

NoFault == [s \in Signer |-> "none"]
TwoSilent == [s \in Signer |-> IF s <= 2 THEN "silent" ELSE "none"]
SilentAndBadShare ==
  [s \in Signer |-> CASE s = 1 -> "silent" [] s = 2 -> "bad_share" [] OTHER -> "none"]
ThreeFaults ==
  [s \in Signer |-> CASE s = 1 -> "silent" [] s = 2 -> "bad_share" [] s = 3 -> "no_commit"
                      [] OTHER -> "none"]
LateDropout == [s \in Signer |-> IF s = 3 THEN "dropout" ELSE "none"]
=============================================================================
