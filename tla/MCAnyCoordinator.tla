-------------------------- MODULE MCAnyCoordinator --------------------------
(***************************************************************************)
(* Instances of AnyCoordinator for TLC: two honest signers, or one honest  *)
(* signer beside one that signs what the coordinator asks it to.           *)
(***************************************************************************)
EXTENDS AnyCoordinator

BothHonest == [s \in Signer |-> "none"]
OneHonest == [s \in Signer |-> IF s = 1 THEN "none" ELSE "silent"]
TwoDraws == [s \in Signer |-> 2]
ThreeDraws == [s \in Signer |-> 3]
TwoMessages == {<<1, "frost">>, <<2, "frost">>}
=============================================================================
