--------------------------- MODULE MCRegistration ---------------------------
(***************************************************************************)
(* An instance of Registration for TLC: a 2-of-2 group and the clients     *)
(* that get in its way.                                                    *)
(***************************************************************************)
EXTENDS Registration

\* a, b: the signers 1 and 2; again: a second process for signer 2; mixed: one
\* with the certificate of 1 that claims to be 2; third: a signer set up for a
\* larger group, whose certificate the coordinator does not have; mute: a
\* client that opens with another frame.
MCClient == {"a", "b", "again", "mixed", "third", "mute"}

MCCert ==
  [c \in MCClient |->
     CASE c \in {"a", "mixed", "mute"} -> 1 [] c \in {"b", "again"} -> 2 [] OTHER -> 3]

MCHello ==
  [c \in MCClient |->
     CASE c \in {"b", "again", "mixed"} -> <<2, 2, 2>> [] c = "third" -> <<3, 3, 2>>
       [] OTHER -> <<1, 2, 2>>]

\* Both options, none, and --n alone.
MCOptions == {<<2, 2>>, <<0, 0>>, <<2, 0>>}
=============================================================================
