-------------------------------- MODULE Roll --------------------------------
(***************************************************************************)
(* What registration promises the ceremonies: a roll of authenticated      *)
(* signers.  A signer joins once at a time, with its own certificate; when *)
(* all of 1..size are on the roll at the same time the ceremony starts,    *)
(* and it starts once.                                                     *)
(***************************************************************************)
EXTENDS Naturals

VARIABLES size,      \* size of the group, 0 while it is not known
          roll,      \* the signers that are registered
          started    \* has the ceremony started?

vars == <<size, roll, started>>

Init == size \in Nat /\ roll = {} /\ started = FALSE

FixSize == size = 0 /\ size' \in Nat \ {0} /\ UNCHANGED <<roll, started>>

Join(s) ==
  /\ size' = size \/ (size = 0 /\ size' \in Nat \ {0})
  /\ s \in (1..size') \ roll
  /\ roll' = roll \cup {s}
  /\ started' = (started \/ roll' = 1..size')

Leave(s) == s \in roll /\ roll' = roll \ {s} /\ UNCHANGED <<size, started>>

Next == FixSize \/ \E s \in 1..size' : Join(s) \/ Leave(s)

Spec == Init /\ [][Next]_vars
=============================================================================
