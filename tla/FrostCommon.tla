---------------------------- MODULE FrostCommon ----------------------------
(***************************************************************************)
(* The vocabulary shared by the coordinator and the signers in SIGN mode   *)
(* (frost_common.h): the group, nonce commitments, the RSA attestation     *)
(* that binds a commitment to a message, the commit bundle, the signing    *)
(* package derived from it, and the frames.                                *)
(*                                                                         *)
(* Cryptography is symbolic: a commitment is the pair <<owner, draw>> that *)
(* names the nonce it commits to, and a signature is the record of what    *)
(* was signed and by whom, so that it verifies exactly when the record     *)
(* matches.                                                                *)
(***************************************************************************)
EXTENDS Naturals, Sequences, FiniteSets

CONSTANTS N,   \* size of the group                    (g_n)
          T    \* signers needed for one signature     (g_t)

\* The range a HELLO is checked against before g_n and g_t are set.
ASSUME GroupAssumption ==
  /\ N \in Nat /\ 2 <= N /\ N <= 64
  /\ T \in 1..N

Signer == 1..N

(***************************************************************************)
(* The bytes to be signed: the serial the certificate body was built for,  *)
(* and whose CA key its last 32 bytes hold.  `tbs' prints a body with an   *)
(* ephemeral CA key, prepare_tbs patches the FROST CA key in, and the      *)
(* coordinator's replace-tbs fault alters a byte.                          *)
(***************************************************************************)
Tbs == (Nat \ {0}) \X {"frost", "ephemeral", "altered"}

NoTbs == <<0, "none">>

Commitment == Signer \X (Nat \ {0})

\* An empty nonce or commitment buffer (length 0).
NoCommit == <<0, 0>>

\* commit_sig: the RSA signature of `by' over (tbs || commit).
Attestation(by, tbs, commit) == [by |-> by, tbs |-> tbs, commit |-> commit]

\* One entry of the commit bundle relayed to a session's members.
Entry(id, commit, sig) == [id |-> id, commit |-> commit, sig |-> sig]

Bundle(tbs, entries) == [tbs |-> tbs, entries |-> entries]

\* `assemble': a pure function of the bundle's message and its (id, commit)
\* pairs; the pairs become a map ordered by id.
SigningPackage(b) ==
  [tbs     |-> b.tbs,
   commits |-> {<<b.entries[i].id, b.entries[i].commit>> : i \in DOMAIN b.entries}]

\* Frames, coordinator to signer.
HelloAck(mode)      == [type |-> "HELLO_ACK", mode |-> mode]
SignReq(tbs)        == [type |-> "SIGN_REQ", tbs |-> tbs]
RelayCommit(bundle) == [type |-> "RELAY_COMMIT", bundle |-> bundle]
CertOutput          == [type |-> "CERT_OUTPUT"]
StartDkg(t)         == [type |-> "START_DKG", t |-> t]
StartRefresh(t)     == [type |-> "START_REFRESH", t |-> t]

\* The RELAY_R1 that completes round 1 (the signer then collects round 2), or
\* the RELAY_R2 that completes the DKG.
DkgRound(state)     == [type |-> "DKG_ROUND", state |-> state]

\* Frames, signer to coordinator.  Closed is the end of the byte stream.
ShareLoadFail       == [type |-> "SHARE_LOAD_FAIL"]
Commit(commit, sig) == [type |-> "COMMIT", commit |-> commit, sig |-> sig]
SigShare(share)     == [type |-> "SIG_SHARE", share |-> share]
Closed              == [type |-> "CLOSED"]

\* A signature share: the nonce it consumes, the package it is a share of,
\* and whether its bytes were left intact.
Share(by, nonce, pkg, intact) ==
  [by |-> by, nonce |-> nonce, pkg |-> pkg, intact |-> intact]
=============================================================================
