---------------------------- MODULE FrostSigner ----------------------------
(***************************************************************************)
(* The signer process of frost_signer.c while the coordinator is in SIGN   *)
(* mode.  A signer is single-threaded: it handles one frame to completion, *)
(* then runs the precomputation at the bottom of its event loop before it  *)
(* reads the next one, so frame and precomputation are one action.         *)
(*                                                                         *)
(* The actions take the frame as a parameter and write toC, the signer's   *)
(* output; who supplies the frames is up to the module that composes them. *)
(***************************************************************************)
EXTENDS FrostCommon

CONSTANTS KeyHolder,    \* signers with a KeyPackage on disk
          Fault,        \* the --fault option of each signer process
          CoreMayFail   \* may a run of frost_signer_core fail?

FaultMode == {"none", "bad_share", "silent", "no_commit", "dropout"}

ASSUME SignerAssumption ==
  /\ KeyHolder \subseteq Signer
  /\ Fault \in [Signer -> FaultMode]
  /\ CoreMayFail \in BOOLEAN

VARIABLES
  signer,   \* signer[s]: the globals of signer process s
  toC       \* toC[s]: the frames s has queued for the coordinator, in order

SignerState == {"IDLE", "COLLECTING", "SIGNING", "COMPLETE"}

SignerRecord ==
  [up       : BOOLEAN,                    \* is the process running?
   signMode : BOOLEAN,                    \* g_coord_mode = COORD_MODE_SIGN
   key      : BOOLEAN,                    \* g_key_pkg_len > 0
   t        : Nat,                        \* g_t
   state    : SignerState,                \* g_state
   nonces   : Commitment \cup {NoCommit}, \* g_nonces, named by its commitment
   commit   : Commitment \cup {NoCommit}, \* g_commit
   tbs      : Tbs \cup {NoTbs},           \* g_tbs
   pre      : BOOLEAN,                    \* g_commit_is_precomputed
   drawn    : Nat]                        \* nonces this signer ever drew

\* A process that has just started; randomness never repeats a draw.
FreshSigner(drawn) ==
  [up |-> TRUE, signMode |-> FALSE, key |-> FALSE, t |-> T, state |-> "IDLE",
   nonces |-> NoCommit, commit |-> NoCommit, tbs |-> NoTbs, pre |-> FALSE,
   drawn |-> drawn]

\* The outcomes of one run of the Rust binary.
CoreOutcome == IF CoreMayFail THEN BOOLEAN ELSE {TRUE}

\* Mutant: the core draws its nonces from a generator with a fixed seed.
DrawNoncesSeeded(s, r) ==
  LET c == <<s, 1>>
  IN  [r EXCEPT !.nonces = c, !.commit = c, !.drawn = @ + 1]

\* frost_commit, on success: fresh nonces and the commitment to them.
DrawNonces(s, r) ==
  LET c == <<s, r.drawn + 1>>
  IN  [r EXCEPT !.nonces = c, !.commit = c, !.drawn = @ + 1]

\* Mutant: the nonces stay in memory.
ZeroNoncesForgotten(r) == r

\* memset(g_nonces, 0, ...); g_nonces_len = 0.
ZeroNonces(r) == [r EXCEPT !.nonces = NoCommit]

\* A failed frost_commit leaves zeroed nonces beside the old g_commit.
TryDraw(s, r, ok) == IF r.key /\ ok THEN DrawNonces(s, r) ELSE ZeroNonces(r)

\* The precomputation after every frame.
Precompute(s, r, ok) ==
  IF r.signMode /\ r.state \in {"IDLE", "COMPLETE"} /\ ~r.pre
    THEN [TryDraw(s, r, ok) EXCEPT !.pre = r.key /\ ok]
    ELSE r

\* End of one pass of the event loop, after a handler that left the globals
\* r: the precomputation.
EndOfPass(s, r) ==
  \E ok \in CoreOutcome : signer' = [signer EXCEPT ![s] = Precompute(s, r, ok)]

\* Mutant: the frame goes out twice.
ReplyTwice(s, r, f) ==
  EndOfPass(s, r) /\ toC' = [toC EXCEPT ![s] = @ \o <<f, f>>]

\* The handler queued nothing, or one frame, for the coordinator.
Return(s, r)   == EndOfPass(s, r) /\ UNCHANGED toC
Reply(s, r, f) == EndOfPass(s, r) /\ toC' = [toC EXCEPT ![s] = Append(@, f)]

\* The process ends.  What it had queued reaches the coordinator only up to
\* some frame, and then the stream ends.
Die(s) ==
  /\ signer' = [signer EXCEPT ![s] =
                  [FreshSigner(signer[s].drawn) EXCEPT !.up = FALSE]]
  /\ \E k \in 0..Len(toC[s]) :
       toC' = [toC EXCEPT ![s] = Append(SubSeq(@, 1, k), Closed)]

-----------------------------------------------------------------------------
(* Frame handlers: process_coord_frame.                                    *)

\* load_key_material in SIGN and REFRESH mode; a key already in memory stays.
OnHelloAck(s, m) ==
  LET loads  == m.mode \in {"S", "R"}
      loaded == loads /\ s \in KeyHolder
      r      == [signer[s] EXCEPT !.signMode = (m.mode = "S"),
                                  !.key      = @ \/ loaded]
  IN  IF loads /\ ~loaded THEN Reply(s, r, ShareLoadFail) ELSE Return(s, r)

\* Mutant: the commitment sent still counts as precomputed.
OfferKeepsPre(s, r) ==
  Reply(s, r, Commit(r.commit, Attestation(s, r.tbs, r.commit)))

\* Send g_commit, signed together with the message it was asked for.
Offer(s, r) == Reply(s, [r EXCEPT !.pre = FALSE],
                     Commit(r.commit, Attestation(s, r.tbs, r.commit)))

\* A request to sign: answer with a commitment bound to the request's tbs.
OnSignReq(s, m) ==
  LET keyed == signer[s].key \/ s \in KeyHolder
      r     == [signer[s] EXCEPT !.key = TRUE, !.tbs = m.tbs,
                                 !.state = "SIGNING"]
  IN  \/ Fault[s] = "dropout" /\ Die(s)
      \/ Fault[s] = "no_commit" /\ Return(s, signer[s])
      \/ /\ Fault[s] \notin {"dropout", "no_commit"}
         /\ \/ ~keyed /\ Reply(s, signer[s], ShareLoadFail)
            \/ keyed /\ r.pre /\ Offer(s, r)
            \/ keyed /\ ~r.pre /\ \E ok \in CoreOutcome :
                 LET d == TryDraw(s, r, ok)
                 IN  IF ok THEN Offer(s, d) ELSE Return(s, d)

\* Mutant: a signer does not verify the signature on its own entry.
AuthenticEntryTrustsSelf(s, b, e) ==
  e.id = s \/ e.sig = Attestation(e.id, b.tbs, e.commit)

\* Mutant: the signature covers the commitment alone.
AuthenticEntryAnyMessage(s, b, e) == e.sig.by = e.id /\ e.sig.commit = e.commit

\* commit_sig verifies as the claimed owner's signature over (tbs || commit).
AuthenticEntry(s, b, e) == e.sig = Attestation(e.id, b.tbs, e.commit)

\* Mutant: entries are verified against the message of SIGN_REQ, which makes
\* the comparison of the messages look superfluous.
AcceptsBundleOwnTbs(s, r, b) ==
  LET idx == DOMAIN b.entries
  IN  /\ Len(b.entries) = r.t
      /\ \A i, j \in idx : i # j => b.entries[i].id # b.entries[j].id
      /\ \A i \in idx : AuthenticEntry(s, Bundle(r.tbs, b.entries), b.entries[i])
      /\ \E i \in idx : b.entries[i].id = s
      /\ \A i \in idx : b.entries[i].id = s => b.entries[i].commit = r.commit

\* The checks a member makes before it signs: (a) exactly g_t entries with
\* distinct ids, (b) each signed by its owner for this bundle's message,
\* (c) its own commitment there, unaltered, (d) the message it was asked
\* about.
AcceptsBundle(s, r, b) ==
  LET idx == DOMAIN b.entries
  IN  /\ Len(b.entries) = r.t
      /\ \A i, j \in idx : i # j => b.entries[i].id # b.entries[j].id
      /\ \A i \in idx : AuthenticEntry(s, b, b.entries[i])
      /\ \E i \in idx : b.entries[i].id = s
      /\ \A i \in idx : b.entries[i].id = s => b.entries[i].commit = r.commit
      /\ b.tbs = r.tbs

\* Mutant: the core signs with whatever the nonce buffer holds.
CanSignUnchecked(s, r, pkg) == TRUE

\* frost_sign: round2::sign needs nonces, and the package must list the
\* commitment to those very nonces under the signer's id.
CanSign(s, r, pkg) == r.nonces # NoCommit /\ <<s, r.nonces>> \in pkg.commits

\* The commit bundle of a session: sign it once and destroy the nonces.
OnRelayCommit(s, m) ==
  LET r     == signer[s]
      pkg   == SigningPackage(m.bundle)
      signs == /\ Fault[s] # "silent"
               /\ r.key
               /\ AcceptsBundle(s, r, m.bundle)
               /\ CanSign(s, r, pkg)
      share == Share(s, r.nonces, pkg, Fault[s] # "bad_share")
  IN  \/ /\ signs
         /\ Reply(s, [ZeroNonces(r) EXCEPT !.state = "COMPLETE"],
                  SigShare(share))
      \/ ~signs /\ Return(s, r)
      \/ signs /\ CoreMayFail /\ Return(s, r)

\* Frames the signer ignores in SIGN mode.
OnCertOutput(s) == Return(s, signer[s])

\* The frames of the two ceremonies, obeyed in SIGN mode too, as far as they
\* touch what signing reads: both START frames replace g_t, a DKG round moves
\* g_state and the last one installs a KeyPackage.  Nonces, commitment and
\* message are left alone.
OnStartDkg(s, m) ==
  Return(s, [signer[s] EXCEPT !.t = m.t, !.state = "COLLECTING"])

OnStartRefresh(s, m) == Return(s, [signer[s] EXCEPT !.t = m.t])

OnDkgRound(s, m) ==
  Return(s, [signer[s] EXCEPT !.state = m.state,
                              !.key   = @ \/ m.state = "COMPLETE"])

ProcessCoordFrame(s, m) ==
  \/ m.type = "HELLO_ACK" /\ OnHelloAck(s, m)
  \/ m.type = "SIGN_REQ" /\ OnSignReq(s, m)
  \/ m.type = "RELAY_COMMIT" /\ OnRelayCommit(s, m)
  \/ m.type = "CERT_OUTPUT" /\ OnCertOutput(s)
  \/ m.type = "START_DKG" /\ OnStartDkg(s, m)
  \/ m.type = "START_REFRESH" /\ OnStartRefresh(s, m)
  \/ m.type = "DKG_ROUND" /\ OnDkgRound(s, m)
=============================================================================
