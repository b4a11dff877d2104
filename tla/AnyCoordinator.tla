--------------------------- MODULE AnyCoordinator ---------------------------
(***************************************************************************)
(* Honest signers under a coordinator that may send any frame at any time: *)
(* the setting in which RELAY_COMMIT's checks have to hold.  Such a        *)
(* coordinator cannot forge an honest signer's RSA signature, so the       *)
(* attestations it can put in a bundle are the ones honest signers sent it *)
(* and whatever the signers outside Honest sign for it.                    *)
(*                                                                         *)
(* The coordinator never discards anything: toC[s] is the whole history of *)
(* what s sent, and the properties are stated on it.                       *)
(***************************************************************************)
EXTENDS FrostSigner

CONSTANTS Messages,   \* the tbs values the coordinator asks to have signed
          AckModes,   \* the modes it announces in HELLO_ACK
          Ceremony,   \* the states its DKG frames lead to
          Thresholds, \* the thresholds it announces in START frames
          MaxDraws    \* bound on the nonces each signer draws

ASSUME EnvironmentAssumption ==
  /\ Messages \subseteq Tbs
  /\ AckModes \subseteq {"S", "D", "R"}
  /\ Ceremony \subseteq {"COLLECTING", "COMPLETE"}
  /\ Thresholds \subseteq Nat
  /\ MaxDraws \in [Signer -> Nat]

vars == <<signer, toC>>

Honest == {s \in Signer : Fault[s] = "none"}

\* Positions of the frames of a given type in a log, and in what s sent.
Positions(log, type) == {i \in DOMAIN log : log[i].type = type}
Sent(s, type) == Positions(toC[s], type)

\* Attestations of honest signers that the coordinator has received.
Received == UNION {{toC[s][i].sig : i \in Sent(s, "COMMIT")} : s \in Honest}

\* Attestations the other signers make at the coordinator's request, and
\* bytes that no key signed.
Made == {Attestation(s, tbs, <<s, 1>>) : s \in Signer \ Honest, tbs \in Messages}
Junk == {Attestation(0, NoTbs, NoCommit)}

\* An entry as its owner made it or under another id, and an entry whose
\* commitment was replaced by one that some signer holds at the moment.
Entries == {Entry(id, sig.commit, sig) : id \in Signer, sig \in Received \cup Made}
             \cup {Entry(s, signer[s].commit, sig) : s \in Honest,
                                                   sig \in Received \cup Junk}

\* One entry too few, the right number, and what a START frame made right.
Sizes == {T - 1, T} \cup Thresholds

Bundles == {Bundle(tbs, es) : tbs \in Messages,
              es \in UNION {[1..k -> Entries] : k \in Sizes}}

Frames == {HelloAck(mode) : mode \in AckModes}
            \cup {SignReq(tbs) : tbs \in Messages}
            \cup {RelayCommit(b) : b \in Bundles}
            \cup {CertOutput}
            \cup {StartDkg(t) : t \in Thresholds}
            \cup {StartRefresh(t) : t \in Thresholds}
            \cup {DkgRound(st) : st \in Ceremony}

Init ==
  /\ signer = [s \in Signer |-> FreshSigner(0)]
  /\ toC = [s \in Signer |-> <<>>]

Receive(s) ==
  /\ \E m \in Frames : ProcessCoordFrame(s, m)
  /\ signer'[s].drawn <= MaxDraws[s]

\* A signer process is killed and started again; nothing but the KeyPackage
\* survives, and the nonces are gone.
Restart(s) ==
  /\ signer' = [signer EXCEPT ![s] = FreshSigner(signer[s].drawn)]
  /\ UNCHANGED toC

Next == \E s \in Honest : Receive(s) \/ Restart(s)

Spec == Init /\ [][Next]_vars

-----------------------------------------------------------------------------
(* Properties.                                                             *)

Attestations == [by : Signer, tbs : Tbs, commit : Commitment]

Packages == [tbs : Tbs, commits : SUBSET (Signer \X Commitment)]

Shares == [by : Signer, nonce : Commitment, pkg : Packages, intact : BOOLEAN]

SignerFrame ==
  [type : {"SHARE_LOAD_FAIL"}]
    \cup [type : {"COMMIT"}, commit : Commitment, sig : Attestations]
    \cup [type : {"SIG_SHARE"}, share : Shares]

\* The globals of every signer and every frame it ever sent are well formed:
\* a COMMIT always carries a commitment and a SIG_SHARE a real nonce.
TypeOK ==
  /\ signer \in [Signer -> SignerRecord]
  /\ toC \in [Signer -> Seq(SignerFrame)]

\* A nonce is used for one signature share only (a second share would give
\* the signer's key share away): neither retries, refused bundles, failed
\* runs of the core, precomputation nor a restart ever lets the nonces that
\* RELAY_COMMIT consumed answer another bundle.
NonceSingleUse ==
  \A s \in Honest : \A i, j \in Sent(s, "SIG_SHARE") :
    i # j => toC[s][i].share.nonce # toC[s][j].share.nonce

\* A commitment is offered for one message only: the precomputed commitment
\* that SIGN_REQ may send is never one that an earlier SIGN_REQ offered.
CommitmentOfferedOnce ==
  \A s \in Honest : \A i, j \in Sent(s, "COMMIT") :
    i # j => toC[s][i].commit # toC[s][j].commit

\* A signer signs only the message of its latest COMMIT, with the nonces that
\* COMMIT offered: an older request, or a commitment precomputed since, can
\* no longer be answered.
SignsLatestRequest ==
  \A s \in Honest : \A j \in Sent(s, "SIG_SHARE") :
    \E i \in Sent(s, "COMMIT") :
      /\ i < j
      /\ \A k \in Sent(s, "COMMIT") : k < j => k <= i
      /\ toC[s][i].sig = Attestation(s, toC[s][j].share.pkg.tbs,
                                        toC[s][j].share.nonce)

\* pkg holds one commitment per signer it names, and according to the logs
\* each honest one among them offered it for the very message of pkg.
AuthenticPackage(logs, pkg) ==
  /\ \A e, f \in pkg.commits : e[1] = f[1] => e = f
  /\ \A e \in pkg.commits : e[1] \in Honest =>
       \E i \in Positions(logs[e[1]], "COMMIT") :
         logs[e[1]][i].sig = Attestation(e[1], pkg.tbs, e[2])

\* An honest signer signs authentic packages only: RELAY_COMMIT's checks let
\* no commitment made for another certificate, and no other signer's, be
\* spliced into a bundle.
PackageAuthentic ==
  \A s \in Honest : \A j \in Sent(s, "SIG_SHARE") :
    AuthenticPackage(toC, toC[s][j].share.pkg)

-----------------------------------------------------------------------------
(* The inductive invariant, for a signer s with globals r that has sent    *)
(* log.  It holds at the end of every pass of the event loop and between a *)
(* handler and the precomputation that follows it.                         *)

\* Commitments offered were drawn by s and attested by s.
OffersOwn(s, r, log) ==
  \A i \in Positions(log, "COMMIT") :
    /\ log[i].commit[1] = s /\ log[i].commit[2] <= r.drawn
    /\ log[i].sig = Attestation(s, log[i].sig.tbs, log[i].commit)

\* Nonces consumed were drawn by s.
SharesOwn(s, r, log) ==
  \A j \in Positions(log, "SIG_SHARE") :
    log[j].share.nonce[1] = s /\ log[j].share.nonce[2] <= r.drawn

\* Nonces in memory are the latest draw, match g_commit and are unspent.
NoncesLive(s, r, log) ==
  r.nonces # NoCommit =>
    /\ r.nonces = <<s, r.drawn>> /\ r.commit = r.nonces
    /\ \A j \in Positions(log, "SIG_SHARE") : log[j].share.nonce # r.nonces

\* A precomputed commitment is backed by nonces and was not offered yet.
PreUnused(s, r, log) ==
  r.pre =>
    /\ r.nonces # NoCommit
    /\ \A i \in Positions(log, "COMMIT") : log[i].commit # r.commit

\* i is the last COMMIT before position j.
LastOffer(log, i, j) ==
  /\ i \in Positions(log, "COMMIT") /\ i < j
  /\ \A k \in Positions(log, "COMMIT") : k < j => k <= i

\* Other nonces in memory stand behind the latest COMMIT, made for g_tbs.
OfferStands(s, r, log) ==
  r.nonces # NoCommit /\ ~r.pre =>
    \E i \in DOMAIN log : /\ LastOffer(log, i, Len(log) + 1)
                          /\ log[i].sig = Attestation(s, r.tbs, r.nonces)

OffersDistinct(log) ==
  \A i, j \in Positions(log, "COMMIT") : i # j => log[i].commit # log[j].commit

SharesDistinct(log) ==
  \A i, j \in Positions(log, "SIG_SHARE") :
    i # j => log[i].share.nonce # log[j].share.nonce

SharesAnswerLast(s, log) ==
  \A j \in Positions(log, "SIG_SHARE") : \E i \in DOMAIN log :
    /\ LastOffer(log, i, j)
    /\ log[i].sig = Attestation(s, log[j].share.pkg.tbs, log[j].share.nonce)

SignerInv(s, r, log) ==
  /\ r \in SignerRecord
  /\ log \in Seq(SignerFrame)
  /\ OffersOwn(s, r, log)
  /\ SharesOwn(s, r, log)
  /\ NoncesLive(s, r, log)
  /\ PreUnused(s, r, log)
  /\ OfferStands(s, r, log)
  /\ OffersDistinct(log)
  /\ SharesDistinct(log)
  /\ SharesAnswerLast(s, log)

\* The signers' histories and memories stay coherent: what makes
\* NonceSingleUse, CommitmentOfferedOnce and SignsLatestRequest inductive.
Coherent ==
  /\ signer \in [Signer -> SignerRecord]
  /\ toC \in [Signer -> Seq(SignerFrame)]
  /\ \A s \in Signer : SignerInv(s, signer[s], toC[s])
=============================================================================
