------------------------ MODULE AnyCoordinatorProofs ------------------------
(***************************************************************************)
(* Proofs that honest signers keep their promises whatever the coordinator *)
(* sends, for every group size, threshold, set of messages and bound.      *)
(*                                                                         *)
(* Every handler ends in the precomputation, so the argument has two       *)
(* halves: the handler preserves SignerInv for the globals and the log it  *)
(* leaves, and Precompute preserves SignerInv for the same log.            *)
(***************************************************************************)
EXTENDS AnyCoordinator, TLAPS

-----------------------------------------------------------------------------
(* Logs that grow by one frame.                                            *)

LEMMA AppendFacts ==
  ASSUME NEW S, NEW q \in Seq(S), NEW f \in S
  PROVE  /\ Append(q, f) \in Seq(S)
         /\ Len(Append(q, f)) = Len(q) + 1
         /\ Len(q) \in Nat
         /\ DOMAIN q = 1..Len(q)
         /\ DOMAIN Append(q, f) = 1..(Len(q) + 1)
         /\ \A i \in 1..Len(q) : Append(q, f)[i] = q[i]
         /\ Append(q, f)[Len(q) + 1] = f
  OBVIOUS

\* A frame of another type leaves the positions of this type alone.
LEMMA PositionsSkip ==
  ASSUME NEW log \in Seq(SignerFrame), NEW f \in SignerFrame, NEW type,
         f.type # type
  PROVE  Positions(Append(log, f), type) = Positions(log, type)
  BY AppendFacts DEF Positions

LEMMA PositionsGrow ==
  ASSUME NEW log \in Seq(SignerFrame), NEW f \in SignerFrame, NEW type,
         f.type = type
  PROVE  Positions(Append(log, f), type) = Positions(log, type) \cup {Len(log) + 1}
  BY AppendFacts DEF Positions

\* Positions lie inside the log, and what is there survives an append.
LEMMA PositionsKept ==
  ASSUME NEW log \in Seq(SignerFrame), NEW f \in SignerFrame, NEW type,
         NEW i \in Positions(log, type)
  PROVE  /\ i \in DOMAIN log /\ i \in DOMAIN Append(log, f)
         /\ i \in Nat /\ i < Len(log) + 1
         /\ Append(log, f)[i] = log[i]
  BY AppendFacts DEF Positions

-----------------------------------------------------------------------------
(* The precomputation.                                                     *)

LEMMA DrawTyped ==
  ASSUME NEW s \in Signer, NEW r \in SignerRecord
  PROVE  /\ DrawNonces(s, r) \in SignerRecord
         /\ DrawNonces(s, r).nonces = <<s, r.drawn + 1>>
         /\ DrawNonces(s, r).commit = <<s, r.drawn + 1>>
         /\ DrawNonces(s, r).drawn = r.drawn + 1
         /\ DrawNonces(s, r).pre = r.pre
         /\ DrawNonces(s, r).tbs = r.tbs
         /\ <<s, r.drawn + 1>> \in Commitment
         /\ <<s, r.drawn + 1>> # NoCommit
  <1>1. r.drawn + 1 \in Nat \ {0}
    BY DEF SignerRecord
  <1>2. s # 0
    BY GroupAssumption DEF Signer
  <1>3. <<s, r.drawn + 1>> \in Commitment /\ <<s, r.drawn + 1>> # NoCommit
    BY <1>1, <1>2 DEF Commitment, NoCommit
  <1> QED
    BY <1>1, <1>3 DEF DrawNonces, SignerRecord

\* Fresh nonces match nothing in the log.
LEMMA FreshDraw ==
  ASSUME NEW s \in Signer, NEW r, NEW log, SignerInv(s, r, log)
  PROVE  /\ \A i \in Positions(log, "COMMIT") : log[i].commit # <<s, r.drawn + 1>>
         /\ \A j \in Positions(log, "SIG_SHARE") :
              log[j].share.nonce # <<s, r.drawn + 1>>
  <1>1. r.drawn \in Nat
    BY DEF SignerInv, SignerRecord
  <1>2. ASSUME NEW i \in Positions(log, "COMMIT")
        PROVE  log[i].commit # <<s, r.drawn + 1>>
    BY <1>1, <1>2 DEF SignerInv, OffersOwn
  <1>3. ASSUME NEW j \in Positions(log, "SIG_SHARE")
        PROVE  log[j].share.nonce # <<s, r.drawn + 1>>
    BY <1>1, <1>3 DEF SignerInv, SharesOwn
  <1> QED
    BY <1>2, <1>3

\* Globals the invariant does not mention may change.
LEMMA SameInv ==
  ASSUME NEW s \in Signer, NEW r, NEW log, SignerInv(s, r, log),
         NEW x \in SignerRecord,
         x.nonces = r.nonces, x.commit = r.commit, x.pre = r.pre,
         x.drawn = r.drawn, x.tbs = r.tbs
  PROVE  SignerInv(s, x, log)
  BY DEF SignerInv, OffersOwn, SharesOwn, NoncesLive, PreUnused, OfferStands

\* Destroying the nonces is always safe, unless g_commit_is_precomputed.
LEMMA ZeroInv ==
  ASSUME NEW s \in Signer, NEW r, NEW log, SignerInv(s, r, log),
         NEW x \in SignerRecord,
         x.nonces = NoCommit, x.pre = FALSE, x.drawn = r.drawn
  PROVE  SignerInv(s, x, log)
  BY DEF SignerInv, OffersOwn, SharesOwn, NoncesLive, PreUnused, OfferStands

\* A new draw, kept for later.
LEMMA PrecomputedInv ==
  ASSUME NEW s \in Signer, NEW r, NEW log, SignerInv(s, r, log),
         NEW x \in SignerRecord,
         x.nonces = <<s, r.drawn + 1>>, x.commit = x.nonces, x.pre = TRUE,
         x.drawn = r.drawn + 1
  PROVE  SignerInv(s, x, log)
  <1>1. r.drawn \in Nat /\ x.nonces # NoCommit
    BY GroupAssumption DEF SignerInv, SignerRecord, NoCommit, Signer
  <1>2. OffersOwn(s, x, log)
    <2> SUFFICES ASSUME NEW i \in Positions(log, "COMMIT")
                 PROVE  /\ log[i].commit[1] = s /\ log[i].commit[2] <= x.drawn
                        /\ log[i].sig = Attestation(s, log[i].sig.tbs, log[i].commit)
      BY DEF OffersOwn
    <2>1. log[i].commit \in Commitment
      BY DEF SignerInv, SignerFrame, Positions, ShareLoadFail
    <2> QED
      BY <1>1, <2>1 DEF SignerInv, OffersOwn, Commitment
  <1>3. SharesOwn(s, x, log)
    <2> SUFFICES ASSUME NEW j \in Positions(log, "SIG_SHARE")
                 PROVE  /\ log[j].share.nonce[1] = s
                        /\ log[j].share.nonce[2] <= x.drawn
      BY DEF SharesOwn
    <2>1. log[j].share.nonce \in Commitment
      BY DEF SignerInv, SignerFrame, Positions, Shares
    <2> QED
      BY <1>1, <2>1 DEF SignerInv, SharesOwn, Commitment
  <1>4. NoncesLive(s, x, log) /\ PreUnused(s, x, log)
    BY <1>1, FreshDraw DEF NoncesLive, PreUnused
  <1>5. OfferStands(s, x, log)
    BY DEF OfferStands
  <1> QED
    BY <1>2, <1>3, <1>4, <1>5 DEF SignerInv

LEMMA PrecomputeInv ==
  ASSUME NEW s \in Signer, NEW r, NEW log, SignerInv(s, r, log), NEW ok \in BOOLEAN
  PROVE  SignerInv(s, Precompute(s, r, ok), log)
  <1> DEFINE x == Precompute(s, r, ok)
  <1>0. r \in SignerRecord
    BY DEF SignerInv
  <1>1. CASE ~(r.signMode /\ r.state \in {"IDLE", "COMPLETE"} /\ ~r.pre)
    <2>1. x = r
      BY <1>1 DEF Precompute
    <2> QED
      BY <2>1
  <1>2. CASE /\ r.signMode /\ r.state \in {"IDLE", "COMPLETE"} /\ ~r.pre
             /\ r.key /\ ok
    <2>1. PICK d \in SignerRecord : d = DrawNonces(s, r)
      BY <1>0, DrawTyped
    <2>2. /\ d.nonces = <<s, r.drawn + 1>> /\ d.commit = <<s, r.drawn + 1>>
          /\ d.drawn = r.drawn + 1
      BY <1>0, <2>1, DrawTyped
    <2>3. x = [d EXCEPT !.pre = TRUE]
      BY <1>2, <2>1 DEF Precompute, TryDraw
    <2> HIDE DEF x
    <2>4. /\ x \in SignerRecord
          /\ x.nonces = <<s, r.drawn + 1>> /\ x.commit = x.nonces
          /\ x.pre = TRUE /\ x.drawn = r.drawn + 1
      BY <2>2, <2>3 DEF SignerRecord
    <2>5. SignerInv(s, x, log)
      BY <2>4, PrecomputedInv
    <2> QED
      BY <2>5 DEF x
  <1>3. CASE /\ r.signMode /\ r.state \in {"IDLE", "COMPLETE"} /\ ~r.pre
             /\ ~(r.key /\ ok)
    <2>1. x = [ZeroNonces(r) EXCEPT !.pre = FALSE]
      BY <1>3 DEF Precompute, TryDraw
    <2>2. /\ x \in SignerRecord
          /\ x.nonces = NoCommit /\ x.pre = FALSE /\ x.drawn = r.drawn
      BY <1>0, <2>1 DEF SignerRecord, ZeroNonces
    <2> QED
      BY <2>2, ZeroInv
  <1> QED
    BY <1>1, <1>2, <1>3

-----------------------------------------------------------------------------
(* Handlers that send a frame.                                             *)

\* SHARE_LOAD_FAIL says nothing about nonces.
LEMMA LoadFailInv ==
  ASSUME NEW s \in Signer, NEW r, NEW log, SignerInv(s, r, log)
  PROVE  SignerInv(s, r, Append(log, ShareLoadFail))
  <1> DEFINE new == Append(log, ShareLoadFail)
  <1>1. /\ ShareLoadFail \in SignerFrame /\ log \in Seq(SignerFrame)
        /\ ShareLoadFail.type # "COMMIT" /\ ShareLoadFail.type # "SIG_SHARE"
    BY DEF ShareLoadFail, SignerFrame, SignerInv
  <1>2. /\ Positions(new, "COMMIT") = Positions(log, "COMMIT")
        /\ Positions(new, "SIG_SHARE") = Positions(log, "SIG_SHARE")
    BY <1>1, PositionsSkip
  <1>3. /\ \A i \in Positions(log, "COMMIT") : new[i] = log[i]
        /\ \A i \in Positions(log, "SIG_SHARE") : new[i] = log[i]
    BY <1>1, PositionsKept
  <1>4. new \in Seq(SignerFrame) /\ Len(new) = Len(log) + 1 /\ Len(log) \in Nat
        /\ DOMAIN log \subseteq DOMAIN new
    BY <1>1, AppendFacts
  <1>5. \A i \in Positions(log, "COMMIT") : i \in Nat /\ i < Len(log) + 1 /\ i \in DOMAIN log
    BY <1>1, PositionsKept
  <1> HIDE DEF new
  <1>6. OffersOwn(s, r, new) /\ SharesOwn(s, r, new)
    BY <1>2, <1>3 DEF SignerInv, OffersOwn, SharesOwn
  <1>7. NoncesLive(s, r, new) /\ PreUnused(s, r, new)
    BY <1>2, <1>3 DEF SignerInv, NoncesLive, PreUnused
  <1>8. OffersDistinct(new) /\ SharesDistinct(new)
    BY <1>2, <1>3 DEF SignerInv, OffersDistinct, SharesDistinct
  <1>9. OfferStands(s, r, new)
    <2> SUFFICES ASSUME r.nonces # NoCommit, ~r.pre
                 PROVE  \E i \in DOMAIN new :
                          /\ LastOffer(new, i, Len(new) + 1)
                          /\ new[i].sig = Attestation(s, r.tbs, r.nonces)
      BY DEF OfferStands
    <2>1. PICK i \in DOMAIN log : /\ LastOffer(log, i, Len(log) + 1)
                                  /\ log[i].sig = Attestation(s, r.tbs, r.nonces)
      BY DEF SignerInv, OfferStands
    <2>2. LastOffer(new, i, Len(new) + 1)
      BY <1>2, <1>4, <1>5, <2>1 DEF LastOffer
    <2> QED
      BY <1>3, <1>4, <2>1, <2>2 DEF LastOffer
  <1>10. SharesAnswerLast(s, new)
    <2> SUFFICES ASSUME NEW j \in Positions(log, "SIG_SHARE")
                 PROVE  \E i \in DOMAIN new :
                          /\ LastOffer(new, i, j)
                          /\ new[i].sig = Attestation(s, new[j].share.pkg.tbs,
                                                         new[j].share.nonce)
      BY <1>2 DEF SharesAnswerLast
    <2>1. PICK i \in DOMAIN log :
                 /\ LastOffer(log, i, j)
                 /\ log[i].sig = Attestation(s, log[j].share.pkg.tbs,
                                                log[j].share.nonce)
      BY DEF SignerInv, SharesAnswerLast
    <2>2. LastOffer(new, i, j) /\ new[i] = log[i] /\ new[j] = log[j]
      BY <1>2, <1>3, <2>1 DEF LastOffer
    <2> QED
      BY <1>4, <2>1, <2>2
  <1> QED
    BY <1>4, <1>6, <1>7, <1>8, <1>9, <1>10 DEF SignerInv, new

\* SIGN_REQ sends COMMIT for nonces that were neither offered nor spent.
LEMMA OfferInv ==
  ASSUME NEW s \in Signer, NEW r, NEW log, SignerInv(s, r, log),
         NEW x \in SignerRecord,
         x.pre = FALSE, x.nonces = <<s, x.drawn>>, x.commit = x.nonces,
         x.nonces \in Commitment, x.tbs \in Tbs, r.drawn <= x.drawn,
         \A i \in Positions(log, "COMMIT") : log[i].commit # x.commit,
         \A j \in Positions(log, "SIG_SHARE") : log[j].share.nonce # x.nonces
  PROVE  SignerInv(s, x, Append(log, Commit(x.commit,
                                            Attestation(s, x.tbs, x.commit))))
  <1> DEFINE f == Commit(x.commit, Attestation(s, x.tbs, x.commit))
             new == Append(log, f)
  <1>1. /\ f \in SignerFrame /\ log \in Seq(SignerFrame)
        /\ f.type = "COMMIT" /\ f.type # "SIG_SHARE"
        /\ f.commit = x.commit /\ f.sig = Attestation(s, x.tbs, x.commit)
        /\ f.sig.tbs = x.tbs
    BY DEF Commit, Attestation, Attestations, SignerFrame, SignerInv
  <1> HIDE DEF f
  <1>2. /\ Positions(new, "COMMIT") = Positions(log, "COMMIT") \cup {Len(log) + 1}
        /\ Positions(new, "SIG_SHARE") = Positions(log, "SIG_SHARE")
    BY <1>1, PositionsSkip, PositionsGrow
  <1>3. /\ \A i \in Positions(log, "COMMIT") : new[i] = log[i]
        /\ \A i \in Positions(log, "SIG_SHARE") : new[i] = log[i]
        /\ new[Len(log) + 1] = f
    BY <1>1, PositionsKept, AppendFacts
  <1>4. /\ new \in Seq(SignerFrame) /\ Len(new) = Len(log) + 1 /\ Len(log) \in Nat
        /\ DOMAIN log \subseteq DOMAIN new /\ Len(log) + 1 \in DOMAIN new
    BY <1>1, AppendFacts
  <1>5. /\ \A i \in Positions(log, "COMMIT") : i \in Nat /\ i < Len(log) + 1
        /\ \A i \in Positions(log, "SIG_SHARE") : i \in Nat /\ i < Len(log) + 1
    BY <1>1, PositionsKept
  <1> HIDE DEF new
  <1>6. r.drawn \in Nat /\ x.drawn \in Nat
    BY DEF SignerInv, SignerRecord
  <1>7. OffersOwn(s, x, new)
    <2> SUFFICES ASSUME NEW i \in Positions(new, "COMMIT")
                 PROVE  /\ new[i].commit[1] = s /\ new[i].commit[2] <= x.drawn
                        /\ new[i].sig = Attestation(s, new[i].sig.tbs, new[i].commit)
      BY DEF OffersOwn
    <2>1. CASE i = Len(log) + 1
      BY <1>1, <1>3, <1>6, <2>1
    <2>2. CASE i \in Positions(log, "COMMIT")
      <3>1. log[i].commit \in Commitment
        BY <2>2 DEF SignerInv, SignerFrame, Positions
      <3>2. log[i].commit[2] \in Nat
        BY <3>1 DEF Commitment
      <3> QED
        BY <1>3, <1>6, <2>2, <3>2 DEF SignerInv, OffersOwn
    <2> QED
      BY <1>2, <2>1, <2>2
  <1>8. SharesOwn(s, x, new)
    <2> SUFFICES ASSUME NEW j \in Positions(log, "SIG_SHARE")
                 PROVE  /\ new[j].share.nonce[1] = s
                        /\ new[j].share.nonce[2] <= x.drawn
      BY <1>2 DEF SharesOwn
    <2>1. log[j].share.nonce \in Commitment
      BY DEF SignerInv, SignerFrame, Positions, Shares
    <2>2. log[j].share.nonce[2] \in Nat
      BY <2>1 DEF Commitment
    <2> QED
      BY <1>3, <1>6, <2>2 DEF SignerInv, SharesOwn
  <1>9. NoncesLive(s, x, new) /\ PreUnused(s, x, new)
    BY <1>2, <1>3 DEF NoncesLive, PreUnused
  <1>10. OfferStands(s, x, new)
    <2>1. LastOffer(new, Len(log) + 1, Len(new) + 1)
      BY <1>2, <1>4, <1>5 DEF LastOffer
    <2>2. new[Len(log) + 1].sig = Attestation(s, x.tbs, x.nonces)
      BY <1>1, <1>3
    <2> QED
      BY <1>4, <2>1, <2>2 DEF OfferStands
  <1>11. OffersDistinct(new)
    BY <1>1, <1>2, <1>3, <1>5 DEF OffersDistinct, SignerInv
  <1>12. SharesDistinct(new)
    BY <1>2, <1>3 DEF SharesDistinct, SignerInv
  <1>13. SharesAnswerLast(s, new)
    <2> SUFFICES ASSUME NEW j \in Positions(log, "SIG_SHARE")
                 PROVE  \E i \in DOMAIN new :
                          /\ LastOffer(new, i, j)
                          /\ new[i].sig = Attestation(s, new[j].share.pkg.tbs,
                                                         new[j].share.nonce)
      BY <1>2 DEF SharesAnswerLast
    <2>1. PICK i \in DOMAIN log :
                 /\ LastOffer(log, i, j)
                 /\ log[i].sig = Attestation(s, log[j].share.pkg.tbs,
                                                log[j].share.nonce)
      BY DEF SignerInv, SharesAnswerLast
    <2>2. LastOffer(new, i, j) /\ new[i] = log[i] /\ new[j] = log[j]
      BY <1>2, <1>3, <1>4, <1>5, <2>1 DEF LastOffer
    <2> QED
      BY <1>4, <2>1, <2>2
  <1>14. SignerInv(s, x, new)
    BY <1>4, <1>7, <1>8, <1>9, <1>10, <1>11, <1>12, <1>13 DEF SignerInv
  <1> QED
    BY <1>14 DEF new, f

\* RELAY_COMMIT sends the share that the latest COMMIT promised and destroys
\* the nonces.
LEMMA ShareInv ==
  ASSUME NEW s \in Signer, NEW r, NEW log, SignerInv(s, r, log),
         r.nonces # NoCommit, ~r.pre,
         NEW pkg \in Packages, pkg.tbs = r.tbs,
         NEW x \in SignerRecord,
         x.nonces = NoCommit, x.pre = FALSE, x.drawn = r.drawn
  PROVE  SignerInv(s, x, Append(log, SigShare(Share(s, r.nonces, pkg, TRUE))))
  <1> DEFINE f == SigShare(Share(s, r.nonces, pkg, TRUE))
             new == Append(log, f)
  <1>0. r \in SignerRecord /\ log \in Seq(SignerFrame)
    BY DEF SignerInv
  <1>1. /\ f \in SignerFrame
        /\ f.type = "SIG_SHARE" /\ f.type # "COMMIT"
        /\ f.share.nonce = r.nonces /\ f.share.pkg = pkg
    <2>1. r.nonces \in Commitment
      BY <1>0 DEF SignerRecord
    <2> QED
      BY <2>1 DEF SigShare, Share, Shares, SignerFrame
  <1> HIDE DEF f
  <1>2. /\ Positions(new, "SIG_SHARE") = Positions(log, "SIG_SHARE") \cup {Len(log) + 1}
        /\ Positions(new, "COMMIT") = Positions(log, "COMMIT")
    BY <1>0, <1>1, PositionsSkip, PositionsGrow
  <1>3. /\ \A i \in Positions(log, "COMMIT") : new[i] = log[i]
        /\ \A i \in Positions(log, "SIG_SHARE") : new[i] = log[i]
        /\ new[Len(log) + 1] = f
    BY <1>0, <1>1, PositionsKept, AppendFacts
  <1>4. /\ new \in Seq(SignerFrame) /\ Len(new) = Len(log) + 1 /\ Len(log) \in Nat
        /\ DOMAIN log \subseteq DOMAIN new /\ Len(log) + 1 \in DOMAIN new
    BY <1>0, <1>1, AppendFacts
  <1>5. /\ \A i \in Positions(log, "COMMIT") : i \in Nat /\ i < Len(log) + 1
        /\ \A i \in Positions(log, "SIG_SHARE") : i \in Nat /\ i < Len(log) + 1
    BY <1>0, <1>1, PositionsKept
  <1> HIDE DEF new
  <1>6. r.drawn \in Nat /\ r.nonces = <<s, r.drawn>>
        /\ \A j \in Positions(log, "SIG_SHARE") : log[j].share.nonce # r.nonces
    BY <1>0 DEF SignerInv, SignerRecord, NoncesLive
  <1>7. OffersOwn(s, x, new)
    BY <1>2, <1>3 DEF SignerInv, OffersOwn
  <1>8. SharesOwn(s, x, new)
    BY <1>1, <1>2, <1>3, <1>6 DEF SignerInv, SharesOwn
  <1>9. NoncesLive(s, x, new) /\ PreUnused(s, x, new) /\ OfferStands(s, x, new)
    BY DEF NoncesLive, PreUnused, OfferStands
  <1>10. OffersDistinct(new)
    BY <1>2, <1>3 DEF OffersDistinct, SignerInv
  <1>11. SharesDistinct(new)
    BY <1>1, <1>2, <1>3, <1>5, <1>6, SMTT(30) DEF SharesDistinct, SignerInv
  <1>12. SharesAnswerLast(s, new)
    <2> SUFFICES ASSUME NEW j \in Positions(new, "SIG_SHARE")
                 PROVE  \E i \in DOMAIN new :
                          /\ LastOffer(new, i, j)
                          /\ new[i].sig = Attestation(s, new[j].share.pkg.tbs,
                                                         new[j].share.nonce)
      BY DEF SharesAnswerLast
    <2>1. CASE j = Len(log) + 1
      <3>1. PICK i \in DOMAIN log : /\ LastOffer(log, i, Len(log) + 1)
                                    /\ log[i].sig = Attestation(s, r.tbs, r.nonces)
        BY DEF SignerInv, OfferStands
      <3>2. LastOffer(new, i, j) /\ new[i] = log[i]
        BY <1>2, <1>3, <2>1, <3>1 DEF LastOffer
      <3> QED
        BY <1>1, <1>3, <1>4, <2>1, <3>1, <3>2
    <2>2. CASE j \in Positions(log, "SIG_SHARE")
      <3>1. PICK i \in DOMAIN log :
                   /\ LastOffer(log, i, j)
                   /\ log[i].sig = Attestation(s, log[j].share.pkg.tbs,
                                                  log[j].share.nonce)
        BY <2>2 DEF SignerInv, SharesAnswerLast
      <3>2. LastOffer(new, i, j) /\ new[i] = log[i] /\ new[j] = log[j]
        BY <1>2, <1>3, <2>2, <3>1 DEF LastOffer
      <3> QED
        BY <1>4, <3>1, <3>2
    <2> QED
      BY <1>2, <2>1, <2>2
  <1>13. SignerInv(s, x, new)
    BY <1>4, <1>7, <1>8, <1>9, <1>10, <1>11, <1>12 DEF SignerInv
  <1> QED
    BY <1>13 DEF new, f

-----------------------------------------------------------------------------
(* Steps of the system.                                                    *)

\* A handler that keeps SignerInv keeps Coherent, for whatever the
\* precomputation does next.
LEMMA EndOfPassInv ==
  ASSUME NEW s \in Signer, Coherent, NEW r, NEW log,
         SignerInv(s, r, log), EndOfPass(s, r), toC' = [toC EXCEPT ![s] = log]
  PROVE  Coherent'
  <1>1. PICK ok \in BOOLEAN : signer' = [signer EXCEPT ![s] = Precompute(s, r, ok)]
    BY DEF EndOfPass, CoreOutcome
  <1>2. PICK x : x = Precompute(s, r, ok) /\ SignerInv(s, x, log)
    BY PrecomputeInv
  <1>3. x \in SignerRecord /\ log \in Seq(SignerFrame)
    BY <1>2 DEF SignerInv
  <1>4. signer' \in [Signer -> SignerRecord] /\ toC' \in [Signer -> Seq(SignerFrame)]
    BY <1>1, <1>2, <1>3 DEF Coherent
  <1>5. ASSUME NEW u \in Signer PROVE SignerInv(u, signer'[u], toC'[u])
    <2>1. CASE u = s
      BY <1>1, <1>2, <2>1 DEF Coherent
    <2>2. CASE u # s
      <3>1. signer'[u] = signer[u] /\ toC'[u] = toC[u]
        BY <1>1, <2>2 DEF Coherent
      <3> QED
        BY <3>1 DEF Coherent
    <2> QED
      BY <2>1, <2>2
  <1> QED
    BY <1>4, <1>5 DEF Coherent

LEMMA ReturnInv ==
  ASSUME NEW s \in Signer, Coherent, NEW r, SignerInv(s, r, toC[s]), Return(s, r)
  PROVE  Coherent'
  <1>1. toC' = [toC EXCEPT ![s] = toC[s]]
    BY DEF Return, Coherent
  <1> QED
    BY <1>1, EndOfPassInv DEF Return

LEMMA ReplyInv ==
  ASSUME NEW s \in Signer, Coherent, NEW r, NEW f,
         SignerInv(s, r, Append(toC[s], f)), Reply(s, r, f)
  PROVE  Coherent'
  <1>1. toC' = [toC EXCEPT ![s] = Append(toC[s], f)]
    BY DEF Reply
  <1> QED
    BY <1>1, EndOfPassInv DEF Reply

LEMMA HelloAckStep ==
  ASSUME NEW s \in Signer, Coherent, NEW mode, OnHelloAck(s, HelloAck(mode))
  PROVE  Coherent'
  <1> DEFINE loads  == mode \in {"S", "R"}
             loaded == loads /\ s \in KeyHolder
             r == [signer[s] EXCEPT !.signMode = (mode = "S"),
                                    !.key = signer[s].key \/ loaded]
  <1>1. SignerInv(s, signer[s], toC[s]) /\ signer[s] \in SignerRecord
    BY DEF Coherent
  <1>2. r \in SignerRecord
    BY <1>1 DEF SignerRecord
  <1>3. /\ r.nonces = signer[s].nonces /\ r.commit = signer[s].commit
        /\ r.pre = signer[s].pre /\ r.drawn = signer[s].drawn
        /\ r.tbs = signer[s].tbs
    BY <1>1 DEF SignerRecord
  <1>4. IF loads /\ ~loaded THEN Reply(s, r, ShareLoadFail) ELSE Return(s, r)
    BY DEF OnHelloAck, HelloAck
  <1> HIDE DEF r, loads, loaded
  <1>5. SignerInv(s, r, toC[s])
    BY <1>1, <1>2, <1>3, SameInv
  <1>6. CASE Reply(s, r, ShareLoadFail)
    <2>1. SignerInv(s, r, Append(toC[s], ShareLoadFail))
      BY <1>5, LoadFailInv
    <2> QED
      BY <1>6, <2>1, ReplyInv
  <1>7. CASE Return(s, r)
    BY <1>5, <1>7, ReturnInv
  <1> QED
    BY <1>4, <1>6, <1>7

\* A precomputed commitment goes out for the message just received; without
\* one, a new draw does; without a draw, nothing.
LEMMA SignReqStep ==
  ASSUME NEW s \in Honest, Coherent, NEW tbs \in Tbs, OnSignReq(s, SignReq(tbs))
  PROVE  Coherent'
  <1> DEFINE old == signer[s]
             r == [signer[s] EXCEPT !.key = TRUE, !.tbs = tbs, !.state = "SIGNING"]
  <1>0. s \in Signer /\ Fault[s] = "none"
    BY DEF Honest
  <1>1. SignerInv(s, old, toC[s]) /\ old \in SignerRecord
    BY <1>0 DEF Coherent
  <1>2. /\ r \in SignerRecord
        /\ r.nonces = old.nonces /\ r.commit = old.commit /\ r.pre = old.pre
        /\ r.drawn = old.drawn /\ r.tbs = tbs /\ r.key = TRUE
    BY <1>1 DEF SignerRecord, SignerState
  <1>3. \/ Reply(s, old, ShareLoadFail)
        \/ r.pre /\ Offer(s, r)
        \/ ~r.pre /\ \E ok \in BOOLEAN : IF ok THEN Offer(s, TryDraw(s, r, ok))
                                               ELSE Return(s, TryDraw(s, r, ok))
    BY <1>0 DEF OnSignReq, SignReq, CoreOutcome
  <1> HIDE DEF r
  <1>4. CASE Reply(s, old, ShareLoadFail)
    <2>1. SignerInv(s, old, Append(toC[s], ShareLoadFail))
      BY <1>0, <1>1, LoadFailInv
    <2> QED
      BY <1>0, <1>4, <2>1, ReplyInv
  <1>5. CASE r.pre /\ Offer(s, r)
    <2> DEFINE x == [r EXCEPT !.pre = FALSE]
    <2>1. /\ x \in SignerRecord
          /\ x.pre = FALSE /\ x.nonces = r.nonces /\ x.commit = r.commit
          /\ x.drawn = r.drawn /\ x.tbs = r.tbs
      BY <1>2 DEF SignerRecord
    <2>2. Reply(s, x, Commit(x.commit, Attestation(s, x.tbs, x.commit)))
      BY <1>5, <2>1 DEF Offer
    <2> HIDE DEF x
    <2>3. /\ old.nonces # NoCommit
          /\ \A i \in Positions(toC[s], "COMMIT") : toC[s][i].commit # old.commit
      BY <1>1, <1>2, <1>5 DEF SignerInv, PreUnused
    <2>4. /\ old.nonces = <<s, old.drawn>> /\ old.commit = old.nonces
          /\ old.nonces \in Commitment /\ old.drawn \in Nat
          /\ \A j \in Positions(toC[s], "SIG_SHARE") :
               toC[s][j].share.nonce # old.nonces
      BY <1>1, <2>3 DEF SignerInv, NoncesLive, SignerRecord
    <2>5. /\ x.nonces = <<s, x.drawn>> /\ x.commit = x.nonces /\ x.nonces \in Commitment
          /\ x.tbs \in Tbs /\ old.drawn <= x.drawn
          /\ \A i \in Positions(toC[s], "COMMIT") : toC[s][i].commit # x.commit
          /\ \A j \in Positions(toC[s], "SIG_SHARE") :
               toC[s][j].share.nonce # x.nonces
      BY <1>2, <2>1, <2>3, <2>4
    <2>6. SignerInv(s, x, Append(toC[s], Commit(x.commit, Attestation(s, x.tbs, x.commit))))
      BY <1>0, <1>1, <2>1, <2>5, OfferInv
    <2> QED
      BY <1>0, <2>2, <2>6, ReplyInv
  <1>6. CASE ~r.pre /\ Offer(s, TryDraw(s, r, TRUE))
    <2>1. PICK d \in SignerRecord : d = DrawNonces(s, r)
      BY <1>0, <1>2, DrawTyped
    <2>2. /\ d.nonces = <<s, r.drawn + 1>> /\ d.commit = <<s, r.drawn + 1>>
          /\ d.drawn = r.drawn + 1 /\ d.tbs = r.tbs
          /\ d.nonces \in Commitment
      BY <1>0, <1>2, <2>1, DrawTyped
    <2>3. Offer(s, d)
      BY <1>2, <1>6, <2>1 DEF TryDraw
    <2> DEFINE x == [d EXCEPT !.pre = FALSE]
    <2>4. /\ x \in SignerRecord
          /\ x.pre = FALSE /\ x.nonces = d.nonces /\ x.commit = d.commit
          /\ x.drawn = d.drawn /\ x.tbs = d.tbs
      BY DEF SignerRecord
    <2>5. Reply(s, x, Commit(x.commit, Attestation(s, x.tbs, x.commit)))
      BY <2>3, <2>4 DEF Offer
    <2> HIDE DEF x
    <2>6. old.drawn \in Nat
      BY <1>1 DEF SignerRecord
    <2>7. /\ \A i \in Positions(toC[s], "COMMIT") : toC[s][i].commit # x.commit
          /\ \A j \in Positions(toC[s], "SIG_SHARE") :
               toC[s][j].share.nonce # x.nonces
      BY <1>0, <1>1, <1>2, <2>2, <2>4, FreshDraw
    <2>8. /\ x.nonces = <<s, x.drawn>> /\ x.commit = x.nonces /\ x.nonces \in Commitment
          /\ x.tbs \in Tbs /\ old.drawn <= x.drawn
      BY <1>2, <2>2, <2>4, <2>6
    <2>9. SignerInv(s, x, Append(toC[s], Commit(x.commit, Attestation(s, x.tbs, x.commit))))
      BY <1>0, <1>1, <2>4, <2>7, <2>8, OfferInv
    <2> QED
      BY <1>0, <2>5, <2>9, ReplyInv
  <1>7. CASE ~r.pre /\ Return(s, TryDraw(s, r, FALSE))
    <2>1. TryDraw(s, r, FALSE) = [r EXCEPT !.nonces = NoCommit]
      BY DEF TryDraw, ZeroNonces
    <2>2. r.pre = FALSE
      BY <1>2, <1>7 DEF SignerRecord
    <2> DEFINE x == [r EXCEPT !.nonces = NoCommit]
    <2>3. /\ x \in SignerRecord
          /\ x.nonces = NoCommit /\ x.pre = FALSE /\ x.drawn = r.drawn
      BY <1>2, <2>2 DEF SignerRecord
    <2>4. Return(s, x)
      BY <1>7, <2>1
    <2> HIDE DEF x
    <2>5. SignerInv(s, x, toC[s])
      BY <1>0, <1>1, <1>2, <2>3, ZeroInv
    <2> QED
      BY <1>0, <2>4, <2>5, ReturnInv
  <1> QED
    BY <1>3, <1>4, <1>5, <1>6, <1>7

\* The ceremonies touch neither nonces, commitment, message nor the log.
LEMMA CeremonyStep ==
  ASSUME NEW s \in Signer, Coherent, NEW m \in Frames,
         \/ m.type = "START_DKG" /\ OnStartDkg(s, m)
         \/ m.type = "START_REFRESH" /\ OnStartRefresh(s, m)
         \/ m.type = "DKG_ROUND" /\ OnDkgRound(s, m)
  PROVE  Coherent' /\ UNCHANGED toC
  <1>1. SignerInv(s, signer[s], toC[s]) /\ signer[s] \in SignerRecord
    BY DEF Coherent
  <1>2. /\ m.type \in {"START_DKG", "START_REFRESH"} => m.t \in Nat
        /\ m.type = "DKG_ROUND" => m.state \in {"COLLECTING", "COMPLETE"}
    BY EnvironmentAssumption DEF Frames, HelloAck, SignReq, RelayCommit, CertOutput,
                                 StartDkg, StartRefresh, DkgRound
  <1>3. PICK r \in SignerRecord :
          /\ Return(s, r)
          /\ r.nonces = signer[s].nonces /\ r.commit = signer[s].commit
          /\ r.pre = signer[s].pre /\ r.drawn = signer[s].drawn
          /\ r.tbs = signer[s].tbs
    <2>1. CASE m.type = "START_DKG" /\ OnStartDkg(s, m)
      <3> DEFINE x == [signer[s] EXCEPT !.t = m.t, !.state = "COLLECTING"]
      <3>1. /\ x \in SignerRecord
            /\ x.nonces = signer[s].nonces /\ x.commit = signer[s].commit
            /\ x.pre = signer[s].pre /\ x.drawn = signer[s].drawn
            /\ x.tbs = signer[s].tbs
        BY <1>1, <1>2, <2>1 DEF SignerRecord, SignerState
      <3>2. Return(s, x)
        BY <2>1 DEF OnStartDkg
      <3> QED
        BY <3>1, <3>2
    <2>2. CASE m.type = "START_REFRESH" /\ OnStartRefresh(s, m)
      <3> DEFINE x == [signer[s] EXCEPT !.t = m.t]
      <3>1. /\ x \in SignerRecord
            /\ x.nonces = signer[s].nonces /\ x.commit = signer[s].commit
            /\ x.pre = signer[s].pre /\ x.drawn = signer[s].drawn
            /\ x.tbs = signer[s].tbs
        BY <1>1, <1>2, <2>2 DEF SignerRecord
      <3>2. Return(s, x)
        BY <2>2 DEF OnStartRefresh
      <3> QED
        BY <3>1, <3>2
    <2>3. CASE m.type = "DKG_ROUND" /\ OnDkgRound(s, m)
      <3> DEFINE x == [signer[s] EXCEPT !.state = m.state,
                         !.key = signer[s].key \/ m.state = "COMPLETE"]
      <3>1. /\ x \in SignerRecord
            /\ x.nonces = signer[s].nonces /\ x.commit = signer[s].commit
            /\ x.pre = signer[s].pre /\ x.drawn = signer[s].drawn
            /\ x.tbs = signer[s].tbs
        BY <1>1, <1>2, <2>3 DEF SignerRecord, SignerState
      <3>2. Return(s, x)
        BY <2>3 DEF OnDkgRound
      <3> QED
        BY <3>1, <3>2
    <2> QED
      BY <2>1, <2>2, <2>3
  <1>4. SignerInv(s, r, toC[s])
    BY <1>1, <1>3, SameInv
  <1> QED
    BY <1>3, <1>4, ReturnInv DEF Return

-----------------------------------------------------------------------------
(* Bundles that pass the checks of RELAY_COMMIT.                           *)

\* An entry whose signature verifies was made by its owner; if the owner is
\* honest, it is in a COMMIT the owner sent.
LEMMA EntryMadeByOwner ==
  ASSUME Coherent, NEW e \in Entries, NEW tbs,
         e.sig = Attestation(e.id, tbs, e.commit)
  PROVE  /\ e.id \in Signer /\ e.commit \in Commitment
         /\ e.id \in Honest =>
              \E i \in Sent(e.id, "COMMIT") :
                /\ toC[e.id][i].sig = e.sig
                /\ toC[e.id][i].commit = e.commit
  <1>1. e.id \in Signer /\ e.sig \in Received \cup Made \cup Junk
    BY DEF Entries, Entry, Honest
  <1>2. CASE e.sig \in Junk
    <2>1. e.id = 0
      BY <1>2 DEF Junk, Attestation
    <2> QED
      BY <1>1, <2>1, GroupAssumption DEF Signer
  <1>3. CASE e.sig \in Made
    <2>1. PICK u \in Signer \ Honest, w \in Messages :
            e.sig = Attestation(u, w, <<u, 1>>)
      BY <1>3 DEF Made
    <2>2. e.id = u /\ e.commit = <<u, 1>>
      BY <2>1 DEF Attestation
    <2> QED
      BY <2>1, <2>2 DEF Commitment
  <1>4. CASE e.sig \in Received
    <2>1. PICK u \in Honest : \E i \in Sent(u, "COMMIT") : e.sig = toC[u][i].sig
      BY <1>4 DEF Received
    <2>2. PICK i \in Sent(u, "COMMIT") : e.sig = toC[u][i].sig
      BY <2>1
    <2>3. u \in Signer /\ SignerInv(u, signer[u], toC[u])
      BY <2>1 DEF Honest, Coherent
    <2>4. /\ toC[u][i].sig = Attestation(u, toC[u][i].sig.tbs, toC[u][i].commit)
          /\ toC[u][i].commit \in Commitment
      BY <2>2, <2>3 DEF SignerInv, OffersOwn, Sent, Positions, SignerFrame
    <2>5. e.id = u /\ e.commit = toC[u][i].commit
      BY <2>2, <2>4 DEF Attestation
    <2> QED
      BY <2>2, <2>3, <2>4, <2>5
  <1> QED
    BY <1>1, <1>2, <1>3, <1>4

\* The message of a bundle, and its entries.
LEMMA BundleShape ==
  ASSUME NEW b \in Bundles
  PROVE  /\ b.tbs \in Messages
         /\ \A i \in DOMAIN b.entries : b.entries[i] \in Entries
  <1>1. PICK tbs \in Messages, k \in Sizes :
          \E es \in [1..k -> Entries] : b = Bundle(tbs, es)
    BY DEF Bundles
  <1>2. PICK es \in [1..k -> Entries] : b = Bundle(tbs, es)
    BY <1>1
  <1>3. b.tbs = tbs /\ b.entries = es
    BY <1>2 DEF Bundle
  <1> QED
    BY <1>3

LEMMA AcceptedPackage ==
  ASSUME Coherent, NEW s, NEW r, NEW b \in Bundles, AcceptsBundle(s, r, b)
  PROVE  /\ SigningPackage(b) \in Packages
         /\ AuthenticPackage(toC, SigningPackage(b))
  <1> DEFINE pkg == SigningPackage(b)
             idx == DOMAIN b.entries
  <1>1. b.tbs \in Messages /\ \A i \in idx : b.entries[i] \in Entries
    BY BundleShape
  <1>2. \A i \in idx : b.entries[i].sig =
          Attestation(b.entries[i].id, b.tbs, b.entries[i].commit)
    BY DEF AcceptsBundle, AuthenticEntry
  <1>3. /\ pkg.tbs = b.tbs
        /\ pkg.commits = {<<b.entries[i].id, b.entries[i].commit>> : i \in idx}
    BY DEF SigningPackage
  <1>4. ASSUME NEW i \in idx
        PROVE  /\ b.entries[i].id \in Signer /\ b.entries[i].commit \in Commitment
               /\ b.entries[i].id \in Honest =>
                    \E k \in Sent(b.entries[i].id, "COMMIT") :
                      toC[b.entries[i].id][k].sig =
                        Attestation(b.entries[i].id, b.tbs, b.entries[i].commit)
    BY <1>1, <1>2, EntryMadeByOwner
  <1>5. pkg \in Packages
    <2>1. pkg.commits \in SUBSET (Signer \X Commitment)
      BY <1>3, <1>4
    <2>2. b.tbs \in Tbs
      BY <1>1, EnvironmentAssumption
    <2>3. pkg = [tbs |-> pkg.tbs, commits |-> pkg.commits]
      BY DEF SigningPackage
    <2> QED
      BY <1>3, <2>1, <2>2, <2>3 DEF Packages
  <1>6. ASSUME NEW e \in pkg.commits, NEW f \in pkg.commits, e[1] = f[1]
        PROVE  e = f
    <2>1. PICK i \in idx : e = <<b.entries[i].id, b.entries[i].commit>>
      BY <1>3
    <2>2. PICK j \in idx : f = <<b.entries[j].id, b.entries[j].commit>>
      BY <1>3
    <2>3. i = j
      BY <1>6, <2>1, <2>2 DEF AcceptsBundle
    <2> QED
      BY <2>1, <2>2, <2>3
  <1>7. ASSUME NEW e \in pkg.commits, e[1] \in Honest
        PROVE  \E k \in Sent(e[1], "COMMIT") :
                 toC[e[1]][k].sig = Attestation(e[1], pkg.tbs, e[2])
    <2>1. PICK i \in idx : e = <<b.entries[i].id, b.entries[i].commit>>
      BY <1>3, <1>7
    <2> QED
      BY <1>3, <1>4, <1>7, <2>1
  <1> QED
    BY <1>5, <1>6, <1>7 DEF AuthenticPackage, Sent

\* What RELAY_COMMIT signs is the latest offer: a precomputed commitment has
\* no attestation yet, so no bundle can contain it.
LEMMA RelayCommitStep ==
  ASSUME NEW s \in Honest, Coherent, NEW b \in Bundles,
         OnRelayCommit(s, RelayCommit(b))
  PROVE  /\ Coherent'
         /\ \/ UNCHANGED toC
            \/ \E f : /\ toC' = [toC EXCEPT ![s] = Append(@, f)]
                      /\ f.type = "SIG_SHARE" /\ f.share.pkg = SigningPackage(b)
                      /\ AuthenticPackage(toC, SigningPackage(b))
  <1> DEFINE r   == signer[s]
             pkg == SigningPackage(b)
             x   == [ZeroNonces(r) EXCEPT !.state = "COMPLETE"]
             f   == SigShare(Share(s, r.nonces, pkg, TRUE))
  <1>0. s \in Signer /\ Fault[s] = "none"
    BY DEF Honest
  <1>1. SignerInv(s, r, toC[s]) /\ r \in SignerRecord
    BY <1>0 DEF Coherent
  <1>2. \/ Return(s, r)
        \/ AcceptsBundle(s, r, b) /\ CanSign(s, r, pkg) /\ Reply(s, x, f)
    BY <1>0 DEF OnRelayCommit, RelayCommit
  <1>3. CASE Return(s, r)
    <2>1. Coherent'
      BY <1>0, <1>1, <1>3, ReturnInv
    <2> QED
      BY <1>3, <2>1 DEF Return
  <1>4. CASE AcceptsBundle(s, r, b) /\ CanSign(s, r, pkg) /\ Reply(s, x, f)
    <2>1. pkg \in Packages /\ AuthenticPackage(toC, pkg)
      BY <1>4, AcceptedPackage
    <2>2. pkg.tbs = r.tbs
      BY <1>4 DEF AcceptsBundle, SigningPackage
    <2>3. r.nonces # NoCommit
      BY <1>4 DEF CanSign
    <2>4. ~r.pre
      <3> SUFFICES ASSUME r.pre PROVE FALSE
        OBVIOUS
      <3>1. \A i \in DOMAIN b.entries : b.entries[i] \in Entries
        BY BundleShape
      <3>2. PICK i \in DOMAIN b.entries :
              /\ b.entries[i].id = s
              /\ b.entries[i].commit = r.commit
              /\ b.entries[i].sig = Attestation(s, b.tbs, r.commit)
        BY <1>4, <3>1 DEF AcceptsBundle, AuthenticEntry
      <3>3. PICK e \in Entries : /\ e.id = s /\ e.commit = r.commit
                                 /\ e.sig = Attestation(e.id, b.tbs, e.commit)
        BY <3>1, <3>2
      <3>4. \E k \in Sent(s, "COMMIT") : toC[s][k].commit = r.commit
        BY <3>3, EntryMadeByOwner
      <3> QED
        BY <1>1, <3>4 DEF SignerInv, PreUnused, Sent
    <2>5. /\ x \in SignerRecord
          /\ x.nonces = NoCommit /\ x.pre = FALSE /\ x.drawn = r.drawn
      BY <1>1, <2>4 DEF SignerRecord, ZeroNonces, SignerState
    <2> HIDE DEF x, pkg
    <2>6. SignerInv(s, x, Append(toC[s], f))
      BY <1>0, <1>1, <2>1, <2>2, <2>3, <2>4, <2>5, ShareInv
    <2>7. Coherent'
      BY <1>0, <1>4, <2>6, ReplyInv
    <2>8. f.type = "SIG_SHARE" /\ f.share.pkg = pkg
      BY DEF SigShare, Share
    <2>9. toC' = [toC EXCEPT ![s] = Append(toC[s], f)]
      BY <1>4 DEF Reply
    <2> QED
      BY <2>1, <2>7, <2>8, <2>9 DEF pkg
  <1> QED
    BY <1>2, <1>3, <1>4

\* The other frames make no share.
LEMMA OtherFrameStep ==
  ASSUME NEW s \in Honest, Coherent, NEW m \in Frames,
         m.type # "RELAY_COMMIT", ProcessCoordFrame(s, m)
  PROVE  /\ Coherent'
         /\ \/ UNCHANGED toC
            \/ \E f : /\ toC' = [toC EXCEPT ![s] = Append(@, f)]
                      /\ f.type # "SIG_SHARE"
  <1>0. s \in Signer /\ Fault[s] = "none"
    BY DEF Honest
  <1>1. CASE \E mode \in AckModes : m = HelloAck(mode)
    <2>1. PICK mode \in AckModes : m = HelloAck(mode)
      BY <1>1
    <2>2. OnHelloAck(s, HelloAck(mode))
      BY <2>1 DEF ProcessCoordFrame, HelloAck
    <2>3. \/ UNCHANGED toC
          \/ toC' = [toC EXCEPT ![s] = Append(@, ShareLoadFail)]
      BY <2>2 DEF OnHelloAck, Reply, Return
    <2> QED
      BY <1>0, <2>2, <2>3, HelloAckStep DEF ShareLoadFail
  <1>2. CASE \E tbs \in Messages : m = SignReq(tbs)
    <2>1. PICK tbs \in Messages : m = SignReq(tbs)
      BY <1>2
    <2>2. OnSignReq(s, SignReq(tbs)) /\ tbs \in Tbs
      BY <2>1, EnvironmentAssumption DEF ProcessCoordFrame, SignReq
    <2>3. \/ UNCHANGED toC
          \/ toC' = [toC EXCEPT ![s] = Append(@, ShareLoadFail)]
          \/ \E c, sig : toC' = [toC EXCEPT ![s] = Append(@, Commit(c, sig))]
      BY <1>0, <2>2 DEF OnSignReq, Offer, Reply, Return
    <2>4. \/ UNCHANGED toC
          \/ \E f : toC' = [toC EXCEPT ![s] = Append(@, f)] /\ f.type # "SIG_SHARE"
      <3>1. /\ ShareLoadFail.type # "SIG_SHARE"
            /\ \A c, sig : Commit(c, sig).type # "SIG_SHARE"
        BY DEF ShareLoadFail, Commit
      <3> QED
        BY <2>3, <3>1
    <2>5. Coherent'
      BY <2>2, SignReqStep
    <2> QED
      BY <2>4, <2>5
  <1>3. CASE m = CertOutput
    <2>1. Return(s, signer[s]) /\ SignerInv(s, signer[s], toC[s])
      BY <1>0, <1>3 DEF ProcessCoordFrame, CertOutput, OnCertOutput, Coherent
    <2> QED
      BY <1>0, <2>1, ReturnInv DEF Return
  <1>4. CASE m.type \in {"START_DKG", "START_REFRESH", "DKG_ROUND"}
    <2>1. \/ m.type = "START_DKG" /\ OnStartDkg(s, m)
          \/ m.type = "START_REFRESH" /\ OnStartRefresh(s, m)
          \/ m.type = "DKG_ROUND" /\ OnDkgRound(s, m)
      BY <1>4 DEF ProcessCoordFrame
    <2> QED
      BY <1>0, <2>1, CeremonyStep
  <1> QED
    BY <1>1, <1>2, <1>3, <1>4 DEF Frames, RelayCommit, StartDkg, StartRefresh,
                                  DkgRound

\* Offers are never taken back, so authentic packages stay authentic.
LEMMA AuthenticKept ==
  ASSUME Coherent, NEW s \in Signer, NEW f \in SignerFrame,
         toC' = [toC EXCEPT ![s] = Append(toC[s], f)],
         NEW pkg, AuthenticPackage(toC, pkg)
  PROVE  AuthenticPackage(toC', pkg)
  <1> SUFFICES ASSUME NEW e \in pkg.commits, e[1] \in Honest
               PROVE  \E i \in Positions(toC'[e[1]], "COMMIT") :
                        toC'[e[1]][i].sig = Attestation(e[1], pkg.tbs, e[2])
    BY DEF AuthenticPackage
  <1>1. PICK i \in Positions(toC[e[1]], "COMMIT") :
          toC[e[1]][i].sig = Attestation(e[1], pkg.tbs, e[2])
    BY DEF AuthenticPackage
  <1>2. e[1] \in Signer /\ toC \in [Signer -> Seq(SignerFrame)]
    BY DEF Honest, Coherent
  <1>3. CASE e[1] = s
    <2>1. toC'[s] = Append(toC[s], f) /\ toC[s] \in Seq(SignerFrame)
      BY <1>2
    <2>2. i \in DOMAIN toC'[s] /\ toC'[s][i] = toC[s][i]
      BY <1>1, <1>3, <2>1, PositionsKept
    <2> QED
      BY <1>1, <1>3, <2>2 DEF Positions
  <1>4. CASE e[1] # s
    BY <1>1, <1>2, <1>4
  <1> QED
    BY <1>3, <1>4

LEMMA PackageAuthenticStep ==
  ASSUME Coherent, Coherent', PackageAuthentic, NEW s \in Signer, NEW f,
         toC' = [toC EXCEPT ![s] = Append(toC[s], f)],
         f.type = "SIG_SHARE" => AuthenticPackage(toC, f.share.pkg)
  PROVE  PackageAuthentic'
  <1>1. /\ toC[s] \in Seq(SignerFrame) /\ toC'[s] \in Seq(SignerFrame)
        /\ toC'[s] = Append(toC[s], f)
    BY DEF Coherent
  <1>2. f \in SignerFrame
    BY <1>1
  <1> SUFFICES ASSUME NEW u \in Honest, NEW j \in Positions(toC'[u], "SIG_SHARE")
               PROVE  AuthenticPackage(toC', toC'[u][j].share.pkg)
    BY DEF PackageAuthentic, Sent
  <1>3. u \in Signer /\ toC \in [Signer -> Seq(SignerFrame)]
    BY DEF Honest, Coherent
  <1>4. AuthenticPackage(toC, toC'[u][j].share.pkg)
    <2>1. CASE u # s
      BY <1>3, <2>1 DEF PackageAuthentic, Sent
    <2>2. CASE u = s /\ j = Len(toC[s]) + 1
      <3>1. toC'[s][j] = f
        BY <1>1, <1>2, <2>2, AppendFacts
      <3> QED
        BY <2>2, <3>1 DEF Positions
    <2>3. CASE u = s /\ j # Len(toC[s]) + 1
      <3>1. j \in Positions(toC[s], "SIG_SHARE") /\ toC'[s][j] = toC[s][j]
        BY <1>1, <1>2, <2>3, AppendFacts DEF Positions
      <3> QED
        BY <2>3, <3>1 DEF PackageAuthentic, Sent
    <2> QED
      BY <2>1, <2>2, <2>3
  <1> QED
    BY <1>2, <1>4, AuthenticKept

-----------------------------------------------------------------------------
(* The theorems.                                                           *)

LEMMA InitCoherent == Init => Coherent /\ PackageAuthentic
  <1> SUFFICES ASSUME Init PROVE Coherent /\ PackageAuthentic
    OBVIOUS
  <1>1. FreshSigner(0) \in SignerRecord
    BY GroupAssumption DEF FreshSigner, SignerRecord, SignerState
  <1>2. <<>> \in Seq(SignerFrame) /\ \A type : Positions(<<>>, type) = {}
    BY DEF Positions
  <1>3. ASSUME NEW s \in Signer PROVE SignerInv(s, FreshSigner(0), <<>>)
    BY <1>1, <1>2 DEF SignerInv, OffersOwn, SharesOwn, NoncesLive, PreUnused,
       OfferStands, OffersDistinct, SharesDistinct, SharesAnswerLast, FreshSigner
  <1>4. Coherent
    BY <1>1, <1>2, <1>3 DEF Init, Coherent
  <1>5. PackageAuthentic
    BY <1>2 DEF Init, PackageAuthentic, Sent, Honest
  <1> QED
    BY <1>4, <1>5

LEMMA RestartStep ==
  ASSUME NEW s \in Honest, Coherent, Restart(s)
  PROVE  Coherent' /\ UNCHANGED toC
  <1> DEFINE x == FreshSigner(signer[s].drawn)
  <1>0. s \in Signer
    BY DEF Honest
  <1>1. SignerInv(s, signer[s], toC[s]) /\ signer[s].drawn \in Nat
    BY <1>0 DEF Coherent, SignerRecord
  <1>2. /\ x \in SignerRecord
        /\ x.nonces = NoCommit /\ x.pre = FALSE /\ x.drawn = signer[s].drawn
    BY <1>1, GroupAssumption DEF FreshSigner, SignerRecord, SignerState
  <1>3. signer' = [signer EXCEPT ![s] = x] /\ toC' = toC
    BY DEF Restart
  <1> HIDE DEF x
  <1>4. SignerInv(s, x, toC[s])
    BY <1>0, <1>1, <1>2, ZeroInv
  <1>5. ASSUME NEW u \in Signer PROVE SignerInv(u, signer'[u], toC'[u])
    BY <1>3, <1>4 DEF Coherent
  <1> QED
    BY <1>2, <1>3, <1>5 DEF Coherent

LEMMA NextCoherent ==
  ASSUME Coherent, PackageAuthentic, [Next]_vars
  PROVE  Coherent' /\ PackageAuthentic'
  <1>1. ASSUME NEW s \in Honest, Receive(s)
        PROVE  Coherent' /\ PackageAuthentic'
    <2>0. s \in Signer
      BY DEF Honest
    <2>1. PICK m \in Frames : ProcessCoordFrame(s, m)
      BY <1>1 DEF Receive
    <2>2. CASE m.type # "RELAY_COMMIT"
      <3>1. /\ Coherent'
            /\ \/ UNCHANGED toC
               \/ \E f : /\ toC' = [toC EXCEPT ![s] = Append(@, f)]
                         /\ f.type # "SIG_SHARE"
        BY <2>1, <2>2, OtherFrameStep
      <3>2. CASE UNCHANGED toC
        BY <3>1, <3>2 DEF PackageAuthentic, Sent
      <3> QED
        BY <2>0, <3>1, <3>2, PackageAuthenticStep
    <2>3. CASE m.type = "RELAY_COMMIT"
      <3>1. PICK b \in Bundles : m = RelayCommit(b)
        BY <2>3 DEF Frames, HelloAck, SignReq, CertOutput, StartDkg, StartRefresh,
                    DkgRound
      <3>2. OnRelayCommit(s, RelayCommit(b))
        BY <2>1, <3>1 DEF ProcessCoordFrame, RelayCommit
      <3>3. /\ Coherent'
            /\ \/ UNCHANGED toC
               \/ \E f : /\ toC' = [toC EXCEPT ![s] = Append(@, f)]
                         /\ f.type = "SIG_SHARE" /\ f.share.pkg = SigningPackage(b)
                         /\ AuthenticPackage(toC, SigningPackage(b))
        BY <3>2, RelayCommitStep
      <3>4. CASE UNCHANGED toC
        BY <3>3, <3>4 DEF PackageAuthentic, Sent
      <3> QED
        BY <2>0, <3>3, <3>4, PackageAuthenticStep
    <2> QED
      BY <2>2, <2>3
  <1>2. ASSUME NEW s \in Honest, Restart(s)
        PROVE  Coherent' /\ PackageAuthentic'
    BY <1>2, RestartStep DEF PackageAuthentic, Sent
  <1>3. CASE UNCHANGED vars
    BY <1>3 DEF vars, Coherent, PackageAuthentic, Sent
  <1> QED
    BY <1>1, <1>2, <1>3 DEF Next

\* The inductive invariant holds in every reachable state.
THEOREM SpecCoherent == Spec => [](Coherent /\ PackageAuthentic)
  <1>1. Init => Coherent /\ PackageAuthentic
    BY InitCoherent
  <1>2. (Coherent /\ PackageAuthentic) /\ [Next]_vars
          => (Coherent /\ PackageAuthentic)'
    BY NextCoherent
  <1> QED
    BY <1>1, <1>2, PTL DEF Spec

\* Every signer's globals, and everything it ever sends, are well formed.
THEOREM SpecTypeOK == Spec => []TypeOK
  <1>1. Coherent => TypeOK
    BY DEF Coherent, TypeOK
  <1> QED
    BY <1>1, SpecCoherent, PTL

\* SIGN_REQ and RELAY_COMMIT never let a nonce make two shares.
THEOREM SpecNonceSingleUse == Spec => []NonceSingleUse
  <1>1. Coherent => NonceSingleUse
    BY DEF Coherent, SignerInv, SharesDistinct, NonceSingleUse, Sent, Honest
  <1> QED
    BY <1>1, SpecCoherent, PTL

\* SIGN_REQ never offers a commitment twice, precomputed or not.
THEOREM SpecCommitmentOfferedOnce == Spec => []CommitmentOfferedOnce
  <1>1. Coherent => CommitmentOfferedOnce
    BY DEF Coherent, SignerInv, OffersDistinct, CommitmentOfferedOnce, Sent, Honest
  <1> QED
    BY <1>1, SpecCoherent, PTL

\* RELAY_COMMIT answers the latest SIGN_REQ or nothing.
THEOREM SpecSignsLatestRequest == Spec => []SignsLatestRequest
  <1>1. Coherent => SignsLatestRequest
    <2> SUFFICES ASSUME Coherent, NEW s \in Honest,
                        NEW j \in Positions(toC[s], "SIG_SHARE")
                 PROVE  \E i \in Positions(toC[s], "COMMIT") :
                          /\ i < j
                          /\ \A k \in Positions(toC[s], "COMMIT") : k < j => k <= i
                          /\ toC[s][i].sig = Attestation(s, toC[s][j].share.pkg.tbs,
                                                            toC[s][j].share.nonce)
      BY DEF SignsLatestRequest, Sent
    <2>1. SharesAnswerLast(s, toC[s])
      BY DEF Coherent, SignerInv, Honest
    <2> QED
      BY <2>1 DEF SharesAnswerLast, LastOffer
  <1> QED
    BY <1>1, SpecCoherent, PTL

\* RELAY_COMMIT's checks make every package signed an authentic one.
THEOREM SpecPackageAuthentic == Spec => []PackageAuthentic
  BY SpecCoherent, PTL
=============================================================================
