------------------------ MODULE RoastSystemProofs ------------------------
(***************************************************************************)
(* Proofs about the coordinator and the signers of a SIGN-mode run, for    *)
(* every group, threshold, roster, fault, crash and bound.                 *)
(*                                                                         *)
(* A SIG_SHARE frame names no session, and its sender is looked up in the  *)
(* table when the frame is handled, which may be long after it was sent.   *)
(* What ties the share to the right session is the order of the frames on  *)
(* the two streams of a connection: Link says so in terms of the numbers   *)
(* of the draws, which only grow.                                          *)
(***************************************************************************)
EXTENDS RoastSystem, TLAPS, FiniteSetTheorems

-----------------------------------------------------------------------------
(* The frames under way.                                                   *)

\* What a signer can be asked to sign.
AskedTbs == (Nat \ {0}) \X {"frost", "ephemeral"}

CommitSig == [by : Signer, tbs : Tbs, commit : Commitment]

Package == [tbs : Tbs, commits : SUBSET (Signer \X Commitment)]

\* A share a signer sends is of a message it was asked about.
SentShare ==
  {x \in [by : Signer, nonce : Commitment, pkg : Package, intact : BOOLEAN] :
     x.pkg.tbs \in AskedTbs}

UpFrame ==
  {ShareLoadFail, Closed}
    \cup [type : {"COMMIT"}, commit : Commitment, sig : CommitSig]
    \cup [type : {"SIG_SHARE"}, share : SentShare]

BundleEntry == [id : Signer, commit : Commitment, sig : CommitSig]

DownFrame ==
  {HelloAck("S"), CertOutput}
    \cup [type : {"SIGN_REQ"}, tbs : AskedTbs]
    \cup [type : {"RELAY_COMMIT"}, bundle : [tbs : Tbs, entries : Seq(BundleEntry)]]

Offers(F) == {f \in F : f.type = "COMMIT"}
Shares(F) == {f \in F : f.type = "SIG_SHARE"}
Relays(F) == {f \in F : f.type = "RELAY_COMMIT"}

\* The draws that the bundle of a relay g lists for s.
Listing(g, s) ==
  {e[2][2] : e \in {x \in SigningPackage(g.bundle).commits : x[1] = s}}

\* On the stream to the coordinator commitments are in the order of their
\* draws, and a share, of which there is at most one, precedes them.
Ordered(up) ==
  \A i, j \in DOMAIN up : i < j =>
    /\ up[i].type = "COMMIT" /\ up[j].type = "COMMIT" =>
         up[i].commit[2] < up[j].commit[2]
    /\ up[j].type = "SIG_SHARE" => up[i].type \notin {"COMMIT", "SIG_SHARE"}

-----------------------------------------------------------------------------
(* One signer s: its globals r, its entry p in the coordinator's table, the*)
(* slots ss, and the frames U and D under way from and to it.              *)

\* The n-th draw was offered to the coordinator.
Offered(n, r) == n <= r.drawn /\ (r.pre => n < r.drawn)

\* The nonces in memory are of the last draw.
NoncesLast(s, r) ==
  /\ r.nonces # NoCommit => r.nonces = <<s, r.drawn>> /\ r.commit = r.nonces
  /\ r.pre => r.nonces # NoCommit

SentOwn(s, r, U) ==
  /\ \A f \in Offers(U) : f.commit[1] = s /\ Offered(f.commit[2], r)
  /\ \A f \in Shares(U) :
       /\ f.share.by = s /\ f.share.nonce[1] = s
       /\ f.share.nonce[2] <= r.drawn
       /\ r.nonces # NoCommit => f.share.nonce[2] < r.drawn

\* What is relayed to s is not newer than what the table holds, a share on its
\* way, or a commitment that the coordinator has not handled yet.
RelayedOld(s, r, p, U, D) ==
  \A g \in Relays(D) :
    /\ \A e \in SigningPackage(g.bundle).commits : e[1] = s => e[2][1] = s
    /\ \A n \in Listing(g, s) :
         /\ Offered(n, r)
         /\ \A f \in Offers(U) : n < f.commit[2]
         /\ \A f \in Shares(U) : n <= f.share.nonce[2]
         /\ p.commit # NoCommit => n <= p.commit[2]

\* The commitment in the table is older than those under way, and a share
\* under way is made with it.
TableOld(s, r, p, U) ==
  p.commit # NoCommit =>
    /\ p.commit[1] = s /\ Offered(p.commit[2], r)
    /\ \A f \in Offers(U) : p.commit[2] < f.commit[2]
    /\ \A f \in Shares(U) : f.share.nonce = p.commit

\* A signer that waits for a session is in none, and its commitment is unused.
PhaseFits(s, p, U, D) ==
  /\ p.phase \in {"INIT", "SUSPECT"} => p.commit = NoCommit
  /\ p.phase \in {"INIT", "SUSPECT", "COMMITTED"} => p.session = 0
  /\ p.phase = "COMMITTED" =>
       /\ p.commit # NoCommit /\ Shares(U) = {}
       /\ \A g \in Relays(D) : p.commit[2] \notin Listing(g, s)
  /\ p.session # 0 => p.commit # NoCommit

\* Slot q is the session the table puts s in: a relay of the commitment in the
\* table is of its package, and so is a share; once the share is stored, the
\* nonces for it are gone.
SlotFits(s, r, p, q, U, D) ==
  q.id = p.session /\ s \in q.members =>
    /\ \A g \in Relays(D) :
         p.commit[2] \in Listing(g, s) => SigningPackage(g.bundle) = q.pkg
    /\ \A f \in Shares(U) : f.share.pkg = q.pkg
    /\ q.shares[s] # NoShare => Shares(U) = {} /\ r.nonces # p.commit

Link(s, r, p, ss, U, D) ==
  /\ NoncesLast(s, r)
  /\ SentOwn(s, r, U)
  /\ RelayedOld(s, r, p, U, D)
  /\ TableOld(s, r, p, U)
  /\ PhaseFits(s, p, U, D)
  /\ \A k \in DOMAIN ss : SlotFits(s, r, p, ss[k], U, D)

-----------------------------------------------------------------------------
(* The whole system, of signers sg, queues up and down, table p, slots ss  *)
(* and the next session id nid.                                            *)

PeerRecord ==
  [phase : Phase, commit : Commitment \cup {NoCommit},
   sig : CommitSig \cup {NoSig}, session : Nat]

\* The table; a commitment is stored with its signature.
TableOK(p, nid) ==
  /\ p \in [Signer -> PeerRecord]
  /\ \A s \in Signer : /\ p[s].session < nid
                       /\ p[s].commit # NoCommit => p[s].sig \in CommitSig

\* The owners of the commitments in a package, and the signers of chosen[].
Owners(pkg) == {e[1] : e \in pkg.commits}
Chosen(c) == {c[i] : i \in 1..T}

\* A slot holds T members, the package is of them, and every stored share is
\* of the package and counted.
SlotOK(q, nid) ==
  /\ q \in [id : 1..(nid - 1), state : {"AWAITING", "COMPLETE", "FAILED"},
            members : SUBSET Signer, pkg : Package,
            shares : [q.members -> SentShare \cup {NoShare}], n : Nat]
  /\ Cardinality(q.members) = T
  /\ Owners(q.pkg) = q.members
  /\ \A s \in Contributors(q) : q.shares[s].pkg = q.pkg
  /\ q.n = Cardinality(Contributors(q))

SlotsOK(ss, nid) ==
  /\ ss \in Seq(Range(ss)) /\ Len(ss) <= MaxSessions
  /\ \A k \in DOMAIN ss : SlotOK(ss[k], nid)

SignersOK(sg) ==
  /\ sg \in [Signer -> SignerRecord]
  /\ \A s \in Signer : sg[s].tbs \in AskedTbs \cup {NoTbs}

Coherent(sg, up, p, ss, nid, down) ==
  /\ SignersOK(sg)
  /\ up \in [Signer -> Seq(UpFrame)]
  /\ down \in [Signer -> Seq(DownFrame)]
  /\ nid \in Nat \ {0}
  /\ TableOK(p, nid)
  /\ SlotsOK(ss, nid)
  /\ \A s \in Signer :
       Ordered(up[s]) /\ Link(s, sg[s], p[s], ss, Range(up[s]), Range(down[s]))

-----------------------------------------------------------------------------
(* The certificate in hand and those written.                              *)

Job == [serial : Nat \ {0}, tbs : AskedTbs, template : Nat \ {0},
        toMint : 0..(CounterMod - 1), replace : BOOLEAN]

Certificate == [file : Nat \ {0}, serial : Nat \ {0}, pkg : Package]

CertsOK ==
  /\ job \in Job
  /\ certs \in Seq(Certificate)

ListOK ==
  /\ arrivals \in Nat
  /\ arrived \in [Signer -> 0..arrivals]
  /\ strikes \in [Signer -> Nat]
  /\ blacklist \in SUBSET Signer
  /\ done \in BOOLEAN /\ roastFail \in BOOLEAN /\ running \in BOOLEAN

SystemInv ==
  /\ Coherent(signer, toC, peer, sessions, nextId, toS)
  /\ CertsOK
  /\ ListOK

-----------------------------------------------------------------------------
(* What the frames under way are made of.                                  *)

LEMMA UpFrameFacts ==
  ASSUME NEW f \in UpFrame
  PROVE  /\ f.type = "COMMIT" => /\ f.commit \in Commitment /\ f.commit[2] \in Nat \ {0}
                                 /\ f.commit[1] \in Signer /\ f.sig \in CommitSig
                                 /\ f.commit = <<f.commit[1], f.commit[2]>>
         /\ f.type = "SIG_SHARE" => /\ f.share \in SentShare
                                    /\ f.share.nonce \in Commitment
                                    /\ f.share.nonce[2] \in Nat \ {0}
                                    /\ f.share.nonce = <<f.share.nonce[1], f.share.nonce[2]>>
                                    /\ f.share.pkg \in Package
                                    /\ f.share.pkg.tbs \in AskedTbs
  BY DEF UpFrame, Commitment, SentShare, ShareLoadFail, Closed

LEMMA DownFrameFacts ==
  ASSUME NEW g \in DownFrame
  PROVE  /\ g.type = "HELLO_ACK" => g.mode = "S"
         /\ g.type = "SIGN_REQ" => g.tbs \in AskedTbs
         /\ g.type = "RELAY_COMMIT" => /\ g.bundle.tbs \in Tbs
                                       /\ g.bundle.entries \in Seq(BundleEntry)
         /\ g.type \in {"HELLO_ACK", "SIGN_REQ", "RELAY_COMMIT", "CERT_OUTPUT"}
  BY DEF DownFrame, HelloAck, CertOutput

LEMMA PackageTyped ==
  ASSUME NEW b, b.tbs \in Tbs, b.entries \in Seq(BundleEntry)
  PROVE  SigningPackage(b) \in Package
  <1>1. \A i \in DOMAIN b.entries : b.entries[i] \in BundleEntry
    OBVIOUS
  <1>2. \A e \in BundleEntry : e.id \in Signer /\ e.commit \in Commitment
    BY DEF BundleEntry
  <1> QED
    BY <1>1, <1>2 DEF SigningPackage, Package

LEMMA ListingTyped ==
  ASSUME NEW g \in DownFrame, g.type = "RELAY_COMMIT", NEW s, NEW n \in Listing(g, s)
  PROVE  /\ n \in Nat \ {0}
         /\ \E c \in Commitment : <<s, c>> \in SigningPackage(g.bundle).commits /\ n = c[2]
  <1>1. SigningPackage(g.bundle) \in Package
    BY DownFrameFacts, PackageTyped
  <1>2. PICK e \in SigningPackage(g.bundle).commits : e[1] = s /\ n = e[2][2]
    BY DEF Listing
  <1>3. e \in Signer \X Commitment
    BY <1>1 DEF Package
  <1>4. e = <<s, e[2]>> /\ e[2] \in Commitment /\ e[2][2] \in Nat \ {0}
    BY <1>2, <1>3 DEF Commitment
  <1> QED
    BY <1>2, <1>4

-----------------------------------------------------------------------------
(* The link between a signer and its entry, step by step.                  *)

\* Frames that are handled or lost cannot break it.
LEMMA LinkMono ==
  ASSUME NEW s, NEW r, NEW p, NEW ss, NEW U, NEW D, Link(s, r, p, ss, U, D),
         NEW V \in SUBSET U, NEW E \in SUBSET D
  PROVE  Link(s, r, p, ss, V, E)
  <1>1. Offers(V) \subseteq Offers(U) /\ Shares(V) \subseteq Shares(U)
        /\ Relays(E) \subseteq Relays(D)
    BY DEF Offers, Shares, Relays
  <1>2. SentOwn(s, r, V)
    BY <1>1 DEF Link, SentOwn
  <1>3. RelayedOld(s, r, p, V, E)
    BY <1>1 DEF Link, RelayedOld
  <1>4. TableOld(s, r, p, V)
    BY <1>1 DEF Link, TableOld
  <1>5. PhaseFits(s, p, V, E)
    BY <1>1 DEF Link, PhaseFits
  <1>6. \A k \in DOMAIN ss : SlotFits(s, r, p, ss[k], V, E)
    BY <1>1 DEF Link, SlotFits
  <1> QED
    BY <1>2, <1>3, <1>4, <1>5, <1>6 DEF Link

\* Nor can a frame that is neither commitment, share nor relay.
LEMMA LinkNeutral ==
  ASSUME NEW s, NEW r, NEW p, NEW ss, NEW U, NEW D, Link(s, r, p, ss, U, D),
         NEW f, f.type \notin {"COMMIT", "SIG_SHARE"},
         NEW g, g.type # "RELAY_COMMIT"
  PROVE  /\ Link(s, r, p, ss, U \cup {f}, D)
         /\ Link(s, r, p, ss, U, D \cup {g})
  <1>1. Offers(U \cup {f}) = Offers(U) /\ Shares(U \cup {f}) = Shares(U)
        /\ Relays(D \cup {g}) = Relays(D)
    BY DEF Offers, Shares, Relays
  <1> QED
    BY <1>1 DEF Link, SentOwn, RelayedOld, TableOld, PhaseFits, SlotFits

\* The globals that the link does not mention may change.
LEMMA LinkSame ==
  ASSUME NEW s, NEW r, NEW p, NEW ss, NEW U, NEW D, Link(s, r, p, ss, U, D),
         NEW x, x.nonces = r.nonces, x.commit = r.commit, x.drawn = r.drawn,
         x.pre = r.pre
  PROVE  Link(s, x, p, ss, U, D)
  <1>1. \A n : Offered(n, x) <=> Offered(n, r)
    BY DEF Offered
  <1> QED
    BY <1>1 DEF Link, NoncesLast, SentOwn, RelayedOld, TableOld, SlotFits

\* A signer may lose its nonces at any time.
LEMMA LinkZero ==
  ASSUME NEW s, NEW r, NEW p, NEW ss, NEW U, NEW D, Link(s, r, p, ss, U, D),
         \A k \in DOMAIN ss : ss[k].id # 0,
         NEW x, x.nonces = NoCommit, x.pre = FALSE, x.drawn = r.drawn
  PROVE  Link(s, x, p, ss, U, D)
  <1>1. \A n : Offered(n, r) => Offered(n, x)
    BY DEF Offered
  <1>2. NoncesLast(s, x)
    BY DEF NoncesLast
  <1>3. SentOwn(s, x, U)
    BY <1>1 DEF Link, SentOwn
  <1>4. RelayedOld(s, x, p, U, D)
    BY <1>1 DEF Link, RelayedOld
  <1>5. TableOld(s, x, p, U)
    BY <1>1 DEF Link, TableOld
  <1>6. \A k \in DOMAIN ss : SlotFits(s, x, p, ss[k], U, D)
    BY DEF Link, SlotFits, PhaseFits
  <1> QED
    BY <1>2, <1>3, <1>4, <1>5, <1>6 DEF Link

\* A new draw is newer than all that is under way; it is not offered yet.
LEMMA LinkDraw ==
  ASSUME NEW s \in Signer, NEW r \in SignerRecord, NEW p \in PeerRecord, NEW ss,
         NEW U \in SUBSET UpFrame, NEW D \in SUBSET DownFrame,
         Link(s, r, p, ss, U, D),
         NEW x, x.nonces = <<s, r.drawn + 1>>, x.commit = x.nonces,
         x.drawn = r.drawn + 1, x.pre \in BOOLEAN
  PROVE  Link(s, x, p, ss, U, D)
  <1>0. r.drawn \in Nat /\ x.nonces # NoCommit
    BY GroupAssumption DEF SignerRecord, NoCommit, Signer
  <1>1. \A n \in Nat : Offered(n, r) => Offered(n, x)
    BY <1>0 DEF Offered
  <1>2. NoncesLast(s, x)
    BY <1>0 DEF NoncesLast
  <1>3. SentOwn(s, x, U)
    <2>1. \A f \in Offers(U) : f.commit[1] = s /\ Offered(f.commit[2], x)
      BY <1>1, UpFrameFacts DEF Link, SentOwn, Offers
    <2>2. \A f \in Shares(U) : f.share.nonce[2] < x.drawn
      BY <1>0, UpFrameFacts DEF Link, SentOwn, Shares
    <2> QED
      BY <1>0, <2>1, <2>2, UpFrameFacts DEF Link, SentOwn, Shares
  <1>4. RelayedOld(s, x, p, U, D)
    BY <1>1, ListingTyped DEF Link, RelayedOld, Relays
  <1>5. p.commit # NoCommit => p.commit[2] \in Nat /\ p.commit = <<p.commit[1], p.commit[2]>>
    BY DEF PeerRecord, Commitment
  <1>6. TableOld(s, x, p, U)
    BY <1>1, <1>5 DEF Link, TableOld
  <1>7. x.nonces # p.commit
    <2>1. CASE p.commit = NoCommit
      BY <1>0, <2>1
    <2>2. CASE p.commit # NoCommit
      <3>1. p.commit[2] <= r.drawn
        BY <2>2 DEF Link, TableOld, Offered
      <3>2. x.nonces[2] = r.drawn + 1
        OBVIOUS
      <3> QED
        BY <1>0, <1>5, <2>2, <3>1, <3>2
    <2> QED
      BY <2>1, <2>2
  <1>8. \A k \in DOMAIN ss : SlotFits(s, x, p, ss[k], U, D)
    BY <1>7 DEF Link, SlotFits
  <1> QED
    BY <1>2, <1>3, <1>4, <1>6, <1>8 DEF Link

\* The precomputed commitment is offered.
LEMMA LinkOffer ==
  ASSUME NEW s \in Signer, NEW r \in SignerRecord, NEW p \in PeerRecord, NEW ss,
         NEW U \in SUBSET UpFrame, NEW D \in SUBSET DownFrame,
         Link(s, r, p, ss, U, D), r.pre = TRUE,
         NEW x, x.nonces = r.nonces, x.commit = r.commit, x.drawn = r.drawn,
         x.pre = FALSE,
         NEW f \in UpFrame, f.type = "COMMIT", f.commit = r.commit
  PROVE  /\ Link(s, x, p, ss, U \cup {f}, D)
         /\ \A h \in Offers(U) : h.commit[2] < f.commit[2]
  <1>0. /\ r.drawn \in Nat /\ r.nonces # NoCommit
        /\ f.commit[1] = s /\ f.commit[2] = r.drawn
    BY DEF SignerRecord, Link, NoncesLast
  <1>1. \A n \in Nat : Offered(n, r) => Offered(n, x) /\ n < f.commit[2]
    BY <1>0 DEF Offered
  <1>2. Offers(U \cup {f}) = Offers(U) \cup {f} /\ Shares(U \cup {f}) = Shares(U)
    BY DEF Offers, Shares
  <1>3. \A h \in Offers(U) : h.commit[1] = s /\ Offered(h.commit[2], x) /\ h.commit[2] < f.commit[2]
    BY <1>1, UpFrameFacts DEF Link, SentOwn, Offers
  <1>4. NoncesLast(s, x)
    BY DEF NoncesLast, Link
  <1>5. SentOwn(s, x, U \cup {f})
    <2>1. Offered(f.commit[2], x)
      BY <1>0 DEF Offered
    <2> QED
      BY <1>0, <1>2, <1>3, <2>1 DEF Link, SentOwn
  <1>6. RelayedOld(s, x, p, U \cup {f}, D)
    BY <1>1, <1>2, ListingTyped DEF Link, RelayedOld, Relays
  <1>7. TableOld(s, x, p, U \cup {f})
    <2>1. p.commit # NoCommit => p.commit[2] \in Nat
      BY DEF PeerRecord, Commitment
    <2> QED
      BY <1>1, <1>2, <2>1 DEF Link, TableOld
  <1>8. PhaseFits(s, p, U \cup {f}, D)
    BY <1>2 DEF Link, PhaseFits
  <1>9. \A k \in DOMAIN ss : SlotFits(s, x, p, ss[k], U \cup {f}, D)
    BY <1>2 DEF Link, SlotFits
  <1> QED
    BY <1>3, <1>4, <1>5, <1>6, <1>7, <1>8, <1>9 DEF Link

\* With the globals r, signer s answers the relay g by the share f, and is left
\* with the globals x.
Signs(s, r, g, x, f) ==
  /\ r.nonces # NoCommit /\ r.nonces[2] \in Listing(g, s)
  /\ x.nonces = NoCommit /\ x.drawn = r.drawn /\ x.pre = FALSE
  /\ f \in UpFrame /\ f.type = "SIG_SHARE" /\ f.share.by = s
  /\ f.share.nonce = r.nonces /\ f.share.pkg = SigningPackage(g.bundle)

\* The nonces relayed back to s make a share.  The coordinator has handled the
\* commitment to them, so s has sent nothing since.
LEMMA LinkSign ==
  ASSUME NEW s \in Signer, NEW r \in SignerRecord, NEW p \in PeerRecord, NEW ss,
         NEW U \in SUBSET UpFrame, NEW D \in SUBSET DownFrame,
         Link(s, r, p, ss, U, D), \A k \in DOMAIN ss : ss[k].id # 0,
         NEW g \in Relays(D), NEW x, NEW f, Signs(s, r, g, x, f)
  PROVE  /\ Link(s, x, p, ss, U \cup {f}, D)
         /\ Offers(U) = {} /\ Shares(U) = {}
  <1> USE DEF Signs
  <1>0. /\ r.drawn \in Nat /\ r.nonces = <<s, r.drawn>>
        /\ r.nonces[1] = s /\ r.nonces[2] = r.drawn
    BY DEF SignerRecord, Link, NoncesLast
  <1>1. Offers(U) = {}
    <2> SUFFICES ASSUME NEW h \in Offers(U) PROVE FALSE
      OBVIOUS
    <2>1. r.drawn < h.commit[2] /\ h.commit[2] <= r.drawn
      BY <1>0 DEF Link, RelayedOld, SentOwn, Offered
    <2>2. h.commit[2] \in Nat
      BY UpFrameFacts DEF Offers
    <2> QED
      BY <1>0, <2>1, <2>2
  <1>2. Shares(U) = {}
    <2> SUFFICES ASSUME NEW h \in Shares(U) PROVE FALSE
      OBVIOUS
    <2>1. r.drawn <= h.share.nonce[2] /\ h.share.nonce[2] < r.drawn
      BY <1>0 DEF Link, RelayedOld, SentOwn
    <2>2. h.share.nonce[2] \in Nat
      BY UpFrameFacts DEF Shares
    <2> QED
      BY <1>0, <2>1, <2>2
  <1>3. p.commit # NoCommit => p.commit = r.nonces
    <2>1. p.commit # NoCommit =>
            /\ p.commit[2] \in Nat /\ p.commit = <<p.commit[1], p.commit[2]>>
      BY DEF PeerRecord, Commitment
    <2>2. p.commit # NoCommit =>
            p.commit[1] = s /\ r.drawn <= p.commit[2] /\ p.commit[2] <= r.drawn
      BY <1>0 DEF Link, RelayedOld, TableOld, Offered
    <2> QED
      BY <1>0, <2>1, <2>2
  <1>4. Offers(U \cup {f}) = {} /\ Shares(U \cup {f}) = {f}
    BY <1>1, <1>2 DEF Offers, Shares
  <1>5. Link(s, x, p, ss, U, D)
    BY LinkZero
  <1>6. SentOwn(s, x, U \cup {f})
    <2>1. /\ f.share.by = s /\ f.share.nonce[1] = s
          /\ f.share.nonce[2] <= x.drawn /\ x.nonces = NoCommit
      BY <1>0
    <2> QED
      BY <1>4, <2>1 DEF SentOwn
  <1>7. RelayedOld(s, x, p, U \cup {f}, D)
    <2>1. \A h \in Relays(D) : \A n \in Listing(h, s) : n <= f.share.nonce[2]
      <3> SUFFICES ASSUME NEW h \in Relays(D), NEW n \in Listing(h, s)
                   PROVE  n <= f.share.nonce[2]
        OBVIOUS
      <3> QED
        BY <1>0, <1>5 DEF Link, RelayedOld, Offered
    <2> QED
      BY <1>4, <1>5, <2>1 DEF Link, RelayedOld
  <1>8. TableOld(s, x, p, U \cup {f})
    BY <1>3, <1>4, <1>5 DEF Link, TableOld
  <1>9. p.phase # "COMMITTED"
    BY <1>3 DEF Link, PhaseFits
  <1>10. PhaseFits(s, p, U \cup {f}, D)
    BY <1>9, <1>5 DEF Link, PhaseFits
  <1>11. \A k \in DOMAIN ss : SlotFits(s, x, p, ss[k], U \cup {f}, D)
    <2> SUFFICES ASSUME NEW k \in DOMAIN ss, ss[k].id = p.session, s \in ss[k].members
                 PROVE  /\ \A h \in Relays(D) :
                             p.commit[2] \in Listing(h, s) =>
                               SigningPackage(h.bundle) = ss[k].pkg
                        /\ f.share.pkg = ss[k].pkg
                        /\ ss[k].shares[s] = NoShare
      BY <1>4 DEF SlotFits
    <2>1. p.commit = r.nonces
      BY <1>3 DEF Link, PhaseFits
    <2> QED
      BY <2>1 DEF Link, SlotFits
  <1> QED
    BY <1>1, <1>2, <1>5, <1>6, <1>7, <1>8, <1>10, <1>11 DEF Link

\* The entry of a signer is blanked when its session failed or expired.
LEMMA LinkBlank ==
  ASSUME NEW s, NEW r, NEW p, NEW ss, NEW U, NEW D, Link(s, r, p, ss, U, D),
         \A k \in DOMAIN ss : ss[k].id # 0,
         NEW ph \in {"INIT", "SUSPECT"}
  PROVE  Link(s, r, Blank(ph), ss, U, D)
  BY DEF Link, RelayedOld, TableOld, PhaseFits, SlotFits, Blank

LEMMA LinkPhase ==
  ASSUME NEW s, NEW r, NEW p \in PeerRecord, NEW ss, NEW U, NEW D, Link(s, r, p, ss, U, D),
         NEW ph \in {"NO_KEY", "SHARED", "BLACKLISTED"}
  PROVE  Link(s, r, [p EXCEPT !.phase = ph], ss, U, D)
  <1> DEFINE x == [p EXCEPT !.phase = ph]
  <1>1. x.phase = ph /\ x.commit = p.commit /\ x.session = p.session
    BY DEF PeerRecord
  <1> HIDE DEF x
  <1> QED
    BY <1>1 DEF Link, RelayedOld, TableOld, PhaseFits, SlotFits

\* The commitment at the head of the stream goes into the table.
LEMMA LinkStoreCommit ==
  ASSUME NEW s \in Signer, NEW r, NEW p, NEW ss,
         NEW U \in SUBSET UpFrame, NEW D \in SUBSET DownFrame,
         Link(s, r, p, ss, U, D), \A k \in DOMAIN ss : ss[k].id # 0,
         p.phase \in {"INIT", "SUSPECT"},
         NEW f \in Offers(U), NEW V \in SUBSET U, Shares(V) = {},
         \A h \in Offers(V) : f.commit[2] < h.commit[2],
         NEW x, x.phase = "COMMITTED", x.commit = f.commit, x.session = p.session
  PROVE  Link(s, r, x, ss, V, D)
  <1>0. /\ f.commit # NoCommit /\ f.commit[1] = s /\ Offered(f.commit[2], r)
        /\ f.commit[2] \in Nat
    BY UpFrameFacts, GroupAssumption DEF Offers, Link, SentOwn, NoCommit, Signer
  <1>1. Link(s, r, p, ss, V, D)
    BY LinkMono
  <1>2. \A g \in Relays(D) : \A n \in Listing(g, s) : n < f.commit[2] /\ n \in Nat
    BY ListingTyped DEF Link, RelayedOld, Relays
  <1>3. RelayedOld(s, r, x, V, D)
    BY <1>0, <1>1, <1>2 DEF Link, RelayedOld
  <1>4. TableOld(s, r, x, V)
    BY <1>0 DEF TableOld
  <1>5. x.session = 0
    BY DEF Link, PhaseFits
  <1>6. PhaseFits(s, x, V, D)
    BY <1>0, <1>2, <1>5 DEF PhaseFits
  <1>7. \A k \in DOMAIN ss : SlotFits(s, r, x, ss[k], V, D)
    BY <1>5 DEF SlotFits
  <1> QED
    BY <1>1, <1>3, <1>4, <1>6, <1>7 DEF Link

\* A member enters the new session, whose bundle is relayed to it.
LEMMA LinkEnter ==
  ASSUME NEW s \in Signer, NEW r, NEW p \in PeerRecord, NEW ss,
         NEW U, NEW D, Link(s, r, p, ss, U, D), p.phase = "COMMITTED",
         NEW g, g.type = "RELAY_COMMIT",
         \A e \in SigningPackage(g.bundle).commits : e[1] = s => e[2] = p.commit,
         NEW x, x.phase = "IN_SESSION", x.commit = p.commit, x.session # 0,
         NEW ss2,
         \A k \in DOMAIN ss2 : ss2[k].id = x.session =>
           ss2[k].pkg = SigningPackage(g.bundle) /\ ss2[k].shares[s] = NoShare
  PROVE  Link(s, r, x, ss2, U, D \cup {g})
  <1>0. /\ p.commit # NoCommit /\ Shares(U) = {} /\ p.commit[1] = s
        /\ Offered(p.commit[2], r) /\ p.commit[2] \in Nat
        /\ \A f \in Offers(U) : p.commit[2] < f.commit[2]
        /\ \A h \in Relays(D) : p.commit[2] \notin Listing(h, s)
    BY DEF Link, TableOld, PhaseFits, PeerRecord, Commitment
  <1>1. Relays(D \cup {g}) = Relays(D) \cup {g}
    BY DEF Relays
  <1>2. \A n \in Listing(g, s) : n = p.commit[2]
    BY DEF Listing
  <1>3. RelayedOld(s, r, x, U, D \cup {g})
    <2>1. RelayedOld(s, r, p, U, D)
      BY DEF Link
    <2>2. /\ \A e \in SigningPackage(g.bundle).commits : e[1] = s => e[2][1] = s
          /\ \A n \in Listing(g, s) :
               /\ Offered(n, r)
               /\ \A f \in Offers(U) : n < f.commit[2]
               /\ n <= p.commit[2]
      BY <1>0, <1>2
    <2> QED
      BY <1>0, <1>1, <2>1, <2>2 DEF RelayedOld
  <1>4. TableOld(s, r, x, U)
    BY DEF Link, TableOld
  <1>5. PhaseFits(s, x, U, D \cup {g})
    BY <1>0 DEF PhaseFits
  <1>6. \A k \in DOMAIN ss2 : SlotFits(s, r, x, ss2[k], U, D \cup {g})
    BY <1>0, <1>1 DEF SlotFits
  <1> QED
    BY <1>3, <1>4, <1>5, <1>6 DEF Link

\* Slots that keep members, package and the share of s, and slots without s.
LEMMA LinkSlots ==
  ASSUME NEW s, NEW r, NEW p, NEW ss, NEW U, NEW D, Link(s, r, p, ss, U, D),
         NEW ss2,
         \A k \in DOMAIN ss2 :
           s \in ss2[k].members =>
             \E j \in DOMAIN ss : /\ s \in ss[j].members /\ ss2[k].id = ss[j].id
                                  /\ ss2[k].pkg = ss[j].pkg
                                  /\ ss2[k].shares[s] = ss[j].shares[s]
  PROVE  Link(s, r, p, ss2, U, D)
  <1>1. ASSUME NEW k \in DOMAIN ss2 PROVE SlotFits(s, r, p, ss2[k], U, D)
    <2> SUFFICES ASSUME s \in ss2[k].members
                 PROVE  SlotFits(s, r, p, ss2[k], U, D)
      BY DEF SlotFits
    <2>1. PICK j \in DOMAIN ss : /\ s \in ss[j].members /\ ss2[k].id = ss[j].id
                                 /\ ss2[k].pkg = ss[j].pkg
                                 /\ ss2[k].shares[s] = ss[j].shares[s]
      BY <1>1
    <2>2. SlotFits(s, r, p, ss[j], U, D)
      BY DEF Link
    <2> QED
      BY <2>1, <2>2 DEF SlotFits
  <1> QED
    BY <1>1 DEF Link

\* The share at the head of the stream goes into a slot.
LEMMA LinkStoreShare ==
  ASSUME NEW s \in Signer, NEW r \in SignerRecord, NEW p, NEW ss,
         NEW U \in SUBSET UpFrame, NEW D,
         Link(s, r, p, ss, U, D), \A k \in DOMAIN ss : ss[k].id # 0,
         NEW f \in Shares(U), NEW V \in SUBSET U, Shares(V) = {},
         NEW ss2,
         \A k \in DOMAIN ss2 :
           /\ k \in DOMAIN ss /\ ss2[k].id = ss[k].id
           /\ ss2[k].members = ss[k].members /\ ss2[k].pkg = ss[k].pkg
  PROVE  Link(s, r, p, ss2, V, D)
  <1>1. Link(s, r, p, ss, V, D)
    BY LinkMono
  <1>2. p.commit # NoCommit => r.nonces # p.commit
    <2>1. r.drawn \in Nat /\ f.share.nonce[2] \in Nat
      BY UpFrameFacts DEF SignerRecord, Shares
    <2> SUFFICES ASSUME p.commit # NoCommit, r.nonces = p.commit PROVE FALSE
      OBVIOUS
    <2>2. f.share.nonce = <<s, r.drawn>> /\ f.share.nonce[2] < r.drawn
      BY DEF Link, TableOld, NoncesLast, SentOwn
    <2> QED
      BY <2>1, <2>2
  <1>3. ASSUME NEW k \in DOMAIN ss2 PROVE SlotFits(s, r, p, ss2[k], V, D)
    <2> SUFFICES ASSUME ss2[k].id = p.session, s \in ss2[k].members
                 PROVE  SlotFits(s, r, p, ss2[k], V, D)
      BY DEF SlotFits
    <2>1. p.commit # NoCommit
      BY <1>3 DEF Link, PhaseFits
    <2>2. SlotFits(s, r, p, ss[k], V, D)
      BY <1>1, <1>3 DEF Link
    <2> QED
      BY <1>2, <1>3, <2>1, <2>2 DEF SlotFits
  <1> QED
    BY <1>1, <1>3 DEF Link
-----------------------------------------------------------------------------
(* Queues.                                                                 *)

LEMMA FramesOf ==
  ASSUME NEW S, NEW q \in Seq(S), NEW f \in S
  PROVE  /\ Range(q) \in SUBSET S
         /\ Append(q, f) \in Seq(S) /\ Range(Append(q, f)) = Range(q) \cup {f}
         /\ q # <<>> => /\ Head(q) \in Range(q) /\ Tail(q) \in Seq(S)
                        /\ Range(Tail(q)) \in SUBSET Range(q)
         /\ <<>> \in Seq(S) /\ Range(<<>>) = {}
  <1>1. Range(q) \in SUBSET S
    BY DEF Range
  <1>2. Append(q, f) \in Seq(S) /\ Range(Append(q, f)) = Range(q) \cup {f}
    <2>1. /\ Append(q, f) \in Seq(S) /\ Len(q) \in Nat
          /\ DOMAIN q = 1..Len(q) /\ DOMAIN Append(q, f) = 1..(Len(q) + 1)
          /\ \A i \in 1..Len(q) : Append(q, f)[i] = q[i]
          /\ Append(q, f)[Len(q) + 1] = f
      OBVIOUS
    <2>2. DOMAIN Append(q, f) = DOMAIN q \cup {Len(q) + 1}
      BY <2>1
    <2> QED
      BY <2>1, <2>2 DEF Range
  <1>3. q # <<>> => /\ Head(q) \in Range(q) /\ Tail(q) \in Seq(S)
                    /\ Range(Tail(q)) \in SUBSET Range(q)
    <2> SUFFICES ASSUME q # <<>>
                 PROVE  /\ Head(q) \in Range(q) /\ Tail(q) \in Seq(S)
                        /\ Range(Tail(q)) \in SUBSET Range(q)
      OBVIOUS
    <2>1. /\ Tail(q) \in Seq(S) /\ Len(q) \in Nat \ {0} /\ Head(q) = q[1]
          /\ DOMAIN q = 1..Len(q) /\ DOMAIN Tail(q) = 1..(Len(q) - 1)
          /\ \A i \in 1..(Len(q) - 1) : Tail(q)[i] = q[i + 1]
      OBVIOUS
    <2>2. \A i \in DOMAIN Tail(q) : i + 1 \in DOMAIN q
      BY <2>1
    <2> QED
      BY <2>1, <2>2 DEF Range
  <1>4. <<>> \in Seq(S) /\ Range(<<>>) = {}
    BY DEF Range
  <1> QED
    BY <1>1, <1>2, <1>3, <1>4

\* What is left of a queue when a process dies.
LEMMA FramesPrefix ==
  ASSUME NEW S, NEW q \in Seq(S), NEW k \in 0..Len(q)
  PROVE  /\ SubSeq(q, 1, k) \in Seq(S) /\ Len(SubSeq(q, 1, k)) = k
         /\ \A i \in 1..k : SubSeq(q, 1, k)[i] = q[i]
         /\ Range(SubSeq(q, 1, k)) \in SUBSET Range(q)
  <1>1. /\ SubSeq(q, 1, k) \in Seq(S) /\ Len(SubSeq(q, 1, k)) = k
        /\ \A i \in 1..k : SubSeq(q, 1, k)[i] = q[i]
        /\ DOMAIN SubSeq(q, 1, k) = 1..k /\ DOMAIN q = 1..Len(q) /\ Len(q) \in Nat
    OBVIOUS
  <1> QED
    BY <1>1 DEF Range

LEMMA OrderedEmpty == Ordered(<<>>)
  BY DEF Ordered

LEMMA OrderedTail ==
  ASSUME NEW S, NEW q \in Seq(S), q # <<>>, Ordered(q)
  PROVE  /\ Ordered(Tail(q))
         /\ Head(q).type \in {"COMMIT", "SIG_SHARE"} => Shares(Range(Tail(q))) = {}
         /\ Head(q).type = "COMMIT" =>
              \A h \in Offers(Range(Tail(q))) : Head(q).commit[2] < h.commit[2]
  <1>1. /\ Tail(q) \in Seq(S) /\ Len(q) \in Nat \ {0} /\ Head(q) = q[1]
        /\ DOMAIN q = 1..Len(q) /\ DOMAIN Tail(q) = 1..(Len(q) - 1)
        /\ \A i \in 1..(Len(q) - 1) : Tail(q)[i] = q[i + 1]
    OBVIOUS
  <1>2. Ordered(Tail(q))
    <2> SUFFICES ASSUME NEW i \in DOMAIN Tail(q), NEW j \in DOMAIN Tail(q), i < j
                 PROVE  /\ Tail(q)[i].type = "COMMIT" /\ Tail(q)[j].type = "COMMIT" =>
                             Tail(q)[i].commit[2] < Tail(q)[j].commit[2]
                        /\ Tail(q)[j].type = "SIG_SHARE" =>
                             Tail(q)[i].type \notin {"COMMIT", "SIG_SHARE"}
      BY DEF Ordered
    <2>1. i + 1 \in DOMAIN q /\ j + 1 \in DOMAIN q /\ i + 1 < j + 1
      BY <1>1
    <2> QED
      BY <1>1, <2>1 DEF Ordered
  <1>3. \A h \in Range(Tail(q)) :
          /\ h.type = "SIG_SHARE" => Head(q).type \notin {"COMMIT", "SIG_SHARE"}
          /\ h.type = "COMMIT" /\ Head(q).type = "COMMIT" =>
               Head(q).commit[2] < h.commit[2]
    <2> SUFFICES ASSUME NEW i \in DOMAIN Tail(q)
                 PROVE  /\ Tail(q)[i].type = "SIG_SHARE" =>
                             Head(q).type \notin {"COMMIT", "SIG_SHARE"}
                        /\ Tail(q)[i].type = "COMMIT" /\ Head(q).type = "COMMIT" =>
                             Head(q).commit[2] < Tail(q)[i].commit[2]
      BY DEF Range
    <2>1. i + 1 \in DOMAIN q /\ 1 \in DOMAIN q /\ 1 < i + 1
      BY <1>1
    <2> QED
      BY <1>1, <2>1 DEF Ordered
  <1> QED
    BY <1>2, <1>3 DEF Shares, Offers

LEMMA OrderedPrefix ==
  ASSUME NEW S, NEW q \in Seq(S), NEW k \in 0..Len(q), Ordered(q)
  PROVE  Ordered(SubSeq(q, 1, k))
  <1>1. /\ DOMAIN SubSeq(q, 1, k) = 1..k /\ DOMAIN q = 1..Len(q) /\ Len(q) \in Nat
        /\ \A i \in 1..k : SubSeq(q, 1, k)[i] = q[i] /\ i \in 1..Len(q)
    OBVIOUS
  <1> QED
    BY <1>1 DEF Ordered

LEMMA OrderedAppend ==
  ASSUME NEW S, NEW q \in Seq(S), NEW f \in S, Ordered(q),
         \/ f.type \notin {"COMMIT", "SIG_SHARE"}
         \/ f.type = "COMMIT" /\ \A h \in Offers(Range(q)) : h.commit[2] < f.commit[2]
         \/ f.type = "SIG_SHARE" /\ Offers(Range(q)) = {} /\ Shares(Range(q)) = {}
  PROVE  Ordered(Append(q, f))
  <1>1. /\ Len(q) \in Nat
        /\ DOMAIN q = 1..Len(q) /\ DOMAIN Append(q, f) = 1..(Len(q) + 1)
        /\ \A i \in 1..Len(q) : Append(q, f)[i] = q[i]
        /\ Append(q, f)[Len(q) + 1] = f
    OBVIOUS
  <1> SUFFICES ASSUME NEW i \in DOMAIN Append(q, f), NEW j \in DOMAIN Append(q, f), i < j
               PROVE  /\ Append(q, f)[i].type = "COMMIT" /\ Append(q, f)[j].type = "COMMIT" =>
                           Append(q, f)[i].commit[2] < Append(q, f)[j].commit[2]
                      /\ Append(q, f)[j].type = "SIG_SHARE" =>
                           Append(q, f)[i].type \notin {"COMMIT", "SIG_SHARE"}
    BY DEF Ordered
  <1>2. i \in DOMAIN q /\ Append(q, f)[i] = q[i] /\ q[i] \in Range(q)
    BY <1>1 DEF Range
  <1>3. CASE j \in DOMAIN q
    BY <1>1, <1>2, <1>3 DEF Ordered
  <1>4. CASE j = Len(q) + 1
    BY <1>1, <1>2, <1>4 DEF Offers, Shares
  <1> QED
    BY <1>1, <1>3, <1>4

-----------------------------------------------------------------------------
(* The table, the slots and the queues to the signers, step by step.       *)

LEMMA CoherentFacts ==
  ASSUME NEW sg, NEW up, NEW p, NEW ss, NEW nid, NEW down,
         Coherent(sg, up, p, ss, nid, down), NEW s \in Signer
  PROVE  /\ sg[s] \in SignerRecord /\ sg[s].tbs \in AskedTbs \cup {NoTbs}
         /\ p[s] \in PeerRecord /\ p[s].session < nid
         /\ up[s] \in Seq(UpFrame) /\ Range(up[s]) \in SUBSET UpFrame
         /\ down[s] \in Seq(DownFrame) /\ Range(down[s]) \in SUBSET DownFrame
         /\ Ordered(up[s])
         /\ Link(s, sg[s], p[s], ss, Range(up[s]), Range(down[s]))
         /\ \A k \in DOMAIN ss : ss[k].id # 0 /\ ss[k].id < nid
         /\ nid \in Nat \ {0}
  <1>1. /\ sg[s] \in SignerRecord /\ sg[s].tbs \in AskedTbs \cup {NoTbs}
        /\ p[s] \in PeerRecord /\ p[s].session < nid
    BY DEF Coherent, SignersOK, TableOK
  <1>2. up[s] \in Seq(UpFrame) /\ down[s] \in Seq(DownFrame)
    BY DEF Coherent
  <1>3. Range(up[s]) \in SUBSET UpFrame /\ Range(down[s]) \in SUBSET DownFrame
    BY <1>2 DEF Range
  <1>4. nid \in Nat \ {0}
    BY DEF Coherent
  <1>5. \A k \in DOMAIN ss : ss[k].id # 0 /\ ss[k].id < nid
    BY <1>4 DEF Coherent, SlotsOK, SlotOK
  <1> QED
    BY <1>1, <1>2, <1>3, <1>4, <1>5 DEF Coherent

LEMMA BlankTyped ==
  ASSUME NEW ph \in Phase
  PROVE  /\ Blank(ph) \in PeerRecord /\ Blank(ph).session = 0
         /\ Blank(ph).commit = NoCommit
  BY DEF Blank, PeerRecord

LEMMA CoherentReset ==
  ASSUME NEW sg, NEW up, NEW p, NEW ss, NEW nid, NEW down,
         Coherent(sg, up, p, ss, nid, down), NEW S, NEW ph \in {"INIT", "SUSPECT"}
  PROVE  Coherent(sg, up, Reset(p, S, ph), ss, nid, down)
  <1> DEFINE x == Reset(p, S, ph)
  <1>1. \A s \in Signer : x[s] = IF s \in S THEN Blank(ph) ELSE p[s]
    BY DEF Reset
  <1>2. x = [s \in Signer |-> x[s]]
    BY DEF Reset
  <1> HIDE DEF x
  <1>3. ph \in Phase
    BY DEF Phase
  <1>4. TableOK(x, nid)
    <2>1. \A s \in Signer : /\ x[s] \in PeerRecord /\ x[s].session < nid
                            /\ x[s].commit # NoCommit => x[s].sig \in CommitSig
      <3>1. TableOK(p, nid) /\ nid \in Nat \ {0}
        BY DEF Coherent
      <3>2. /\ Blank(ph) \in PeerRecord /\ Blank(ph).session = 0
            /\ Blank(ph).commit = NoCommit
        BY <1>3, BlankTyped
      <3> QED
        BY <1>1, <3>1, <3>2 DEF TableOK
    <2> QED
      BY <1>2, <2>1 DEF TableOK
  <1>5. ASSUME NEW s \in Signer
        PROVE  Link(s, sg[s], x[s], ss, Range(up[s]), Range(down[s]))
    BY <1>1, CoherentFacts, LinkBlank
  <1>6. Coherent(sg, up, x, ss, nid, down)
    BY <1>4, <1>5 DEF Coherent
  <1> QED
    BY <1>6 DEF x

LEMMA CoherentPhase ==
  ASSUME NEW sg, NEW up, NEW p, NEW ss, NEW nid, NEW down,
         Coherent(sg, up, p, ss, nid, down), NEW S,
         NEW ph \in {"NO_KEY", "SHARED", "BLACKLISTED"}
  PROVE  Coherent(sg, up, SetPhase(p, S, ph), ss, nid, down)
  <1> DEFINE x == SetPhase(p, S, ph)
  <1>1. \A s \in Signer : x[s] = IF s \in S THEN [p[s] EXCEPT !.phase = ph] ELSE p[s]
    BY DEF SetPhase
  <1>2. x = [s \in Signer |-> x[s]]
    BY DEF SetPhase
  <1> HIDE DEF x
  <1>3. ph \in Phase
    BY DEF Phase
  <1>4. \A e \in PeerRecord :
          /\ [e EXCEPT !.phase = ph] \in PeerRecord
          /\ [e EXCEPT !.phase = ph].session = e.session
          /\ [e EXCEPT !.phase = ph].commit = e.commit
          /\ [e EXCEPT !.phase = ph].sig = e.sig
    BY <1>3 DEF PeerRecord
  <1>5. TableOK(x, nid)
    <2>1. \A s \in Signer : /\ x[s] \in PeerRecord /\ x[s].session < nid
                            /\ x[s].commit # NoCommit => x[s].sig \in CommitSig
      <3>1. TableOK(p, nid)
        BY DEF Coherent
      <3> TAKE s \in Signer
      <3>2. /\ p[s] \in PeerRecord /\ p[s].session < nid
            /\ p[s].commit # NoCommit => p[s].sig \in CommitSig
        BY <3>1 DEF TableOK
      <3>3. CASE s \notin S
        BY <1>1, <3>2, <3>3
      <3>4. CASE s \in S
        <4>1. PICK e \in PeerRecord : e = p[s]
          BY <3>2
        <4>2. x[s] = [e EXCEPT !.phase = ph]
          BY <1>1, <3>4, <4>1
        <4>3. /\ x[s] \in PeerRecord /\ x[s].session = e.session
              /\ x[s].commit = e.commit /\ x[s].sig = e.sig
          BY <1>4, <4>2
        <4> QED
          BY <3>2, <4>1, <4>3
      <3> QED
        BY <3>3, <3>4
    <2> QED
      BY <1>2, <2>1 DEF TableOK
  <1>6. ASSUME NEW s \in Signer
        PROVE  Link(s, sg[s], x[s], ss, Range(up[s]), Range(down[s]))
    <2>1. /\ Link(s, sg[s], p[s], ss, Range(up[s]), Range(down[s]))
          /\ p[s] \in PeerRecord
      BY CoherentFacts
    <2>2. Link(s, sg[s], [p[s] EXCEPT !.phase = ph], ss, Range(up[s]), Range(down[s]))
      BY <2>1, LinkPhase
    <2> QED
      BY <1>1, <2>1, <2>2
  <1>7. Coherent(sg, up, x, ss, nid, down)
    BY <1>5, <1>6 DEF Coherent
  <1> QED
    BY <1>7 DEF x

LEMMA CoherentSend ==
  ASSUME NEW sg, NEW up, NEW p, NEW ss, NEW nid, NEW down,
         Coherent(sg, up, p, ss, nid, down), NEW S,
         NEW f \in DownFrame, f.type # "RELAY_COMMIT"
  PROVE  Coherent(sg, up, p, ss, nid, SendTo(down, S, f))
  <1> DEFINE x == SendTo(down, S, f)
  <1>1. \A s \in Signer : x[s] = IF s \in S THEN Append(down[s], f) ELSE down[s]
    BY DEF SendTo
  <1>2. x = [s \in Signer |-> x[s]]
    BY DEF SendTo
  <1> HIDE DEF x
  <1>3. ASSUME NEW s \in Signer
        PROVE  /\ x[s] \in Seq(DownFrame)
               /\ Link(s, sg[s], p[s], ss, Range(up[s]), Range(x[s]))
    <2>1. down[s] \in Seq(DownFrame)
      BY CoherentFacts
    <2>2. /\ Append(down[s], f) \in Seq(DownFrame)
          /\ Range(Append(down[s], f)) = Range(down[s]) \cup {f}
      BY <2>1, FramesOf
    <2>3. Link(s, sg[s], p[s], ss, Range(up[s]), Range(down[s]))
      BY CoherentFacts
    <2>4. Link(s, sg[s], p[s], ss, Range(up[s]), Range(down[s]) \cup {f})
      <3>1. Closed.type \notin {"COMMIT", "SIG_SHARE"}
        BY DEF Closed
      <3> QED
        BY <2>3, <3>1, LinkNeutral
    <2> QED
      BY <1>1, <2>1, <2>2, <2>3, <2>4
  <1>4. Coherent(sg, up, p, ss, nid, x)
    BY <1>2, <1>3 DEF Coherent
  <1> QED
    BY <1>4 DEF x

\* The slots change in a way that leaves the links alone.
LEMMA CoherentSlots ==
  ASSUME NEW sg, NEW up, NEW p, NEW ss, NEW nid, NEW down,
         Coherent(sg, up, p, ss, nid, down), NEW ss2, SlotsOK(ss2, nid),
         \A k \in DOMAIN ss2 :
           /\ k \in DOMAIN ss /\ ss2[k].id = ss[k].id /\ ss2[k].members = ss[k].members
           /\ ss2[k].pkg = ss[k].pkg /\ ss2[k].shares = ss[k].shares
  PROVE  Coherent(sg, up, p, ss2, nid, down)
  <1>1. ASSUME NEW s \in Signer
        PROVE  Link(s, sg[s], p[s], ss2, Range(up[s]), Range(down[s]))
    <2>1. Link(s, sg[s], p[s], ss, Range(up[s]), Range(down[s]))
      BY CoherentFacts
    <2> QED
      BY <2>1, LinkSlots
  <1> QED
    BY <1>1 DEF Coherent
\* The state of a slot does not matter to SlotOK.
LEMMA SlotState ==
  ASSUME NEW nid, NEW q, SlotOK(q, nid),
         NEW x \in [id : 1..(nid - 1), state : {"AWAITING", "COMPLETE", "FAILED"},
                    members : SUBSET Signer, pkg : Package,
                    shares : [q.members -> SentShare \cup {NoShare}], n : Nat],
         x.members = q.members, x.pkg = q.pkg, x.shares = q.shares, x.n = q.n
  PROVE  SlotOK(x, nid)
  <1>1. Contributors(x) = Contributors(q)
    BY DEF Contributors
  <1> QED
    BY <1>1 DEF SlotOK

LEMMA SlotUpdate ==
  ASSUME NEW ss, ss \in Seq(Range(ss)), NEW k \in DOMAIN ss, NEW q
  PROVE  LET x == [ss EXCEPT ![k] = q]
         IN  /\ x \in Seq(Range(x)) /\ Len(x) = Len(ss)
             /\ DOMAIN x = DOMAIN ss /\ x[k] = q
             /\ \A j \in DOMAIN ss : j # k => x[j] = ss[j]
  <1> DEFINE x == [ss EXCEPT ![k] = q]
  <1>1. PICK S : S = Range(ss) \cup {q}
    OBVIOUS
  <1>2. ss \in Seq(S)
    <2>1. Range(ss) \subseteq S
      BY <1>1
    <2> QED
      BY <2>1
  <1>3. x \in Seq(S) /\ Len(x) = Len(ss) /\ DOMAIN x = DOMAIN ss /\ x[k] = q
        /\ \A j \in DOMAIN ss : j # k => x[j] = ss[j]
    BY <1>1, <1>2
  <1> HIDE DEF x
  <1>4. x \in Seq(Range(x))
    <2>1. Len(x) \in Nat /\ DOMAIN x = 1..Len(x) /\ \A i \in DOMAIN x : x[i] \in Range(x)
      BY <1>3 DEF Range
    <2>2. x = [i \in 1..Len(x) |-> x[i]]
      BY <1>3
    <2> QED
      BY <2>1, <2>2
  <1> QED
    BY <1>3, <1>4 DEF x

LEMMA SlotAppend ==
  ASSUME NEW ss, ss \in Seq(Range(ss)), NEW q
  PROVE  LET x == Append(ss, q)
         IN  /\ x \in Seq(Range(x)) /\ Len(x) = Len(ss) + 1 /\ Len(ss) \in Nat
             /\ DOMAIN x = DOMAIN ss \cup {Len(ss) + 1} /\ x[Len(ss) + 1] = q
             /\ \A j \in DOMAIN ss : x[j] = ss[j]
             /\ DOMAIN ss = 1..Len(ss)
  <1> DEFINE x == Append(ss, q)
  <1>1. PICK S : S = Range(ss) \cup {q}
    OBVIOUS
  <1>2. ss \in Seq(S)
    <2>1. Range(ss) \subseteq S
      BY <1>1
    <2> QED
      BY <2>1
  <1>3. /\ x \in Seq(S) /\ Len(x) = Len(ss) + 1 /\ Len(ss) \in Nat
        /\ DOMAIN x = 1..(Len(ss) + 1) /\ DOMAIN ss = 1..Len(ss)
        /\ x[Len(ss) + 1] = q
        /\ \A j \in DOMAIN ss : x[j] = ss[j]
    BY <1>1, <1>2
  <1> HIDE DEF x
  <1>4. x \in Seq(Range(x))
    <2>1. Len(x) \in Nat /\ DOMAIN x = 1..Len(x) /\ \A i \in DOMAIN x : x[i] \in Range(x)
      BY <1>3 DEF Range
    <2>2. x = [i \in 1..Len(x) |-> x[i]]
      BY <1>3
    <2> QED
      BY <2>1, <2>2
  <1>5. DOMAIN x = DOMAIN ss \cup {Len(ss) + 1}
    BY <1>3
  <1> QED
    BY <1>3, <1>4, <1>5 DEF x

\* A session is closed.
LEMMA CoherentState ==
  ASSUME NEW sg, NEW up, NEW p, NEW ss, NEW nid, NEW down,
         Coherent(sg, up, p, ss, nid, down), NEW k \in DOMAIN ss,
         NEW v \in {"COMPLETE", "FAILED"}
  PROVE  Coherent(sg, up, p, [ss EXCEPT ![k].state = v], nid, down)
  <1> DEFINE q == [ss[k] EXCEPT !.state = v]
             x == [ss EXCEPT ![k] = q]
  <1>1. SlotsOK(ss, nid) /\ SlotOK(ss[k], nid)
    BY DEF Coherent, SlotsOK
  <1>2. /\ SlotOK(q, nid) /\ q.id = ss[k].id /\ q.members = ss[k].members
        /\ q.pkg = ss[k].pkg /\ q.shares = ss[k].shares
    <2> DEFINE R == [id : 1..(nid - 1), state : {"AWAITING", "COMPLETE", "FAILED"},
                     members : SUBSET Signer, pkg : Package,
                     shares : [ss[k].members -> SentShare \cup {NoShare}], n : Nat]
    <2>1. ss[k] \in R
      BY <1>1 DEF SlotOK
    <2>2. /\ q \in R /\ q.id = ss[k].id /\ q.members = ss[k].members
          /\ q.pkg = ss[k].pkg /\ q.shares = ss[k].shares /\ q.n = ss[k].n
      BY <2>1
    <2> HIDE DEF q
    <2>3. SlotOK(q, nid)
      BY <1>1, <2>2, SlotState
    <2> QED
      BY <2>2, <2>3
  <1> HIDE DEF q
  <1>3. /\ x \in Seq(Range(x)) /\ Len(x) = Len(ss)
        /\ DOMAIN x = DOMAIN ss /\ x[k] = q
        /\ \A j \in DOMAIN ss : j # k => x[j] = ss[j]
    BY <1>1, SlotUpdate DEF SlotsOK
  <1> HIDE DEF x
  <1>4. \A j \in DOMAIN x :
           /\ j \in DOMAIN ss /\ x[j].id = ss[j].id /\ x[j].members = ss[j].members
           /\ x[j].pkg = ss[j].pkg /\ x[j].shares = ss[j].shares
    BY <1>2, <1>3
  <1>5. SlotsOK(x, nid)
    BY <1>1, <1>2, <1>3 DEF SlotsOK
  <1>6. Coherent(sg, up, p, x, nid, down)
    BY <1>4, <1>5, CoherentSlots
  <1> QED
    BY <1>6 DEF x, q

-----------------------------------------------------------------------------
(* Forming a session.                                                      *)

\* chosen[] holds T different signers that wait for a session.
LEMMA SelectionFacts ==
  ASSUME arrived \in [Signer -> Nat],
         NEW p, \A s \in Signer : p[s].phase = "SUSPECT" => p[s].commit = NoCommit,
         NEW st, NEW bl, NEW c \in [1..T -> Connected], IsSelection(c, p, st, bl)
  PROVE  LET M == Chosen(c)
         IN  /\ \A s \in M : /\ s \in Signer /\ p[s].phase = "COMMITTED"
                             /\ p[s].commit # NoCommit
             /\ M \in SUBSET Signer /\ Cardinality(M) = T
  <1> DEFINE M == Chosen(c)
  <1> USE DEF Chosen
  <1>1. \A i \in 1..T : /\ c[i] \in Signer /\ p[c[i]].phase = "COMMITTED"
                        /\ p[c[i]].commit # NoCommit
    BY DEF IsSelection, Reliable, Suspects, Connected
  <1>2. \A i, j \in 1..T : i < j => c[i] # c[j]
    <2> SUFFICES ASSUME NEW i \in 1..T, NEW j \in 1..T, i < j, c[i] = c[j]
                 PROVE  FALSE
      OBVIOUS
    <2>1. Preferred(c[i], c[i], st)
      BY DEF IsSelection
    <2>2. arrived[c[i]] \in Nat
      BY <1>1
    <2> QED
      BY <2>1, <2>2 DEF Preferred, Ahead
  <1>3. T \in Nat /\ T > 0 /\ N \in Nat
    BY GroupAssumption
  <1>4. M \in SUBSET Signer
    BY <1>1
  <1>5. IsFiniteSet(1..T) /\ Cardinality(1..T) = T /\ IsFiniteSet(M)
    <2>1. IsFiniteSet(Signer)
      BY <1>3, FS_Interval DEF Signer
    <2> QED
      BY <1>3, <1>4, <2>1, FS_Interval, FS_Subset
  <1>6. c \in Injection(1..T, M) /\ c \in Surjection(1..T, M)
    <2>1. c \in [1..T -> M]
      OBVIOUS
    <2>2. \A i, j \in 1..T : c[i] = c[j] => i = j
      BY <1>2, <1>3
    <2> QED
      BY <2>1, <2>2 DEF Injection, Surjection, IsInjective
  <1>7. Cardinality(M) = T
    BY <1>5, <1>6, FS_Injection
  <1> QED
    BY <1>1, <1>4, <1>7
\* Session ids go up.
LEMMA SlotLater ==
  ASSUME NEW nid \in Nat \ {0}, NEW q, SlotOK(q, nid)
  PROVE  SlotOK(q, nid + 1)
  <1>1. 1..(nid - 1) \subseteq 1..((nid + 1) - 1)
    OBVIOUS
  <1>2. PICK A : A = 1..(nid - 1)
    OBVIOUS
  <1>3. PICK B : B = 1..((nid + 1) - 1)
    OBVIOUS
  <1>4. q \in [id : A, state : {"AWAITING", "COMPLETE", "FAILED"},
               members : SUBSET Signer, pkg : Package,
               shares : [q.members -> SentShare \cup {NoShare}], n : Nat]
    BY <1>2 DEF SlotOK
  <1>5. q \in [id : B, state : {"AWAITING", "COMPLETE", "FAILED"},
               members : SUBSET Signer, pkg : Package,
               shares : [q.members -> SentShare \cup {NoShare}], n : Nat]
    BY <1>1, <1>2, <1>3, <1>4
  <1> QED
    BY <1>3, <1>5 DEF SlotOK

\* The bundle of a new session lists its members with their commitments.
LEMMA BundleFacts ==
  ASSUME NEW p, NEW nid, TableOK(p, nid), job \in Job, NEW c \in [1..T -> Connected],
         \A i \in 1..T : c[i] \in Signer /\ p[c[i]].commit # NoCommit
  PROVE  LET b == SessionBundle(c, p)
         IN  /\ RelayCommit(b) \in DownFrame
             /\ RelayCommit(b).type = "RELAY_COMMIT" /\ RelayCommit(b).bundle = b
             /\ SigningPackage(b) \in Package
             /\ SigningPackage(b).tbs = IF job.replace THEN <<job.tbs[1], "altered">> ELSE job.tbs
             /\ Owners(SigningPackage(b)) = Chosen(c)
             /\ \A e \in SigningPackage(b).commits :
                  \A s \in Signer : e[1] = s => e[2] = p[s].commit
  <1> DEFINE b == SessionBundle(c, p)
             es == [i \in 1..T |-> Entry(c[i], p[c[i]].commit, p[c[i]].sig)]
             tb == IF job.replace THEN <<job.tbs[1], "altered">> ELSE job.tbs
  <1>1. b.tbs = tb /\ b.entries = es /\ b = [tbs |-> tb, entries |-> es]
    BY DEF SessionBundle, Bundle
  <1>2. tb \in Tbs
    <2>1. job.tbs \in AskedTbs
      BY DEF Job
    <2>2. job.tbs \in Tbs /\ job.tbs[1] \in Nat \ {0}
      BY <2>1 DEF AskedTbs, Tbs
    <2> QED
      BY <2>2 DEF Tbs
  <1>3. T \in Nat
    BY GroupAssumption
  <1>4. \A i \in 1..T : /\ es[i] \in BundleEntry
                        /\ es[i].id = c[i] /\ es[i].commit = p[c[i]].commit
    BY DEF TableOK, PeerRecord, Entry, BundleEntry
  <1>5. es \in Seq(BundleEntry) /\ DOMAIN es = 1..T
    <2>1. es \in [1..T -> BundleEntry]
      BY <1>4
    <2> QED
      BY <1>3, <2>1
  <1> HIDE DEF es, tb, b
  <1>6. /\ RelayCommit(b) \in DownFrame
        /\ RelayCommit(b).type = "RELAY_COMMIT" /\ RelayCommit(b).bundle = b
    BY <1>1, <1>2, <1>5 DEF RelayCommit, DownFrame
  <1>7. SigningPackage(b) \in Package
    BY <1>1, <1>2, <1>5, PackageTyped
  <1>8. /\ SigningPackage(b).tbs = tb
        /\ SigningPackage(b).commits = {<<c[i], p[c[i]].commit>> : i \in 1..T}
    BY <1>1, <1>4, <1>5 DEF SigningPackage
  <1>9. Owners(SigningPackage(b)) = Chosen(c)
    <2>1. ASSUME NEW o \in Owners(SigningPackage(b)) PROVE o \in Chosen(c)
      <3>1. PICK e \in SigningPackage(b).commits : o = e[1]
        BY <2>1 DEF Owners
      <3>2. PICK i \in 1..T : e = <<c[i], p[c[i]].commit>>
        BY <1>8
      <3> QED
        BY <3>1, <3>2 DEF Chosen
    <2>2. ASSUME NEW i \in 1..T PROVE c[i] \in Owners(SigningPackage(b))
      <3>1. PICK e : e = <<c[i], p[c[i]].commit>>
        OBVIOUS
      <3>2. e \in SigningPackage(b).commits /\ e[1] = c[i]
        BY <1>8, <3>1
      <3> QED
        BY <3>2 DEF Owners
    <2> QED
      BY <2>1, <2>2 DEF Chosen
  <1>10. \A e \in SigningPackage(b).commits :
           \A s \in Signer : e[1] = s => e[2] = p[s].commit
    BY <1>8
  <1> QED
    BY <1>6, <1>7, <1>8, <1>9, <1>10, Zenon DEF b, tb

LEMMA NewSlotOK ==
  ASSUME NEW p, NEW c, nextId \in Nat \ {0},
         NEW M, M = Chosen(c), M \in SUBSET Signer, Cardinality(M) = T,
         SigningPackage(SessionBundle(c, p)) \in Package,
         Owners(SigningPackage(SessionBundle(c, p))) = M
  PROVE  LET q == NewSession(c, p)
         IN  /\ SlotOK(q, nextId + 1)
             /\ q.id = nextId /\ q.members = M /\ q.state = "AWAITING"
             /\ q.pkg = SigningPackage(SessionBundle(c, p))
             /\ \A s \in M : q.shares[s] = NoShare
  <1> DEFINE q == NewSession(c, p)
             pk == SigningPackage(SessionBundle(c, p))
             sh == [s \in M |-> NoShare]
  <1>1. q = [id |-> nextId, state |-> "AWAITING", members |-> M, pkg |-> pk,
             shares |-> sh, n |-> 0]
    BY DEF NewSession, Chosen
  <1>2. sh \in [M -> SentShare \cup {NoShare}]
    OBVIOUS
  <1> HIDE DEF q, pk, sh
  <1>3. /\ q.id = nextId /\ q.members = M /\ q.state = "AWAITING" /\ q.pkg = pk
        /\ q.shares = sh /\ q.n = 0
    BY <1>1
  <1>4. nextId \in 1..((nextId + 1) - 1)
    OBVIOUS
  <1>5. PICK A : A = 1..((nextId + 1) - 1)
    OBVIOUS
  <1>6. q \in [id : A, state : {"AWAITING", "COMPLETE", "FAILED"},
               members : SUBSET Signer, pkg : Package,
               shares : [q.members -> SentShare \cup {NoShare}], n : Nat]
    BY <1>1, <1>2, <1>3, <1>4, <1>5 DEF pk
  <1>7. Contributors(q) = {}
    BY <1>3 DEF Contributors, sh
  <1>8. SlotOK(q, nextId + 1)
    BY <1>3, <1>5, <1>6, <1>7, FS_EmptySet DEF SlotOK, pk
  <1> QED
    BY <1>3, <1>8 DEF q, pk, sh

LEMMA FormCoherent ==
  ASSUME NEW sg, NEW up, NEW p, NEW ss, NEW down,
         Coherent(sg, up, p, ss, nextId, down),
         arrived \in [Signer -> Nat], job \in Job, ~NoSlot(ss),
         NEW st, NEW bl, NEW c \in [1..T -> Connected], IsSelection(c, p, st, bl)
  PROVE  Coherent(sg, up, EnterSession(c, p), Append(ss, NewSession(c, p)), nextId + 1,
                  SendTo(down, Chosen(c), RelayCommit(SessionBundle(c, p))))
  <1> DEFINE M  == Chosen(c)
             q  == NewSession(c, p)
             g  == RelayCommit(SessionBundle(c, p))
             x  == EnterSession(c, p)
             x2 == Append(ss, q)
             d  == SendTo(down, M, g)
  <1>0. nextId \in Nat \ {0} /\ TableOK(p, nextId) /\ SlotsOK(ss, nextId)
    BY DEF Coherent
  <1>1. \A s \in Signer : p[s].phase = "SUSPECT" => p[s].commit = NoCommit
    BY DEF Coherent, Link, PhaseFits
  <1>2. /\ \A s \in M : s \in Signer /\ p[s].phase = "COMMITTED" /\ p[s].commit # NoCommit
        /\ M \in SUBSET Signer /\ Cardinality(M) = T
    BY <1>1, SelectionFacts
  <1>3. \A i \in 1..T : c[i] \in Signer /\ p[c[i]].commit # NoCommit
    BY <1>2 DEF Chosen
  <1>4. /\ g \in DownFrame /\ g.type = "RELAY_COMMIT"
        /\ g.bundle = SessionBundle(c, p)
        /\ SigningPackage(SessionBundle(c, p)) \in Package
        /\ Owners(SigningPackage(SessionBundle(c, p))) = M
        /\ \A e \in SigningPackage(SessionBundle(c, p)).commits :
             \A s \in Signer : e[1] = s => e[2] = p[s].commit
    BY <1>0, <1>3, BundleFacts
  <1>5. /\ SlotOK(q, nextId + 1)
        /\ q.id = nextId /\ q.members = M
        /\ q.pkg = SigningPackage(SessionBundle(c, p))
        /\ \A s \in M : q.shares[s] = NoShare
    BY <1>0, <1>2, <1>4, NewSlotOK, ZenonT(40)
  <1>6. /\ x2 \in Seq(Range(x2)) /\ Len(x2) = Len(ss) + 1 /\ Len(ss) \in Nat
        /\ DOMAIN x2 = DOMAIN ss \cup {Len(ss) + 1} /\ x2[Len(ss) + 1] = q
        /\ \A j \in DOMAIN ss : x2[j] = ss[j]
    <2> HIDE DEF q
    <2> QED
      BY <1>0, SlotAppend DEF SlotsOK
  <1>7. \A s \in Signer : x[s] = IF s \in M THEN [p[s] EXCEPT !.phase = "IN_SESSION",
                                                              !.session = nextId]
                                 ELSE p[s]
    BY DEF EnterSession, Chosen
  <1>8. /\ x = [s \in Signer |-> x[s]]
        /\ \A s \in Signer : s \notin M => x[s] = p[s]
    BY DEF EnterSession, Chosen
  <1>9. d = [s \in Signer |-> d[s]] /\
        \A s \in Signer : d[s] = IF s \in M THEN Append(down[s], g) ELSE down[s]
    BY DEF SendTo
  <1> HIDE DEF M, q, g, x, x2, d
  <1>10. SlotsOK(x2, nextId + 1)
    <2>1. Len(x2) <= MaxSessions
      BY <1>0, <1>6, CoordinatorAssumption DEF SlotsOK, NoSlot
    <2>2. \A k \in DOMAIN ss : SlotOK(ss[k], nextId + 1)
      BY <1>0, SlotLater DEF SlotsOK
    <2> QED
      BY <1>5, <1>6, <2>1, <2>2 DEF SlotsOK
  <1>11. \A s \in M : /\ x[s] \in PeerRecord /\ x[s].session = nextId
                      /\ x[s].phase = "IN_SESSION" /\ x[s].commit = p[s].commit
                      /\ x[s].sig = p[s].sig
    <2> TAKE s \in M
    <2>1. p[s] \in PeerRecord /\ s \in Signer
      BY <1>0, <1>2 DEF TableOK
    <2>2. x[s] = [p[s] EXCEPT !.phase = "IN_SESSION", !.session = nextId]
      BY <1>7, <2>1
    <2> QED
      BY <1>0, <2>1, <2>2 DEF PeerRecord, Phase
  <1>12. TableOK(x, nextId + 1)
    <2>1. \A s \in Signer : /\ x[s] \in PeerRecord /\ x[s].session < nextId + 1
                            /\ x[s].commit # NoCommit => x[s].sig \in CommitSig
      <3> TAKE s \in Signer
      <3>1. /\ p[s] \in PeerRecord /\ p[s].session < nextId /\ p[s].session \in Nat
            /\ p[s].commit # NoCommit => p[s].sig \in CommitSig
        BY <1>0 DEF TableOK, PeerRecord
      <3>2. CASE s \in M
        BY <1>0, <1>11, <3>1, <3>2
      <3>3. CASE s \notin M
        BY <1>0, <1>8, <3>1, <3>3
      <3> QED
        BY <3>2, <3>3
    <2> QED
      BY <1>8, <2>1 DEF TableOK
  <1>13. ASSUME NEW s \in Signer
         PROVE  /\ d[s] \in Seq(DownFrame)
                /\ Link(s, sg[s], x[s], x2, Range(up[s]), Range(d[s]))
    <2>1. /\ down[s] \in Seq(DownFrame) /\ p[s] \in PeerRecord
          /\ Link(s, sg[s], p[s], ss, Range(up[s]), Range(down[s]))
          /\ \A k \in DOMAIN ss : ss[k].id # nextId
      <3>1. \A k \in DOMAIN ss : ss[k].id \in 1..(nextId - 1)
        BY <1>0 DEF SlotsOK, SlotOK
      <3> QED
        BY <1>0, <3>1, CoherentFacts
    <2>2. CASE s \in M
      <3>1. d[s] = Append(down[s], g)
        BY <1>9, <2>2
      <3>2. d[s] \in Seq(DownFrame) /\ Range(d[s]) = Range(down[s]) \cup {g}
        BY <1>4, <2>1, <3>1, FramesOf
      <3>3. \A k \in DOMAIN x2 : x2[k] = q \/ (\E j \in DOMAIN ss : x2[k] = ss[j])
        BY <1>6
      <3>4. SigningPackage(g.bundle) = q.pkg /\ \A e \in q.pkg.commits : e[1] = s => e[2] = p[s].commit
        BY <1>4, <1>5
      <3>5. p[s].phase = "COMMITTED" /\ q.shares[s] = NoShare /\ nextId # 0
        BY <1>0, <1>2, <1>5, <2>2
      <3>6. x[s].phase = "IN_SESSION" /\ x[s].commit = p[s].commit /\ x[s].session = nextId
        BY <1>11, <2>2
      <3>7. Link(s, sg[s], x[s], x2, Range(up[s]), Range(down[s]) \cup {g})
        <4>1. PICK y \in PeerRecord : y = p[s]
          BY <2>1
        <4>2. PICK r : r = sg[s]
          OBVIOUS
        <4>3. PICK U : U = Range(up[s])
          OBVIOUS
        <4>4. PICK D : D = Range(down[s])
          OBVIOUS
        <4>5. PICK z : z = x[s]
          OBVIOUS
        <4>6. Link(s, r, y, ss, U, D) /\ y.phase = "COMMITTED"
          BY <2>1, <3>5, <4>1, <4>2, <4>3, <4>4
        <4>7. z.phase = "IN_SESSION" /\ z.commit = y.commit /\ z.session = nextId
          BY <3>6, <4>1, <4>5
        <4>8. /\ g.type = "RELAY_COMMIT"
              /\ \A e \in SigningPackage(g.bundle).commits : e[1] = s => e[2] = y.commit
          BY <1>4, <3>4, <4>1
        <4>9. \A k \in DOMAIN x2 : x2[k].id = z.session =>
                x2[k].pkg = SigningPackage(g.bundle) /\ x2[k].shares[s] = NoShare
          BY <2>1, <3>3, <3>4, <3>5, <4>7
        <4>10. z.session # 0
          BY <3>5, <4>7
        <4>12. Link(s, r, z, x2, U, D \cup {g})
          BY <4>6, <4>7, <4>8, <4>9, <4>10, LinkEnter
        <4> QED
          BY <4>2, <4>3, <4>4, <4>5, <4>12
      <3> QED
        BY <3>2, <3>7
    <2>3. CASE s \notin M
      <3>1. d[s] = down[s] /\ x[s] = p[s]
        BY <1>8, <1>9, <2>3
      <3>2. \A k \in DOMAIN x2 : s \in x2[k].members => \E j \in DOMAIN ss : x2[k] = ss[j]
        BY <1>5, <1>6, <2>3
      <3>3. Link(s, sg[s], p[s], x2, Range(up[s]), Range(down[s]))
        BY <2>1, <3>2, LinkSlots
      <3> QED
        BY <2>1, <3>1, <3>3
    <2> QED
      BY <2>2, <2>3
  <1>14. d \in [Signer -> Seq(DownFrame)]
    BY <1>9, <1>13
  <1>15. Coherent(sg, up, x, x2, nextId + 1, d)
    BY <1>0, <1>10, <1>12, <1>13, <1>14 DEF Coherent
  <1> QED
    BY <1>15 DEF M, q, g, x, x2, d
\* roast_try_form_session forms one session, or leaves all as it was.
LEMMA TryFormCoherent ==
  ASSUME NEW sg, NEW up, NEW p, NEW st, NEW bl, NEW ss, NEW q,
         Coherent(sg, up, p, ss, nextId, q), arrived \in [Signer -> Nat], job \in Job,
         TryForm(p, st, bl, ss, q)
  PROVE  Coherent(sg, up, peer', sessions', nextId', toS')
  <1>1. CASE peer' = p /\ sessions' = ss /\ nextId' = nextId /\ toS' = q
    BY <1>1
  <1>2. ASSUME NEW c \in {x \in [1..T -> Connected] : IsSelection(x, p, st, bl)},
               ~NoSlot(ss),
               peer' = EnterSession(c, p), sessions' = Append(ss, NewSession(c, p)),
               nextId' = nextId + 1,
               toS' = SendTo(q, {c[i] : i \in 1..T}, RelayCommit(SessionBundle(c, p)))
        PROVE  Coherent(sg, up, peer', sessions', nextId', toS')
    <2>1. toS' = SendTo(q, Chosen(c), RelayCommit(SessionBundle(c, p)))
      BY <1>2 DEF Chosen
    <2>2. c \in [1..T -> Connected] /\ IsSelection(c, p, st, bl)
      OBVIOUS
    <2>3. Coherent(sg, up, EnterSession(c, p), Append(ss, NewSession(c, p)), nextId + 1,
                   SendTo(q, Chosen(c), RelayCommit(SessionBundle(c, p))))
      BY <1>2, <2>2, FormCoherent
    <2> QED
      BY <1>2, <2>1, <2>3
  <1> QED
    BY <1>1, <1>2, Zenon DEF TryForm

-----------------------------------------------------------------------------
(* One connection: the signer s, its entry, and its two streams.           *)

LEMMA CoherentOne ==
  ASSUME NEW sg, NEW up, NEW p, NEW ss, NEW nid, NEW down,
         Coherent(sg, up, p, ss, nid, down), NEW s \in Signer,
         NEW r \in SignerRecord, r.tbs \in AskedTbs \cup {NoTbs},
         NEW u \in Seq(UpFrame), Ordered(u),
         NEW y \in PeerRecord, y.session < nid, y.commit # NoCommit => y.sig \in CommitSig,
         NEW d \in Seq(DownFrame),
         Link(s, r, y, ss, Range(u), Range(d))
  PROVE  Coherent([sg EXCEPT ![s] = r], [up EXCEPT ![s] = u], [p EXCEPT ![s] = y],
                  ss, nid, [down EXCEPT ![s] = d])
  <1> DEFINE sg2 == [sg EXCEPT ![s] = r]
             up2 == [up EXCEPT ![s] = u]
             p2  == [p EXCEPT ![s] = y]
             dn2 == [down EXCEPT ![s] = d]
  <1>1. /\ SignersOK(sg) /\ TableOK(p, nid) /\ SlotsOK(ss, nid) /\ nid \in Nat \ {0}
        /\ up \in [Signer -> Seq(UpFrame)] /\ down \in [Signer -> Seq(DownFrame)]
    BY DEF Coherent
  <1>2. sg \in [Signer -> SignerRecord] /\ p \in [Signer -> PeerRecord]
    BY <1>1 DEF SignersOK, TableOK
  <1>3. /\ sg2 \in [Signer -> SignerRecord] /\ sg2[s] = r
        /\ \A x \in Signer : x # s => sg2[x] = sg[x]
    BY <1>2
  <1>4. /\ up2 \in [Signer -> Seq(UpFrame)] /\ up2[s] = u
        /\ \A x \in Signer : x # s => up2[x] = up[x]
    BY <1>1
  <1>5. /\ p2 \in [Signer -> PeerRecord] /\ p2[s] = y
        /\ \A x \in Signer : x # s => p2[x] = p[x]
    BY <1>2
  <1>6. /\ dn2 \in [Signer -> Seq(DownFrame)] /\ dn2[s] = d
        /\ \A x \in Signer : x # s => dn2[x] = down[x]
    BY <1>1
  <1> HIDE DEF sg2, up2, p2, dn2
  <1>7. SignersOK(sg2)
    BY <1>1, <1>3 DEF SignersOK
  <1>8. TableOK(p2, nid)
    BY <1>1, <1>5 DEF TableOK
  <1>9. ASSUME NEW x \in Signer
        PROVE  Ordered(up2[x]) /\ Link(x, sg2[x], p2[x], ss, Range(up2[x]), Range(dn2[x]))
    <2>1. CASE x = s
      BY <1>3, <1>4, <1>5, <1>6, <2>1
    <2>2. CASE x # s
      BY <1>3, <1>4, <1>5, <1>6, <2>2 DEF Coherent
    <2> QED
      BY <2>1, <2>2
  <1>10. Coherent(sg2, up2, p2, ss, nid, dn2)
    BY <1>1, <1>4, <1>6, <1>7, <1>8, <1>9 DEF Coherent
  <1> QED
    BY <1>10 DEF sg2, up2, p2, dn2

LEMMA FunctionSame ==
  ASSUME NEW f, NEW S, f = [x \in S |-> f[x]], NEW s \in S
  PROVE  [f EXCEPT ![s] = f[s]] = f
  OBVIOUS

\* A step of the signer leaves its entry alone.
LEMMA CoherentSigner ==
  ASSUME NEW sg, NEW up, NEW p, NEW ss, NEW nid, NEW down,
         Coherent(sg, up, p, ss, nid, down), NEW s \in Signer,
         NEW r \in SignerRecord, r.tbs \in AskedTbs \cup {NoTbs},
         NEW u \in Seq(UpFrame), Ordered(u), NEW d \in Seq(DownFrame),
         Link(s, r, p[s], ss, Range(u), Range(d))
  PROVE  Coherent([sg EXCEPT ![s] = r], [up EXCEPT ![s] = u], p, ss, nid,
                  [down EXCEPT ![s] = d])
  <1>1. p = [x \in Signer |-> p[x]] /\ p[s] \in PeerRecord /\ p[s].session < nid
        /\ (p[s].commit # NoCommit => p[s].sig \in CommitSig)
    BY DEF Coherent, TableOK
  <1>2. [p EXCEPT ![s] = p[s]] = p
    BY <1>1, FunctionSame
  <1>3. PICK y : y = p[s]
    OBVIOUS
  <1>4. Coherent([sg EXCEPT ![s] = r], [up EXCEPT ![s] = u], [p EXCEPT ![s] = y],
                 ss, nid, [down EXCEPT ![s] = d])
    BY <1>1, <1>3, CoherentOne
  <1> QED
    BY <1>2, <1>3, <1>4

\* A step of the coordinator pops a frame and leaves the signer alone.
LEMMA CoherentPop ==
  ASSUME NEW sg, NEW up, NEW p, NEW ss, NEW nid, NEW down,
         Coherent(sg, up, p, ss, nid, down), NEW s \in Signer, up[s] # <<>>,
         NEW y \in PeerRecord, y.session < nid, y.commit # NoCommit => y.sig \in CommitSig,
         NEW d \in Seq(DownFrame),
         Link(s, sg[s], y, ss, Range(Tail(up[s])), Range(d))
  PROVE  Coherent(sg, [up EXCEPT ![s] = Tail(@)], [p EXCEPT ![s] = y], ss, nid,
                  [down EXCEPT ![s] = d])
  <1>1. /\ sg = [x \in Signer |-> sg[x]] /\ sg[s] \in SignerRecord
        /\ sg[s].tbs \in AskedTbs \cup {NoTbs}
    BY DEF Coherent, SignersOK
  <1>2. [sg EXCEPT ![s] = sg[s]] = sg
    BY <1>1, FunctionSame
  <1>3. Tail(up[s]) \in Seq(UpFrame) /\ Ordered(Tail(up[s]))
    <2>1. up[s] \in Seq(UpFrame) /\ Ordered(up[s])
      BY CoherentFacts
    <2> QED
      BY <2>1, OrderedTail
  <1>4. PICK r : r = sg[s]
    OBVIOUS
  <1>5. PICK u : u = Tail(up[s])
    OBVIOUS
  <1>6. Coherent([sg EXCEPT ![s] = r], [up EXCEPT ![s] = u], [p EXCEPT ![s] = y],
                 ss, nid, [down EXCEPT ![s] = d])
    BY <1>1, <1>3, <1>4, <1>5, CoherentOne
  <1> QED
    BY <1>2, <1>4, <1>5, <1>6
-----------------------------------------------------------------------------
(* Steps of a signer.                                                      *)

LEMMA DrawFacts ==
  ASSUME NEW s \in Signer, NEW r \in SignerRecord
  PROVE  /\ DrawNonces(s, r) \in SignerRecord
         /\ DrawNonces(s, r).nonces = <<s, r.drawn + 1>>
         /\ DrawNonces(s, r).commit = <<s, r.drawn + 1>>
         /\ DrawNonces(s, r).drawn = r.drawn + 1
         /\ DrawNonces(s, r).pre = r.pre /\ DrawNonces(s, r).tbs = r.tbs
         /\ DrawNonces(s, r).up = r.up
  <1>1. r.drawn + 1 \in Nat \ {0}
    BY DEF SignerRecord
  <1>2. <<s, r.drawn + 1>> \in Commitment
    BY <1>1 DEF Commitment
  <1> QED
    BY <1>1, <1>2 DEF DrawNonces, SignerRecord

LEMMA ZeroFacts ==
  ASSUME NEW r \in SignerRecord
  PROVE  /\ ZeroNonces(r) \in SignerRecord
         /\ ZeroNonces(r).nonces = NoCommit
         /\ ZeroNonces(r).drawn = r.drawn /\ ZeroNonces(r).pre = r.pre
         /\ ZeroNonces(r).tbs = r.tbs /\ ZeroNonces(r).up = r.up
  BY DEF ZeroNonces, SignerRecord

\* The precomputation keeps the link.
LEMMA LinkPrecompute ==
  ASSUME NEW s \in Signer, NEW r \in SignerRecord, NEW p \in PeerRecord, NEW ss,
         NEW U \in SUBSET UpFrame, NEW D \in SUBSET DownFrame,
         Link(s, r, p, ss, U, D), \A k \in DOMAIN ss : ss[k].id # 0, NEW ok \in BOOLEAN
  PROVE  LET x == Precompute(s, r, ok)
         IN  /\ x \in SignerRecord /\ x.tbs = r.tbs /\ x.up = r.up
             /\ Link(s, x, p, ss, U, D)
  <1> DEFINE x == Precompute(s, r, ok)
  <1>1. CASE ~(r.signMode /\ r.state \in {"IDLE", "COMPLETE"} /\ ~r.pre)
    <2>1. x = r
      BY <1>1 DEF Precompute
    <2> QED
      BY <2>1
  <1>2. CASE /\ r.signMode /\ r.state \in {"IDLE", "COMPLETE"} /\ ~r.pre
             /\ r.key /\ ok
    <2>1. PICK d \in SignerRecord : d = DrawNonces(s, r)
      BY DrawFacts
    <2>2. /\ d.nonces = <<s, r.drawn + 1>> /\ d.commit = <<s, r.drawn + 1>>
          /\ d.drawn = r.drawn + 1 /\ d.tbs = r.tbs /\ d.up = r.up
      BY <2>1, DrawFacts
    <2>3. x = [d EXCEPT !.pre = TRUE]
      BY <1>2, <2>1 DEF Precompute, TryDraw
    <2> HIDE DEF x
    <2>4. /\ x \in SignerRecord
          /\ x.nonces = <<s, r.drawn + 1>> /\ x.commit = x.nonces
          /\ x.pre = TRUE /\ x.drawn = r.drawn + 1 /\ x.tbs = r.tbs /\ x.up = r.up
      BY <2>2, <2>3 DEF SignerRecord
    <2>5. Link(s, x, p, ss, U, D)
      BY <2>4, LinkDraw
    <2> QED
      BY <2>4, <2>5 DEF x
  <1>3. CASE /\ r.signMode /\ r.state \in {"IDLE", "COMPLETE"} /\ ~r.pre
             /\ ~(r.key /\ ok)
    <2>1. PICK d \in SignerRecord : d = ZeroNonces(r)
      BY ZeroFacts
    <2>2. d.nonces = NoCommit /\ d.drawn = r.drawn /\ d.tbs = r.tbs /\ d.up = r.up
      BY <2>1, ZeroFacts
    <2>3. x = [d EXCEPT !.pre = FALSE]
      BY <1>3, <2>1 DEF Precompute, TryDraw
    <2> HIDE DEF x
    <2>4. /\ x \in SignerRecord /\ x.nonces = NoCommit /\ x.pre = FALSE
          /\ x.drawn = r.drawn /\ x.tbs = r.tbs /\ x.up = r.up
      BY <2>2, <2>3 DEF SignerRecord
    <2>5. Link(s, x, p, ss, U, D)
      BY <2>4, LinkZero
    <2> QED
      BY <2>4, <2>5 DEF x
  <1> QED
    BY <1>1, <1>2, <1>3

\* A handler leaves the globals r, the queue u and, of its input, d.
LEMMA PassCoherent ==
  ASSUME Coherent(signer, toC, peer, sessions, nextId, toS), NEW s \in Signer,
         NEW r \in SignerRecord, r.tbs \in AskedTbs \cup {NoTbs}, r.up = TRUE,
         NEW u \in Seq(UpFrame), Ordered(u), NEW d \in Seq(DownFrame),
         Link(s, r, peer[s], sessions, Range(u), Range(d)),
         EndOfPass(s, r), toC' = [toC EXCEPT ![s] = u],
         toS' = [toS EXCEPT ![s] = IF signer'[s].up THEN d ELSE <<>>]
  PROVE  Coherent(signer', toC', peer, sessions, nextId, toS')
  <1>1. PICK ok \in BOOLEAN : signer' = [signer EXCEPT ![s] = Precompute(s, r, ok)]
    BY SignerAssumption DEF EndOfPass, CoreOutcome
  <1>2. /\ peer[s] \in PeerRecord /\ \A k \in DOMAIN sessions : sessions[k].id # 0
        /\ signer = [x \in Signer |-> signer[x]]
    <2>1. peer[s] \in PeerRecord /\ \A k \in DOMAIN sessions : sessions[k].id # 0
      BY CoherentFacts
    <2>2. signer = [x \in Signer |-> signer[x]]
      BY DEF Coherent, SignersOK
    <2> QED
      BY <2>1, <2>2
  <1>3. Range(u) \in SUBSET UpFrame /\ Range(d) \in SUBSET DownFrame
    BY DEF Range
  <1>4. PICK x : x = Precompute(s, r, ok)
    OBVIOUS
  <1>5. /\ x \in SignerRecord /\ x.tbs = r.tbs /\ x.up = r.up
        /\ Link(s, x, peer[s], sessions, Range(u), Range(d))
    <2>1. PICK y \in PeerRecord : y = peer[s]
      BY <1>2
    <2>2. PICK U \in SUBSET UpFrame : U = Range(u)
      BY <1>3
    <2>3. PICK D \in SUBSET DownFrame : D = Range(d)
      BY <1>3
    <2>4. Link(s, r, y, sessions, U, D)
      BY <2>1, <2>2, <2>3
    <2>5. /\ x \in SignerRecord /\ x.tbs = r.tbs /\ x.up = r.up
          /\ Link(s, x, y, sessions, U, D)
      BY <1>2, <1>4, <2>4, LinkPrecompute
    <2> QED
      BY <2>1, <2>2, <2>3, <2>5
  <1>6. signer' = [signer EXCEPT ![s] = x] /\ signer'[s] = x
    BY <1>1, <1>2, <1>4
  <1>7. toS' = [toS EXCEPT ![s] = d]
    BY <1>5, <1>6
  <1>8. Coherent([signer EXCEPT ![s] = x], [toC EXCEPT ![s] = u], peer, sessions,
                 nextId, [toS EXCEPT ![s] = d])
    BY <1>5, CoherentSigner
  <1> QED
    BY <1>6, <1>7, <1>8

LEMMA ReturnCoherent ==
  ASSUME Coherent(signer, toC, peer, sessions, nextId, toS), NEW s \in Signer,
         NEW r \in SignerRecord, r.tbs \in AskedTbs \cup {NoTbs}, r.up = TRUE,
         toS[s] # <<>>,
         Link(s, r, peer[s], sessions, Range(toC[s]), Range(toS[s])),
         Return(s, r),
         toS' = [toS EXCEPT ![s] = IF signer'[s].up THEN Tail(@) ELSE <<>>]
  PROVE  Coherent(signer', toC', peer, sessions, nextId, toS')
  <1>1. /\ toC[s] \in Seq(UpFrame) /\ Ordered(toC[s]) /\ toS[s] \in Seq(DownFrame)
        /\ toC = [x \in Signer |-> toC[x]] /\ toS = [x \in Signer |-> toS[x]]
    BY CoherentFacts DEF Coherent
  <1>2. Tail(toS[s]) \in Seq(DownFrame) /\ Range(Tail(toS[s])) \in SUBSET Range(toS[s])
    <2>1. CertOutput \in DownFrame
      BY DEF DownFrame
    <2> QED
      BY <1>1, <2>1, FramesOf
  <1>3. PICK u : u = toC[s]
    OBVIOUS
  <1>4. PICK d : d = Tail(toS[s])
    OBVIOUS
  <1>5. toC' = [toC EXCEPT ![s] = u]
    BY <1>1, <1>3 DEF Return
  <1>6. toS' = [toS EXCEPT ![s] = IF signer'[s].up THEN d ELSE <<>>]
    BY <1>1, <1>4
  <1>7. Link(s, r, peer[s], sessions, Range(u), Range(d))
    BY <1>2, <1>3, <1>4, LinkMono
  <1> QED
    BY <1>1, <1>2, <1>3, <1>4, <1>5, <1>6, <1>7, PassCoherent DEF Return

LEMMA ReplyCoherent ==
  ASSUME Coherent(signer, toC, peer, sessions, nextId, toS), NEW s \in Signer,
         NEW r \in SignerRecord, r.tbs \in AskedTbs \cup {NoTbs}, r.up = TRUE,
         toS[s] # <<>>, NEW f \in UpFrame, Ordered(Append(toC[s], f)),
         Link(s, r, peer[s], sessions, Range(toC[s]) \cup {f}, Range(toS[s])),
         Reply(s, r, f),
         toS' = [toS EXCEPT ![s] = IF signer'[s].up THEN Tail(@) ELSE <<>>]
  PROVE  Coherent(signer', toC', peer, sessions, nextId, toS')
  <1>1. /\ toC[s] \in Seq(UpFrame) /\ toS[s] \in Seq(DownFrame)
        /\ toC = [x \in Signer |-> toC[x]] /\ toS = [x \in Signer |-> toS[x]]
    BY CoherentFacts DEF Coherent
  <1>2. Tail(toS[s]) \in Seq(DownFrame) /\ Range(Tail(toS[s])) \in SUBSET Range(toS[s])
    <2>1. CertOutput \in DownFrame
      BY DEF DownFrame
    <2> QED
      BY <1>1, <2>1, FramesOf
  <1>3. PICK u : u = Append(toC[s], f)
    OBVIOUS
  <1>4. PICK d : d = Tail(toS[s])
    OBVIOUS
  <1>5. toC' = [toC EXCEPT ![s] = u]
    BY <1>1, <1>3 DEF Reply
  <1>6. toS' = [toS EXCEPT ![s] = IF signer'[s].up THEN d ELSE <<>>]
    BY <1>1, <1>4
  <1>7. u \in Seq(UpFrame) /\ Range(u) = Range(toC[s]) \cup {f}
    BY <1>1, <1>3, FramesOf
  <1>8. Link(s, r, peer[s], sessions, Range(u), Range(d))
    <2>1. Link(s, r, peer[s], sessions, Range(u), Range(toS[s]))
      BY <1>7
    <2> QED
      BY <1>2, <1>4, <2>1, LinkMono
  <1> QED
    BY <1>2, <1>3, <1>4, <1>5, <1>6, <1>7, <1>8, PassCoherent DEF Reply

LEMMA LoadFailCoherent ==
  ASSUME Coherent(signer, toC, peer, sessions, nextId, toS), NEW s \in Signer,
         NEW r \in SignerRecord, r.tbs \in AskedTbs \cup {NoTbs}, r.up = TRUE,
         toS[s] # <<>>,
         Link(s, r, peer[s], sessions, Range(toC[s]), Range(toS[s])),
         Reply(s, r, ShareLoadFail),
         toS' = [toS EXCEPT ![s] = IF signer'[s].up THEN Tail(@) ELSE <<>>]
  PROVE  Coherent(signer', toC', peer, sessions, nextId, toS')
  <1>1. ShareLoadFail \in UpFrame /\ ShareLoadFail.type \notin {"COMMIT", "SIG_SHARE"}
    BY DEF UpFrame, ShareLoadFail
  <1>2. CertOutput.type # "RELAY_COMMIT"
    BY DEF CertOutput
  <1>3. toC[s] \in Seq(UpFrame) /\ Ordered(toC[s])
    BY CoherentFacts
  <1>4. PICK f \in UpFrame : f = ShareLoadFail
    BY <1>1
  <1>5. Ordered(Append(toC[s], f))
    BY <1>1, <1>3, <1>4, OrderedAppend
  <1>6. Link(s, r, peer[s], sessions, Range(toC[s]) \cup {f}, Range(toS[s]))
    BY <1>1, <1>2, <1>4, LinkNeutral
  <1>7. Reply(s, r, f)
    BY <1>4
  <1> QED
    BY <1>5, <1>6, <1>7, ReplyCoherent

LEMMA FreshFacts ==
  ASSUME NEW n \in Nat
  PROVE  /\ FreshSigner(n) \in SignerRecord /\ FreshSigner(n).tbs = NoTbs
         /\ FreshSigner(n).nonces = NoCommit /\ FreshSigner(n).pre = FALSE
         /\ FreshSigner(n).drawn = n
         /\ \A r : r = [FreshSigner(n) EXCEPT !.up = FALSE] =>
              /\ r \in SignerRecord /\ r.tbs = NoTbs /\ r.nonces = NoCommit
              /\ r.pre = FALSE /\ r.drawn = n
  <1>1. T \in Nat /\ "IDLE" \in SignerState
    BY GroupAssumption DEF SignerState
  <1>2. PICK x : x = FreshSigner(n)
    OBVIOUS
  <1>3. /\ x \in SignerRecord /\ x.tbs = NoTbs /\ x.nonces = NoCommit /\ x.pre = FALSE
        /\ x.drawn = n
    BY <1>1, <1>2 DEF FreshSigner, SignerRecord
  <1>4. ASSUME NEW r, r = [x EXCEPT !.up = FALSE]
        PROVE  /\ r \in SignerRecord /\ r.tbs = NoTbs /\ r.nonces = NoCommit
               /\ r.pre = FALSE /\ r.drawn = n
    BY <1>3, <1>4 DEF SignerRecord
  <1> QED
    BY <1>2, <1>3, <1>4, Zenon

\* The process of s dies.
LEMMA DieCoherent ==
  ASSUME Coherent(signer, toC, peer, sessions, nextId, toS), NEW s \in Signer,
         Die(s), toS' = [toS EXCEPT ![s] = <<>>]
  PROVE  Coherent(signer', toC', peer, sessions, nextId, toS')
  <1>1. /\ toC[s] \in Seq(UpFrame) /\ Ordered(toC[s]) /\ signer[s] \in SignerRecord
        /\ Link(s, signer[s], peer[s], sessions, Range(toC[s]), Range(toS[s]))
        /\ \A k \in DOMAIN sessions : sessions[k].id # 0
        /\ toC = [x \in Signer |-> toC[x]]
    BY CoherentFacts DEF Coherent
  <1>2. PICK k \in 0..Len(toC[s]) :
          toC' = [toC EXCEPT ![s] = Append(SubSeq(toC[s], 1, k), Closed)]
    BY <1>1 DEF Die
  <1>3. PICK v : v = SubSeq(toC[s], 1, k)
    OBVIOUS
  <1>4. v \in Seq(UpFrame) /\ Range(v) \in SUBSET Range(toC[s]) /\ Ordered(v)
    BY <1>1, <1>3, FramesPrefix, OrderedPrefix
  <1>5. PICK u : u = Append(v, Closed)
    OBVIOUS
  <1>6. Closed \in UpFrame /\ Closed.type \notin {"COMMIT", "SIG_SHARE"}
    BY DEF UpFrame, Closed
  <1>7. u \in Seq(UpFrame) /\ Range(u) = Range(v) \cup {Closed} /\ Ordered(u)
    BY <1>4, <1>5, <1>6, FramesOf, OrderedAppend
  <1>8. PICK r : r = [FreshSigner(signer[s].drawn) EXCEPT !.up = FALSE]
    OBVIOUS
  <1>9. /\ r \in SignerRecord /\ r.tbs = NoTbs /\ r.nonces = NoCommit /\ r.pre = FALSE
        /\ r.drawn = signer[s].drawn
    <2>1. signer[s].drawn \in Nat
      BY <1>1 DEF SignerRecord
    <2> QED
      BY <1>8, <2>1, FreshFacts
  <1>10. Link(s, r, peer[s], sessions, Range(u), {})
    <2>1. Link(s, r, peer[s], sessions, Range(toC[s]), Range(toS[s]))
      BY <1>1, <1>9, LinkZero
    <2>2. Link(s, r, peer[s], sessions, Range(v), {})
      BY <1>4, <2>1, LinkMono
    <2>3. CertOutput.type # "RELAY_COMMIT"
      BY DEF CertOutput
    <2> QED
      <3>1. PICK U : U = Range(v)
        OBVIOUS
      <3>2. Link(s, r, peer[s], sessions, U, {})
        BY <2>2, <3>1
      <3>3. Link(s, r, peer[s], sessions, U \cup {Closed}, {})
        BY <1>6, <2>3, <3>2, LinkNeutral
      <3> QED
        BY <1>7, <3>1, <3>3
  <1>11. <<>> \in Seq(DownFrame) /\ Range(<<>>) = {}
    BY DEF Range
  <1>12. Coherent([signer EXCEPT ![s] = r], [toC EXCEPT ![s] = u], peer, sessions,
                  nextId, [toS EXCEPT ![s] = <<>>])
    BY <1>7, <1>9, <1>10, <1>11, CoherentSigner
  <1> QED
    BY <1>2, <1>3, <1>5, <1>8, <1>12 DEF Die
LEMMA HelloAckCoherent ==
  ASSUME Coherent(signer, toC, peer, sessions, nextId, toS), NEW s \in Signer,
         signer[s].up, toS[s] # <<>>, NEW m, OnHelloAck(s, m),
         toS' = [toS EXCEPT ![s] = IF signer'[s].up THEN Tail(@) ELSE <<>>]
  PROVE  Coherent(signer', toC', peer, sessions, nextId, toS')
  <1>1. PICK r \in SignerRecord : r = signer[s]
    BY CoherentFacts
  <1>2. /\ r.tbs \in AskedTbs \cup {NoTbs} /\ Ordered(toC[s]) /\ toC[s] \in Seq(UpFrame)
        /\ Link(s, r, peer[s], sessions, Range(toC[s]), Range(toS[s]))
    BY <1>1, CoherentFacts
  <1>3. r.up = TRUE
    BY <1>1 DEF SignerRecord
  <1>4. PICK a \in BOOLEAN : a = (m.mode = "S")
    OBVIOUS
  <1>5. PICK b \in BOOLEAN : b = (r.key \/ (m.mode \in {"S", "R"} /\ s \in KeyHolder))
    OBVIOUS
  <1>6. PICK x : x = [r EXCEPT !.signMode = a, !.key = b]
    OBVIOUS
  <1>7. /\ x \in SignerRecord /\ x.tbs = r.tbs /\ x.up = TRUE /\ x.nonces = r.nonces
        /\ x.commit = r.commit /\ x.drawn = r.drawn /\ x.pre = r.pre
    BY <1>3, <1>6 DEF SignerRecord
  <1>8. Reply(s, x, ShareLoadFail) \/ Return(s, x)
    BY <1>1, <1>4, <1>5, <1>6, Zenon DEF OnHelloAck
  <1>9. Link(s, x, peer[s], sessions, Range(toC[s]), Range(toS[s]))
    BY <1>2, <1>7, LinkSame
  <1>10. CASE Return(s, x)
    BY <1>2, <1>7, <1>9, <1>10, ReturnCoherent
  <1>11. CASE Reply(s, x, ShareLoadFail)
    BY <1>2, <1>7, <1>9, <1>11, LoadFailCoherent
  <1> QED
    BY <1>8, <1>10, <1>11

\* The commitment of the precomputed nonces r goes out.
LEMMA OfferCoherent ==
  ASSUME Coherent(signer, toC, peer, sessions, nextId, toS), NEW s \in Signer,
         NEW r \in SignerRecord, r.tbs \in AskedTbs, r.up = TRUE, toS[s] # <<>>,
         NEW x \in SignerRecord, x.pre = TRUE, x.tbs = r.tbs, x.nonces = r.nonces,
         x.commit = r.commit, x.drawn = r.drawn,
         Link(s, x, peer[s], sessions, Range(toC[s]), Range(toS[s])),
         Offer(s, r),
         toS' = [toS EXCEPT ![s] = IF signer'[s].up THEN Tail(@) ELSE <<>>]
  PROVE  Coherent(signer', toC', peer, sessions, nextId, toS')
  <1>1. PICK f : f = Commit(r.commit, Attestation(s, r.tbs, r.commit))
    OBVIOUS
  <1>2. PICK y : y = [r EXCEPT !.pre = FALSE]
    OBVIOUS
  <1>3. /\ y \in SignerRecord /\ y.pre = FALSE /\ y.tbs = r.tbs /\ y.nonces = r.nonces
        /\ y.commit = r.commit /\ y.drawn = r.drawn /\ y.up = TRUE
    BY <1>2 DEF SignerRecord
  <1>4. Reply(s, y, f)
    BY <1>1, <1>2, Zenon DEF Offer
  <1>5. r.commit \in Commitment
    BY DEF Link, NoncesLast, SignerRecord
  <1>6. r.tbs \in Tbs
    BY DEF AskedTbs, Tbs
  <1>7. f \in UpFrame /\ f.type = "COMMIT" /\ f.commit = r.commit
    BY <1>1, <1>5, <1>6 DEF Commit, Attestation, UpFrame, CommitSig
  <1>8. /\ toC[s] \in Seq(UpFrame) /\ Ordered(toC[s]) /\ peer[s] \in PeerRecord
        /\ Range(toC[s]) \in SUBSET UpFrame /\ Range(toS[s]) \in SUBSET DownFrame
    BY CoherentFacts
  <1>9. /\ Link(s, y, peer[s], sessions, Range(toC[s]) \cup {f}, Range(toS[s]))
        /\ \A h \in Offers(Range(toC[s])) : h.commit[2] < f.commit[2]
    <2>1. PICK z \in PeerRecord : z = peer[s]
      BY <1>8
    <2>2. PICK U \in SUBSET UpFrame : U = Range(toC[s])
      BY <1>8
    <2>3. PICK D \in SUBSET DownFrame : D = Range(toS[s])
      BY <1>8
    <2>4. Link(s, x, z, sessions, U, D)
      BY <2>1, <2>2, <2>3
    <2>5. f.commit = x.commit /\ y.nonces = x.nonces /\ y.commit = x.commit /\ y.drawn = x.drawn
      BY <1>3, <1>7
    <2>6. /\ Link(s, y, z, sessions, U \cup {f}, D)
          /\ \A h \in Offers(U) : h.commit[2] < f.commit[2]
      BY <1>3, <1>7, <2>4, <2>5, LinkOffer, ZenonT(40)
    <2> QED
      BY <2>1, <2>2, <2>3, <2>6
  <1>10. Ordered(Append(toC[s], f))
    BY <1>7, <1>8, <1>9, OrderedAppend
  <1> QED
    BY <1>3, <1>4, <1>7, <1>9, <1>10, ReplyCoherent

LEMMA SignReqCoherent ==
  ASSUME Coherent(signer, toC, peer, sessions, nextId, toS), NEW s \in Signer,
         signer[s].up, toS[s] # <<>>, NEW m, m.tbs \in AskedTbs, OnSignReq(s, m),
         toS' = [toS EXCEPT ![s] = IF signer'[s].up THEN Tail(@) ELSE <<>>]
  PROVE  Coherent(signer', toC', peer, sessions, nextId, toS')
  <1>1. PICK g \in SignerRecord : g = signer[s]
    BY CoherentFacts
  <1>2. /\ g.tbs \in AskedTbs \cup {NoTbs} /\ Ordered(toC[s]) /\ toC[s] \in Seq(UpFrame)
        /\ Link(s, g, peer[s], sessions, Range(toC[s]), Range(toS[s]))
        /\ peer[s] \in PeerRecord /\ \A k \in DOMAIN sessions : sessions[k].id # 0
        /\ Range(toC[s]) \in SUBSET UpFrame /\ Range(toS[s]) \in SUBSET DownFrame
    BY <1>1, CoherentFacts
  <1>3. g.up = TRUE
    BY <1>1 DEF SignerRecord
  <1>4. PICK r : r = [g EXCEPT !.key = TRUE, !.tbs = m.tbs, !.state = "SIGNING"]
    OBVIOUS
  <1>5. /\ r \in SignerRecord /\ r.tbs = m.tbs /\ r.up = TRUE /\ r.nonces = g.nonces
        /\ r.commit = g.commit /\ r.drawn = g.drawn /\ r.pre = g.pre /\ r.key = TRUE
    <2>1. m.tbs \in Tbs /\ "SIGNING" \in SignerState
      BY DEF AskedTbs, Tbs, SignerState
    <2> QED
      BY <1>3, <1>4, <2>1 DEF SignerRecord
  <1>6. Link(s, r, peer[s], sessions, Range(toC[s]), Range(toS[s]))
    BY <1>2, <1>5, LinkSame
  <1>7. CASE Die(s)
    <2>1. signer'[s].up = FALSE
      <3>1. signer = [x \in Signer |-> signer[x]]
        BY DEF Coherent, SignersOK
      <3>2. signer'[s] = [FreshSigner(signer[s].drawn) EXCEPT !.up = FALSE]
        BY <1>7, <3>1 DEF Die
      <3> QED
        BY <3>2 DEF FreshSigner
    <2>2. toS' = [toS EXCEPT ![s] = <<>>]
      BY <2>1
    <2> QED
      BY <1>7, <2>2, DieCoherent
  <1>8. CASE Return(s, signer[s])
    <2>1. Return(s, g)
      BY <1>1, <1>8
    <2> QED
      BY <1>2, <1>3, <2>1, ReturnCoherent
  <1>9. CASE Reply(s, signer[s], ShareLoadFail)
    <2>1. Reply(s, g, ShareLoadFail)
      BY <1>1, <1>9
    <2> QED
      BY <1>2, <1>3, <2>1, LoadFailCoherent
  <1>10. CASE r.pre /\ Offer(s, r)
    <2>1. r.pre = TRUE
      BY <1>5, <1>10 DEF SignerRecord
    <2> QED
      BY <1>5, <1>6, <1>10, <2>1, OfferCoherent
  <1>11. ASSUME NEW ok \in CoreOutcome, ~r.pre,
                IF ok THEN Offer(s, TryDraw(s, r, ok)) ELSE Return(s, TryDraw(s, r, ok))
         PROVE  Coherent(signer', toC', peer, sessions, nextId, toS')
    <2>0. ok \in BOOLEAN /\ r.pre = FALSE
      BY <1>5, <1>11, SignerAssumption DEF CoreOutcome, SignerRecord
    <2>1. CASE ok
      <3>1. PICK d : d = DrawNonces(s, r)
        OBVIOUS
      <3>2. Offer(s, d)
        BY <1>5, <1>11, <2>1, <3>1 DEF TryDraw
      <3>3. /\ d \in SignerRecord /\ d.nonces = <<s, r.drawn + 1>>
            /\ d.commit = <<s, r.drawn + 1>> /\ d.drawn = r.drawn + 1
            /\ d.tbs = r.tbs /\ d.up = TRUE
        BY <1>5, <3>1, DrawFacts
      <3>4. PICK x : x = [d EXCEPT !.pre = TRUE]
        OBVIOUS
      <3>5. /\ x \in SignerRecord /\ x.pre = TRUE /\ x.tbs = d.tbs /\ x.nonces = d.nonces
            /\ x.commit = d.commit /\ x.drawn = d.drawn
        BY <3>3, <3>4 DEF SignerRecord
      <3>6. Link(s, x, peer[s], sessions, Range(toC[s]), Range(toS[s]))
        <4>1. PICK z \in PeerRecord : z = peer[s]
          BY <1>2
        <4>2. PICK U \in SUBSET UpFrame : U = Range(toC[s])
          BY <1>2
        <4>3. PICK D \in SUBSET DownFrame : D = Range(toS[s])
          BY <1>2
        <4>4. Link(s, r, z, sessions, U, D)
          BY <1>6, <4>1, <4>2, <4>3
        <4>5. Link(s, x, z, sessions, U, D)
          BY <1>5, <3>3, <3>5, <4>4, LinkDraw
        <4> QED
          BY <4>1, <4>2, <4>3, <4>5
      <3> QED
        BY <1>5, <3>2, <3>3, <3>5, <3>6, OfferCoherent
    <2>2. CASE ~ok
      <3>1. PICK d : d = ZeroNonces(r)
        OBVIOUS
      <3>2. Return(s, d)
        BY <1>11, <2>2, <3>1 DEF TryDraw
      <3>3. /\ d \in SignerRecord /\ d.nonces = NoCommit /\ d.drawn = r.drawn
            /\ d.tbs = r.tbs /\ d.up = TRUE /\ d.pre = FALSE
        BY <1>5, <2>0, <3>1, ZeroFacts
      <3>4. Link(s, d, peer[s], sessions, Range(toC[s]), Range(toS[s]))
        BY <1>2, <1>6, <3>3, LinkZero
      <3> QED
        BY <1>5, <3>2, <3>3, <3>4, ReturnCoherent
    <2> QED
      BY <2>0, <2>1, <2>2
  <1>12. \/ Die(s) \/ Return(s, signer[s]) \/ Reply(s, signer[s], ShareLoadFail)
         \/ r.pre /\ Offer(s, r)
         \/ ~r.pre /\ \E ok \in CoreOutcome :
              IF ok THEN Offer(s, TryDraw(s, r, ok)) ELSE Return(s, TryDraw(s, r, ok))
    BY <1>1, <1>4, Zenon DEF OnSignReq
  <1> QED
    BY <1>7, <1>8, <1>9, <1>10, <1>11, <1>12

\* The share of a bundle that s accepts is of a message s was asked about.
LEMMA ShareTyped ==
  ASSUME NEW s \in Signer, NEW r \in SignerRecord, r.tbs \in AskedTbs \cup {NoTbs},
         NEW m \in DownFrame, m.type = "RELAY_COMMIT",
         AcceptsBundle(s, r, m.bundle), CanSign(s, r, SigningPackage(m.bundle)),
         NEW f, f = SigShare(Share(s, r.nonces, SigningPackage(m.bundle),
                                   Fault[s] # "bad_share"))
  PROVE  /\ f \in UpFrame /\ f.type = "SIG_SHARE" /\ f.share.by = s
         /\ f.share.nonce = r.nonces /\ f.share.pkg = SigningPackage(m.bundle)
         /\ r.nonces # NoCommit /\ r.nonces[2] \in Listing(m, s)
  <1>1. PICK pkg \in Package : pkg = SigningPackage(m.bundle)
    BY DownFrameFacts, PackageTyped
  <1>2. m.bundle.tbs = r.tbs /\ m.bundle.tbs \in Tbs
    BY DownFrameFacts DEF AcceptsBundle
  <1>3. NoTbs \notin Tbs
    BY DEF NoTbs, Tbs
  <1>4. pkg.tbs \in AskedTbs
    BY <1>1, <1>2, <1>3 DEF SigningPackage
  <1>5. r.nonces # NoCommit /\ <<s, r.nonces>> \in pkg.commits
    BY <1>1 DEF CanSign
  <1>6. r.nonces \in Commitment
    BY <1>5 DEF SignerRecord
  <1>7. r.nonces[2] \in Listing(m, s)
    <2>1. PICK e : e = <<s, r.nonces>>
      OBVIOUS
    <2>2. e \in SigningPackage(m.bundle).commits /\ e[1] = s /\ e[2] = r.nonces
      BY <1>1, <1>5, <2>1
    <2> QED
      BY <2>2 DEF Listing
  <1>8. PICK b \in BOOLEAN : b = (Fault[s] # "bad_share")
    OBVIOUS
  <1>9. PICK x : x = Share(s, r.nonces, pkg, b)
    OBVIOUS
  <1>10. /\ x \in SentShare /\ x.by = s /\ x.nonce = r.nonces /\ x.pkg = pkg
    BY <1>4, <1>6, <1>9 DEF Share, SentShare
  <1>11. f = SigShare(x)
    BY <1>1, <1>8, <1>9, Zenon
  <1>12. f \in UpFrame /\ f.type = "SIG_SHARE" /\ f.share = x
    BY <1>10, <1>11 DEF SigShare, UpFrame
  <1> QED
    BY <1>1, <1>5, <1>7, <1>10, <1>12

LEMMA RelayCommitCoherent ==
  ASSUME Coherent(signer, toC, peer, sessions, nextId, toS), NEW s \in Signer,
         signer[s].up, toS[s] # <<>>, NEW m \in Range(toS[s]),
         m.type = "RELAY_COMMIT", OnRelayCommit(s, m),
         toS' = [toS EXCEPT ![s] = IF signer'[s].up THEN Tail(@) ELSE <<>>]
  PROVE  Coherent(signer', toC', peer, sessions, nextId, toS')
  <1>1. PICK r \in SignerRecord : r = signer[s]
    BY CoherentFacts
  <1>2. /\ r.tbs \in AskedTbs \cup {NoTbs} /\ Ordered(toC[s]) /\ toC[s] \in Seq(UpFrame)
        /\ Link(s, r, peer[s], sessions, Range(toC[s]), Range(toS[s]))
        /\ peer[s] \in PeerRecord /\ \A k \in DOMAIN sessions : sessions[k].id # 0
        /\ Range(toC[s]) \in SUBSET UpFrame /\ Range(toS[s]) \in SUBSET DownFrame
    BY <1>1, CoherentFacts
  <1>3. r.up = TRUE
    BY <1>1 DEF SignerRecord
  <1>4. CASE Return(s, r)
    BY <1>2, <1>3, <1>4, ReturnCoherent
  <1>5. PICK f : f = SigShare(Share(s, r.nonces, SigningPackage(m.bundle),
                                    Fault[s] # "bad_share"))
    OBVIOUS
  <1>6. PICK x : x = [ZeroNonces(r) EXCEPT !.state = "COMPLETE"]
    OBVIOUS
  <1>7. CASE /\ AcceptsBundle(s, r, m.bundle)
             /\ CanSign(s, r, SigningPackage(m.bundle))
             /\ Reply(s, x, f)
    <2>1. /\ f \in UpFrame /\ f.type = "SIG_SHARE" /\ f.share.by = s
          /\ f.share.nonce = r.nonces /\ f.share.pkg = SigningPackage(m.bundle)
          /\ r.nonces # NoCommit /\ r.nonces[2] \in Listing(m, s)
      BY <1>2, <1>5, <1>7, ShareTyped
    <2>2. m \in Relays(Range(toS[s]))
      BY DEF Relays
    <2>3. r.pre = FALSE
      <3>1. r.drawn \in Nat /\ r.nonces[2] = r.drawn
        BY <1>2, <2>1 DEF Link, NoncesLast, SignerRecord
      <3>2. Offered(r.drawn, r)
        BY <1>2, <2>1, <2>2, <3>1 DEF Link, RelayedOld
      <3>3. r.pre \in BOOLEAN
        BY DEF SignerRecord
      <3> QED
        BY <3>1, <3>2, <3>3 DEF Offered
    <2>4. /\ x \in SignerRecord /\ x.nonces = NoCommit /\ x.drawn = r.drawn
          /\ x.pre = FALSE /\ x.tbs = r.tbs /\ x.up = TRUE
      <3>1. PICK z \in SignerRecord : z = ZeroNonces(r)
        BY ZeroFacts
      <3>2. /\ z.nonces = NoCommit /\ z.drawn = r.drawn /\ z.pre = FALSE
            /\ z.tbs = r.tbs /\ z.up = TRUE
        BY <1>3, <2>3, <3>1, ZeroFacts
      <3>3. x = [z EXCEPT !.state = "COMPLETE"] /\ "COMPLETE" \in SignerState
        BY <1>6, <3>1 DEF SignerState
      <3> QED
        BY <3>2, <3>3 DEF SignerRecord
    <2>5. /\ Link(s, x, peer[s], sessions, Range(toC[s]) \cup {f}, Range(toS[s]))
          /\ Offers(Range(toC[s])) = {} /\ Shares(Range(toC[s])) = {}
      <3>1. PICK z \in PeerRecord : z = peer[s]
        BY <1>2
      <3>2. PICK U \in SUBSET UpFrame : U = Range(toC[s])
        BY <1>2
      <3>3. PICK D \in SUBSET DownFrame : D = Range(toS[s])
        BY <1>2
      <3>4. Link(s, r, z, sessions, U, D) /\ m \in Relays(D)
        BY <1>2, <2>2, <3>1, <3>2, <3>3
      <3>5. \A k \in DOMAIN sessions : sessions[k].id # 0
        BY <1>2
      <3>6. /\ Link(s, x, z, sessions, U \cup {f}, D)
            /\ Offers(U) = {} /\ Shares(U) = {}
        <4>1. Signs(s, r, m, x, f)
          BY <2>1, <2>4 DEF Signs
        <4> QED
          BY <3>4, <3>5, <4>1, LinkSign
      <3> QED
        BY <3>1, <3>2, <3>3, <3>6
    <2>6. Ordered(Append(toC[s], f))
      BY <1>2, <2>1, <2>5, OrderedAppend
    <2> QED
      BY <1>2, <1>7, <2>1, <2>4, <2>5, <2>6, ReplyCoherent
  <1> QED
    BY <1>1, <1>4, <1>5, <1>6, <1>7, Zenon DEF OnRelayCommit

LEMMA SignerStepCoherent ==
  ASSUME Coherent(signer, toC, peer, sessions, nextId, toS), NEW s \in Signer,
         SignerStep(s)
  PROVE  Coherent(signer', toC', peer', sessions', nextId', toS')
  <1>1. PICK m : m = Head(toS[s])
    OBVIOUS
  <1>2. /\ signer[s].up /\ toS[s] # <<>> /\ ProcessCoordFrame(s, m)
        /\ toS' = [toS EXCEPT ![s] = IF signer'[s].up THEN Tail(@) ELSE <<>>]
        /\ peer' = peer /\ sessions' = sessions /\ nextId' = nextId
    BY <1>1 DEF SignerStep, coordVars
  <1>3. m \in Range(toS[s]) /\ m \in DownFrame
    <2>1. toS[s] \in Seq(DownFrame) /\ Range(toS[s]) \in SUBSET DownFrame
      BY CoherentFacts
    <2>2. CertOutput \in DownFrame
      BY DEF DownFrame
    <2>3. m \in Range(toS[s])
      BY <1>1, <1>2, <2>1, <2>2, FramesOf
    <2> QED
      BY <2>1, <2>3
  <1>4. /\ m.type = "SIGN_REQ" => m.tbs \in AskedTbs
        /\ m.type \in {"HELLO_ACK", "SIGN_REQ", "RELAY_COMMIT", "CERT_OUTPUT"}
    BY <1>3, DownFrameFacts
  <1> SUFFICES Coherent(signer', toC', peer, sessions, nextId, toS')
    BY <1>2
  <1>5. CASE OnHelloAck(s, m)
    BY <1>2, <1>5, HelloAckCoherent
  <1>6. CASE m.type = "SIGN_REQ" /\ OnSignReq(s, m)
    BY <1>2, <1>4, <1>6, SignReqCoherent
  <1>7. CASE m.type = "RELAY_COMMIT" /\ OnRelayCommit(s, m)
    BY <1>2, <1>3, <1>7, RelayCommitCoherent
  <1>8. CASE OnCertOutput(s)
    <2>1. PICK r \in SignerRecord : r = signer[s]
      BY CoherentFacts
    <2>2. /\ r.tbs \in AskedTbs \cup {NoTbs}
          /\ Link(s, r, peer[s], sessions, Range(toC[s]), Range(toS[s]))
      BY <2>1, CoherentFacts
    <2>3. r.up = TRUE
      BY <1>2, <2>1 DEF SignerRecord
    <2>4. Return(s, r)
      BY <1>8, <2>1 DEF OnCertOutput
    <2> QED
      BY <1>2, <2>2, <2>3, <2>4, ReturnCoherent
  <1> QED
    BY <1>2, <1>4, <1>5, <1>6, <1>7, <1>8 DEF ProcessCoordFrame

-----------------------------------------------------------------------------
(* Steps of the coordinator: frames from a signer.                         *)

\* A frame is taken off the stream and changes nothing.
LEMMA CoherentDrop ==
  ASSUME NEW sg, NEW up, NEW p, NEW ss, NEW nid, NEW down,
         Coherent(sg, up, p, ss, nid, down), NEW s \in Signer, up[s] # <<>>
  PROVE  Coherent(sg, [up EXCEPT ![s] = Tail(@)], p, ss, nid, down)
  <1>1. /\ p = [x \in Signer |-> p[x]] /\ down = [x \in Signer |-> down[x]]
        /\ (p[s].commit # NoCommit => p[s].sig \in CommitSig)
    BY DEF Coherent, TableOK
  <1>2. /\ p[s] \in PeerRecord /\ p[s].session < nid /\ down[s] \in Seq(DownFrame)
        /\ up[s] \in Seq(UpFrame)
        /\ Link(s, sg[s], p[s], ss, Range(up[s]), Range(down[s]))
    BY CoherentFacts
  <1>3. PICK y \in PeerRecord : y = p[s]
    BY <1>2
  <1>4. PICK d \in Seq(DownFrame) : d = down[s]
    BY <1>2
  <1>5. Closed \in UpFrame
    BY DEF UpFrame
  <1>6. Range(Tail(up[s])) \in SUBSET Range(up[s])
    BY <1>2, <1>5, FramesOf
  <1>7. Link(s, sg[s], y, ss, Range(Tail(up[s])), Range(d))
    BY <1>2, <1>3, <1>4, <1>6, LinkMono
  <1>8. Coherent(sg, [up EXCEPT ![s] = Tail(@)], [p EXCEPT ![s] = y], ss, nid,
                 [down EXCEPT ![s] = d])
    BY <1>1, <1>2, <1>3, <1>7, CoherentPop
  <1>9. [p EXCEPT ![s] = y] = p /\ [down EXCEPT ![s] = d] = down
    BY <1>1, <1>3, <1>4, FunctionSame
  <1> QED
    BY <1>8, <1>9

\* The commitment of a signer that waits to be asked goes into the table.
LEMMA CoherentStoreCommit ==
  ASSUME NEW sg, NEW up, NEW p, NEW ss, NEW nid, NEW down,
         Coherent(sg, up, p, ss, nid, down), NEW s \in Signer, up[s] # <<>>,
         NEW m, m = Head(up[s]), m.type = "COMMIT", p[s].phase \in {"INIT", "SUSPECT"}
  PROVE  Coherent(sg, [up EXCEPT ![s] = Tail(@)],
                  [p EXCEPT ![s].phase = "COMMITTED", ![s].commit = m.commit,
                            ![s].sig = m.sig], ss, nid, down)
  <1>1. down = [x \in Signer |-> down[x]] /\ p \in [Signer -> PeerRecord]
    BY DEF Coherent, TableOK
  <1>2. /\ p[s] \in PeerRecord /\ p[s].session < nid /\ down[s] \in Seq(DownFrame)
        /\ up[s] \in Seq(UpFrame) /\ Ordered(up[s])
        /\ Range(up[s]) \in SUBSET UpFrame /\ Range(down[s]) \in SUBSET DownFrame
        /\ Link(s, sg[s], p[s], ss, Range(up[s]), Range(down[s]))
        /\ \A k \in DOMAIN ss : ss[k].id # 0
    BY CoherentFacts
  <1>3. PICK z \in PeerRecord : z = p[s]
    BY <1>2
  <1>4. PICK d \in Seq(DownFrame) : d = down[s]
    BY <1>2
  <1>5. Closed \in UpFrame
    BY DEF UpFrame
  <1>6. m \in Range(up[s]) /\ Range(Tail(up[s])) \in SUBSET Range(up[s])
    BY <1>2, <1>5, FramesOf
  <1>7. m \in UpFrame /\ m.commit \in Commitment /\ m.sig \in CommitSig
    BY <1>2, <1>6, UpFrameFacts
  <1>8. PICK y : y = [z EXCEPT !.phase = "COMMITTED", !.commit = m.commit, !.sig = m.sig]
    OBVIOUS
  <1>9. /\ y \in PeerRecord /\ y.phase = "COMMITTED" /\ y.commit = m.commit
        /\ y.sig = m.sig /\ y.session = z.session
    BY <1>7, <1>8 DEF PeerRecord, Phase
  <1>10. /\ Shares(Range(Tail(up[s]))) = {}
         /\ \A h \in Offers(Range(Tail(up[s]))) : m.commit[2] < h.commit[2]
    BY <1>2, OrderedTail
  <1>11. Link(s, sg[s], y, ss, Range(Tail(up[s])), Range(d))
    <2>1. PICK U \in SUBSET UpFrame : U = Range(up[s])
      BY <1>2
    <2>2. PICK V \in SUBSET U : V = Range(Tail(up[s]))
      BY <1>6, <2>1
    <2>3. PICK D \in SUBSET DownFrame : D = Range(d)
      BY <1>2, <1>4
    <2>4. m \in Offers(U)
      BY <1>6, <2>1 DEF Offers
    <2>5. Link(s, sg[s], z, ss, U, D) /\ z.phase \in {"INIT", "SUSPECT"}
      BY <1>2, <1>3, <1>4, <2>1, <2>3
    <2>6. \A k \in DOMAIN ss : ss[k].id # 0
      BY <1>2
    <2>7. Shares(V) = {} /\ \A h \in Offers(V) : m.commit[2] < h.commit[2]
      BY <1>10, <2>2
    <2>8. Link(s, sg[s], y, ss, V, D)
      BY <1>9, <2>4, <2>5, <2>6, <2>7, LinkStoreCommit
    <2> QED
      BY <2>2, <2>3, <2>8
  <1>12. Coherent(sg, [up EXCEPT ![s] = Tail(@)], [p EXCEPT ![s] = y], ss, nid,
                 [down EXCEPT ![s] = d])
    BY <1>2, <1>3, <1>7, <1>9, <1>11, CoherentPop
  <1>13. [down EXCEPT ![s] = d] = down
    BY <1>1, <1>4, FunctionSame
  <1>14. [p EXCEPT ![s].phase = "COMMITTED", ![s].commit = m.commit, ![s].sig = m.sig]
           = [p EXCEPT ![s] = y]
    BY <1>1, <1>3, <1>8
  <1> QED
    BY <1>12, <1>13, <1>14, Zenon

\* A share that is stored fills an empty place and is of the slot's package.
LEMMA SlotStoreShare ==
  ASSUME NEW nid, NEW q, SlotOK(q, nid), NEW s \in q.members, q.shares[s] = NoShare,
         NEW f \in SentShare, f.pkg = q.pkg,
         NEW x \in [id : 1..(nid - 1), state : {"AWAITING", "COMPLETE", "FAILED"},
                    members : SUBSET Signer, pkg : Package,
                    shares : [q.members -> SentShare \cup {NoShare}], n : Nat],
         x.members = q.members, x.pkg = q.pkg, x.n = q.n + 1, x.shares[s] = f,
         \A r \in q.members : r # s => x.shares[r] = q.shares[r]
  PROVE  SlotOK(x, nid)
  <1> DEFINE C == Contributors(q)
  <1>3. q.members \in SUBSET Signer
    BY DEF SlotOK
  <1>6. f # NoShare
    <2>1. f.by \in Signer
      BY DEF SentShare
    <2>2. NoShare.by = 0
      BY DEF NoShare, Share
    <2> QED
      BY <2>1, <2>2, GroupAssumption DEF Signer
  <1>7. Contributors(x) = C \cup {s} /\ s \notin C
    BY <1>6 DEF Contributors
  <1>8. IsFiniteSet(C)
    <2>1. C \subseteq Signer
      BY <1>3 DEF Contributors
    <2>2. IsFiniteSet(Signer)
      BY FS_Interval, GroupAssumption DEF Signer
    <2> QED
      BY <2>1, <2>2, FS_Subset
  <1>9. Cardinality(C \cup {s}) = Cardinality(C) + 1
    BY <1>7, <1>8, FS_AddElement
  <1>10. /\ Cardinality(q.members) = T /\ Owners(q.pkg) = q.members
         /\ \A r \in C : q.shares[r].pkg = q.pkg
         /\ q.n = Cardinality(C)
    BY DEF SlotOK
  <1>11. \A r \in Contributors(x) : x.shares[r].pkg = x.pkg
    <2> SUFFICES ASSUME NEW r \in Contributors(x) PROVE x.shares[r].pkg = x.pkg
      OBVIOUS
    <2>1. CASE r = s
      BY <2>1
    <2>2. CASE r # s
      <3>1. r \in C /\ r \in q.members
        BY <1>7, <2>2 DEF Contributors
      <3> QED
        BY <1>10, <2>2, <3>1
    <2> QED
      BY <2>1, <2>2
  <1>12. x.n = Cardinality(Contributors(x))
    BY <1>7, <1>9, <1>10
  <1>13. SlotOK(x, nid)
    <2>1. x \in [id : 1..(nid - 1), state : {"AWAITING", "COMPLETE", "FAILED"},
                 members : SUBSET Signer, pkg : Package,
                 shares : [x.members -> SentShare \cup {NoShare}], n : Nat]
      OBVIOUS
    <2>2. Cardinality(x.members) = T /\ Owners(x.pkg) = x.members
      BY <1>10
    <2> QED
      BY <1>11, <1>12, <2>1, <2>2 DEF SlotOK
  <1> QED
    BY <1>13

LEMMA SlotFilled ==
  ASSUME NEW I, NEW S, NEW M, NEW H,
         NEW z \in [id : I, state : S, members : M, pkg : Package, shares : H, n : Nat],
         NEW g \in H, NEW v, v = [z EXCEPT !.shares = g, !.n = z.n + 1]
  PROVE  /\ v \in [id : I, state : S, members : M, pkg : Package, shares : H, n : Nat]
         /\ v.id = z.id /\ v.state = z.state /\ v.members = z.members /\ v.pkg = z.pkg
         /\ v.shares = g /\ v.n = z.n + 1
  <1>1. v = [id |-> z.id, state |-> z.state, members |-> z.members, pkg |-> z.pkg,
             shares |-> g, n |-> z.n + 1]
    OBVIOUS
  <1>2. /\ z.id \in I /\ z.state \in S /\ z.members \in M /\ z.pkg \in Package
        /\ z.n \in Nat
    OBVIOUS
  <1>3. z.n + 1 \in Nat
    BY <1>2
  <1> QED
    BY <1>1, <1>2, <1>3

\* The share of a member goes into the session the table puts the member in.
LEMMA CoherentStoreShare ==
  ASSUME NEW sg, NEW up, NEW p, NEW ss, NEW nid, NEW down,
         Coherent(sg, up, p, ss, nid, down), NEW s \in Signer, up[s] # <<>>,
         NEW m, m = Head(up[s]), m.type = "SIG_SHARE",
         NEW k \in DOMAIN ss, ss[k].id = p[s].session, s \in ss[k].members
  PROVE  /\ Coherent(sg, [up EXCEPT ![s] = Tail(@)], p,
                     [ss EXCEPT ![k].shares[s] = m.share, ![k].n = @ + 1], nid, down)
         /\ DOMAIN [ss EXCEPT ![k].shares[s] = m.share, ![k].n = @ + 1] = DOMAIN ss
  <1>1. /\ p[s] \in PeerRecord /\ down[s] \in Seq(DownFrame) /\ sg[s] \in SignerRecord
        /\ up[s] \in Seq(UpFrame) /\ Ordered(up[s])
        /\ Range(up[s]) \in SUBSET UpFrame
        /\ Link(s, sg[s], p[s], ss, Range(up[s]), Range(down[s]))
        /\ \A j \in DOMAIN ss : ss[j].id # 0
    BY CoherentFacts
  <1>2. Closed \in UpFrame
    BY DEF UpFrame
  <1>3. m \in Range(up[s]) /\ Range(Tail(up[s])) \in SUBSET Range(up[s])
    BY <1>1, <1>2, FramesOf
  <1>4. m \in UpFrame /\ m.share \in SentShare /\ m \in Shares(Range(up[s]))
    BY <1>1, <1>3, UpFrameFacts DEF Shares
  <1>5. SlotsOK(ss, nid) /\ SlotOK(ss[k], nid)
    BY DEF Coherent, SlotsOK
  <1>6. m.share.pkg = ss[k].pkg /\ ss[k].shares[s] = NoShare
    <2>1. SlotFits(s, sg[s], p[s], ss[k], Range(up[s]), Range(down[s]))
      BY <1>1 DEF Link
    <2> QED
      BY <1>4, <2>1 DEF SlotFits
  <1>7. PICK f \in SentShare : f = m.share
    BY <1>4
  <1>8. PICK q : q = ss[k]
    OBVIOUS
  <1>9. PICK w : /\ SlotOK(w, nid) /\ w.id = q.id /\ w.members = q.members
                 /\ w.pkg = q.pkg
                 /\ \A r \in q.members : r # s => w.shares[r] = q.shares[r]
                 /\ w = [q EXCEPT !.shares = [q.shares EXCEPT ![s] = f], !.n = q.n + 1]
    <2>1. PICK M : M = q.members
      OBVIOUS
    <2> DEFINE H == [M -> SentShare \cup {NoShare}]
               R == [id : 1..(nid - 1), state : {"AWAITING", "COMPLETE", "FAILED"},
                     members : SUBSET Signer, pkg : Package, shares : H, n : Nat]
    <2>2. PICK z \in R : z = q
      BY <1>5, <1>8, <2>1 DEF SlotOK
    <2>3. PICK h \in H : h = z.shares
      BY <2>2
    <2>4. s \in M
      BY <1>8, <2>1
    <2>5. PICK g : g = [h EXCEPT ![s] = f]
      OBVIOUS
    <2>6. g \in H /\ g[s] = f /\ \A r \in M : r # s => g[r] = h[r]
      BY <2>4, <2>5
    <2>7. PICK v : v = [z EXCEPT !.shares = g, !.n = z.n + 1]
      OBVIOUS
    <2>8. /\ v \in R /\ v.id = z.id /\ v.members = z.members /\ v.pkg = z.pkg
          /\ v.shares = g /\ v.n = z.n + 1
      BY <2>6, <2>7, SlotFilled, Zenon
    <2>9. SlotOK(z, nid) /\ z.members = M /\ z.shares[s] = NoShare /\ f.pkg = z.pkg
      BY <1>5, <1>6, <1>7, <1>8, <2>1, <2>2
    <2> HIDE DEF H
    <2>10. SlotOK(v, nid)
      <3>1. v.shares[s] = f /\ \A r \in M : r # s => v.shares[r] = z.shares[r]
        BY <2>3, <2>6, <2>8
      <3> QED
        BY <2>4, <2>8, <2>9, <3>1, SlotStoreShare DEF H
    <2>11. v = [q EXCEPT !.shares = [q.shares EXCEPT ![s] = f], !.n = q.n + 1]
      BY <2>2, <2>3, <2>5, <2>7, Zenon
    <2>12. /\ v.id = q.id /\ v.members = q.members /\ v.pkg = q.pkg
           /\ \A r \in q.members : r # s => v.shares[r] = q.shares[r]
      BY <2>1, <2>2, <2>3, <2>6, <2>8
    <2> QED
      BY <2>10, <2>11, <2>12, Zenon
  <1>10. /\ SlotOK(w, nid) /\ w.id = q.id /\ w.members = q.members /\ w.pkg = q.pkg
         /\ \A r \in q.members : r # s => w.shares[r] = q.shares[r]
    BY <1>9, Zenon
  <1>11. PICK x : x = [ss EXCEPT ![k] = w]
    OBVIOUS
  <1>12. /\ x \in Seq(Range(x)) /\ Len(x) = Len(ss) /\ DOMAIN x = DOMAIN ss /\ x[k] = w
         /\ \A j \in DOMAIN ss : j # k => x[j] = ss[j]
    <2>1. ss \in Seq(Range(ss))
      BY <1>5 DEF SlotsOK
    <2> DEFINE y == [ss EXCEPT ![k] = w]
    <2>2. /\ y \in Seq(Range(y)) /\ Len(y) = Len(ss) /\ DOMAIN y = DOMAIN ss /\ y[k] = w
          /\ \A j \in DOMAIN ss : j # k => y[j] = ss[j]
      BY <2>1, SlotUpdate
    <2> QED
      BY <1>11, <2>2, Zenon
  <1>13. SlotsOK(x, nid)
    BY <1>5, <1>10, <1>12 DEF SlotsOK
  <1>14. \A j \in DOMAIN x :
           /\ j \in DOMAIN ss /\ x[j].id = ss[j].id /\ x[j].members = ss[j].members
           /\ x[j].pkg = ss[j].pkg
           /\ \A r \in ss[j].members : r # s => x[j].shares[r] = ss[j].shares[r]
    BY <1>8, <1>10, <1>12
  <1>15. PICK u : u = [up EXCEPT ![s] = Tail(@)]
    OBVIOUS
  <1>16. Coherent(sg, u, p, ss, nid, down)
    BY <1>15, CoherentDrop
  <1>17. u[s] = Tail(up[s]) /\ Shares(Range(u[s])) = {}
    <2>1. up \in [Signer -> Seq(UpFrame)]
      BY DEF Coherent
    <2>2. u[s] = Tail(up[s])
      BY <1>15, <2>1
    <2>3. Shares(Range(Tail(up[s]))) = {}
      BY <1>1, OrderedTail
    <2> QED
      BY <2>2, <2>3
  <1>18. ASSUME NEW r \in Signer
         PROVE  Link(r, sg[r], p[r], x, Range(u[r]), Range(down[r]))
    <2>1. Link(r, sg[r], p[r], ss, Range(u[r]), Range(down[r]))
      BY <1>16, CoherentFacts
    <2>2. CASE r # s
      <3>1. \A j \in DOMAIN x : r \in x[j].members =>
              /\ j \in DOMAIN ss /\ r \in ss[j].members /\ x[j].id = ss[j].id
              /\ x[j].pkg = ss[j].pkg /\ x[j].shares[r] = ss[j].shares[r]
        BY <1>14, <2>2
      <3> QED
        BY <2>1, <3>1, LinkSlots
    <2>3. CASE r = s
      <3>1. PICK U \in SUBSET UpFrame : U = Range(up[s])
        BY <1>1
      <3>2. PICK V \in SUBSET U : V = Range(u[s])
        BY <1>3, <1>17, <3>1
      <3>3. \A j \in DOMAIN x :
              /\ j \in DOMAIN ss /\ x[j].id = ss[j].id
              /\ x[j].members = ss[j].members /\ x[j].pkg = ss[j].pkg
        BY <1>14
      <3>4. m \in Shares(U) /\ Shares(V) = {} /\ \A j \in DOMAIN ss : ss[j].id # 0
        BY <1>1, <1>4, <1>17, <3>1, <3>2
      <3>5. Link(s, sg[s], p[s], ss, U, Range(down[s])) /\ sg[s] \in SignerRecord
        BY <1>1, <3>1
      <3>6. Link(s, sg[s], p[s], x, V, Range(down[s]))
        BY <3>3, <3>4, <3>5, LinkStoreShare
      <3> QED
        BY <2>3, <3>2, <3>6
    <2> QED
      BY <2>2, <2>3
  <1>19. Coherent(sg, u, p, x, nid, down)
    BY <1>13, <1>16, <1>18 DEF Coherent
  <1>20. [ss EXCEPT ![k].shares[s] = m.share, ![k].n = @ + 1] = x
    BY <1>7, <1>8, <1>9, <1>11, Zenon
  <1> QED
    BY <1>12, <1>15, <1>19, <1>20, Zenon

-----------------------------------------------------------------------------
(* Aggregation.                                                            *)

LEMMA RequestTyped ==
  ASSUME NEW j \in Job
  PROVE  SignReq(j.tbs) \in DownFrame /\ SignReq(j.tbs).type # "RELAY_COMMIT"
  BY DEF Job, SignReq, DownFrame

LEMMA SucceedCoherent ==
  ASSUME NEW sg, NEW up, NEW p, NEW ss, Coherent(sg, up, p, ss, nextId, toS),
         NEW k \in DOMAIN ss, Succeed(k, p, ss)
  PROVE  Coherent(sg, up, peer', sessions', nextId', toS')
  <1>1. /\ sessions' = [ss EXCEPT ![k].state = "COMPLETE"] /\ peer' = p
        /\ nextId' = nextId
        /\ toS' = toS \/ toS' = SendTo(toS, Connected, CertOutput)
    BY DEF Succeed, Mint, MintFails
  <1>2. Coherent(sg, up, p, [ss EXCEPT ![k].state = "COMPLETE"], nextId, toS)
    BY CoherentState
  <1>3. CertOutput \in DownFrame /\ CertOutput.type # "RELAY_COMMIT"
    BY DEF CertOutput, DownFrame
  <1>4. PICK x : x = [ss EXCEPT ![k].state = "COMPLETE"]
    OBVIOUS
  <1>5. PICK S : S = Connected
    OBVIOUS
  <1>6. Coherent(sg, up, p, x, nextId, toS)
    BY <1>2, <1>4, Zenon
  <1>7. Coherent(sg, up, p, x, nextId, SendTo(toS, S, CertOutput))
    BY <1>3, <1>6, CoherentSend
  <1> QED
    BY <1>1, <1>4, <1>5, <1>6, <1>7, Zenon

LEMMA FailCulpritCoherent ==
  ASSUME NEW sg, NEW up, NEW p, NEW ss, Coherent(sg, up, p, ss, nextId, toS),
         arrived \in [Signer -> Nat], job \in Job,
         NEW k \in DOMAIN ss, NEW culprit, FailCulprit(k, culprit, p, ss)
  PROVE  Coherent(sg, up, peer', sessions', nextId', toS')
  <1>1. PICK I : I = (ss[k].members \ {culprit}) \cap Connected
    OBVIOUS
  <1>2. PICK S : S = {culprit} \cap Connected
    OBVIOUS
  <1>3. PICK p1 : p1 = SetPhase(p, S, "BLACKLISTED")
    OBVIOUS
  <1>4. PICK p2 : p2 = Reset(p1, I, "INIT")
    OBVIOUS
  <1>5. PICK x : x = [ss EXCEPT ![k].state = "FAILED"]
    OBVIOUS
  <1>6. PICK q : q = SendTo(toS, I, SignReq(job.tbs))
    OBVIOUS
  <1>7. PICK bl : bl = blacklist \cup {culprit}
    OBVIOUS
  <1>8. PICK st : st = strikes
    OBVIOUS
  <1>9. TryForm(p2, st, bl, x, q)
    BY <1>1, <1>2, <1>3, <1>4, <1>5, <1>6, <1>7, <1>8, Zenon DEF FailCulprit
  <1>10. Coherent(sg, up, p1, ss, nextId, toS)
    BY <1>3, CoherentPhase
  <1>11. Coherent(sg, up, p2, ss, nextId, toS)
    BY <1>4, <1>10, CoherentReset
  <1>12. Coherent(sg, up, p2, x, nextId, toS)
    BY <1>5, <1>11, CoherentState, Zenon
  <1>13. Coherent(sg, up, p2, x, nextId, q)
    <2>1. PICK f : f = SignReq(job.tbs)
      OBVIOUS
    <2>2. f \in DownFrame /\ f.type # "RELAY_COMMIT"
      BY <2>1, RequestTyped
    <2> QED
      BY <1>6, <1>12, <2>1, <2>2, CoherentSend
  <1> QED
    BY <1>9, <1>13, TryFormCoherent

LEMMA FailAllCoherent ==
  ASSUME NEW sg, NEW up, NEW p, NEW ss, Coherent(sg, up, p, ss, nextId, toS),
         job \in Job, NEW k \in DOMAIN ss, FailAll(k, p, ss)
  PROVE  Coherent(sg, up, peer', sessions', nextId', toS')
  <1>1. PICK S : S = ss[k].members \cap Connected
    OBVIOUS
  <1>2. PICK p1 : p1 = SetPhase(p, S, "BLACKLISTED")
    OBVIOUS
  <1>3. PICK L : L = Usable(p1, blacklist \cup ss[k].members)
    OBVIOUS
  <1>4. PICK x : x = [ss EXCEPT ![k].state = "FAILED"]
    OBVIOUS
  <1>5. PICK f : f = SignReq(job.tbs)
    OBVIOUS
  <1>6. /\ peer' = Reset(p1, L, "INIT") /\ sessions' = x /\ nextId' = nextId
        /\ toS' = SendTo(toS, L, f)
    BY <1>1, <1>2, <1>3, <1>4, <1>5, Zenon DEF FailAll
  <1>7. Coherent(sg, up, p1, ss, nextId, toS)
    BY <1>2, CoherentPhase
  <1>8. Coherent(sg, up, Reset(p1, L, "INIT"), ss, nextId, toS)
    BY <1>7, CoherentReset
  <1>9. PICK p2 : p2 = Reset(p1, L, "INIT")
    OBVIOUS
  <1>10. Coherent(sg, up, p2, x, nextId, toS)
    BY <1>4, <1>8, <1>9, CoherentState, Zenon
  <1>11. f \in DownFrame /\ f.type # "RELAY_COMMIT"
    BY <1>5, RequestTyped
  <1>12. Coherent(sg, up, p2, x, nextId, SendTo(toS, L, f))
    BY <1>10, <1>11, CoherentSend
  <1> QED
    BY <1>6, <1>9, <1>12

LEMMA AggregateCoherent ==
  ASSUME NEW sg, NEW up, NEW p, NEW ss, Coherent(sg, up, p, ss, nextId, toS),
         arrived \in [Signer -> Nat], job \in Job,
         NEW k \in DOMAIN ss, Aggregate(k, p, ss)
  PROVE  Coherent(sg, up, peer', sessions', nextId', toS')
  <1>1. CASE Succeed(k, p, ss)
    BY <1>1, SucceedCoherent
  <1>2. CASE FailCulprit(k, Culprit(ss[k]), p, ss)
    <2>1. PICK c : c = Culprit(ss[k])
      OBVIOUS
    <2> QED
      BY <1>2, <2>1, FailCulpritCoherent
  <1>3. CASE FailAll(k, p, ss)
    BY <1>3, FailAllCoherent
  <1>4. CASE peer' = p /\ sessions' = ss /\ nextId' = nextId /\ toS' = toS
    BY <1>4
  <1> QED
    BY <1>1, <1>2, <1>3, <1>4 DEF Aggregate

-----------------------------------------------------------------------------
(* The coordinator handles a frame.                                        *)

LEMMA CoordinatorStepCoherent ==
  ASSUME Coherent(signer, toC, peer, sessions, nextId, toS),
         arrived \in [Signer -> Nat], job \in Job,
         NEW s \in Signer, CoordinatorStep(s)
  PROVE  Coherent(signer', toC', peer', sessions', nextId', toS')
  <1>1. PICK m : m = Head(toC[s])
    OBVIOUS
  <1>2. /\ toC[s] # <<>> /\ ProcessSignerFrame(s, m) /\ signer' = signer
        /\ toC' = [toC EXCEPT ![s] = Tail(@)]
    BY <1>1 DEF CoordinatorStep
  <1>3. PICK u : u = [toC EXCEPT ![s] = Tail(@)]
    OBVIOUS
  <1>4. Coherent(signer, u, peer, sessions, nextId, toS)
    BY <1>2, <1>3, CoherentDrop
  <1> SUFFICES Coherent(signer, u, peer', sessions', nextId', toS')
    BY <1>2, <1>3
  <1>5. CASE OnShareLoadFail(s)
    <2>1. /\ peer' = SetPhase(peer, {s}, "NO_KEY") /\ sessions' = sessions
          /\ nextId' = nextId /\ toS' = toS
      BY <1>5 DEF OnShareLoadFail
    <2>2. Coherent(signer, u, SetPhase(peer, {s}, "NO_KEY"), sessions, nextId, toS)
      BY <1>4, CoherentPhase
    <2> QED
      BY <2>1, <2>2
  <1>6. CASE m.type = "COMMIT" /\ OnCommit(s, m)
    <2>1. CASE peer' = peer /\ sessions' = sessions /\ nextId' = nextId /\ toS' = toS
      BY <1>4, <2>1
    <2>2. CASE /\ peer[s].phase \in {"INIT", "SUSPECT"}
               /\ TryForm(StoreCommit(s, m), strikes, blacklist, sessions, toS)
      <3>1. PICK p : p = StoreCommit(s, m)
        OBVIOUS
      <3>2. Coherent(signer, u, p, sessions, nextId, toS)
        BY <1>1, <1>2, <1>3, <1>6, <2>2, <3>1, CoherentStoreCommit, Zenon DEF StoreCommit
      <3>3. PICK st : st = strikes
        OBVIOUS
      <3>4. PICK bl : bl = blacklist
        OBVIOUS
      <3>5. PICK ss : ss = sessions
        OBVIOUS
      <3>6. PICK q : q = toS
        OBVIOUS
      <3>7. Coherent(signer, u, p, ss, nextId, q) /\ TryForm(p, st, bl, ss, q)
        BY <2>2, <3>1, <3>2, <3>3, <3>4, <3>5, <3>6
      <3>8. PICK sg : sg = signer
        OBVIOUS
      <3> QED
        BY <3>7, <3>8, TryFormCoherent
    <2> QED
      BY <1>6, <2>1, <2>2 DEF OnCommit, roastVars
  <1>7. CASE m.type = "SIG_SHARE" /\ OnSigShare(s, m)
    <2>1. CASE peer' = peer /\ sessions' = sessions /\ nextId' = nextId /\ toS' = toS
      BY <1>4, <2>1
    <2>2. ASSUME NEW k \in ShareSlot(s), NEW ss, ss = StoreShare(k, s, m),
                 NEW p, p = SetPhase(peer, {s}, "SHARED"),
                 \/ Aggregate(k, p, ss)
                 \/ peer' = p /\ sessions' = ss /\ nextId' = nextId /\ toS' = toS
          PROVE  Coherent(signer, u, peer', sessions', nextId', toS')
      <3>1. k \in DOMAIN sessions /\ sessions[k].id = peer[s].session
            /\ s \in sessions[k].members
        BY DEF ShareSlot
      <3>2. Coherent(signer, u, peer, ss, nextId, toS) /\ DOMAIN ss = DOMAIN sessions
        BY <1>1, <1>2, <1>3, <1>7, <2>2, <3>1, CoherentStoreShare, Zenon DEF StoreShare
      <3>3. Coherent(signer, u, p, ss, nextId, toS)
        BY <2>2, <3>2, CoherentPhase
      <3>4. PICK sg : sg = signer
        OBVIOUS
      <3>5. CASE Aggregate(k, p, ss)
        BY <3>1, <3>2, <3>3, <3>4, <3>5, AggregateCoherent
      <3> QED
        BY <2>2, <3>3, <3>5
    <2> QED
      BY <1>7, <2>1, <2>2, Zenon DEF OnSigShare, roastVars
  <1>8. CASE OnClosed(s)
    <2>1. PICK d : d = [toS EXCEPT ![s] = <<>>]
      OBVIOUS
    <2>2. peer' = peer /\ sessions' = sessions /\ nextId' = nextId /\ toS' = d
      BY <1>8, <2>1 DEF OnClosed
    <2>3. Coherent(signer, u, peer, sessions, nextId, d)
      <3>1. d \in [Signer -> Seq(DownFrame)] /\ d[s] = <<>>
            /\ \A x \in Signer : x # s => d[x] = toS[x]
        BY <2>1 DEF Coherent
      <3>2. ASSUME NEW x \in Signer
            PROVE  Link(x, signer[x], peer[x], sessions, Range(u[x]), Range(d[x]))
        <4>1. Link(x, signer[x], peer[x], sessions, Range(u[x]), Range(toS[x]))
          BY <1>4, CoherentFacts
        <4>2. Range(d[s]) = {}
          BY <3>1 DEF Range
        <4>3. Range(d[x]) \in SUBSET Range(toS[x])
          BY <3>1, <4>2
        <4> QED
          BY <4>1, <4>3, LinkMono
      <3> QED
        BY <1>4, <3>1, <3>2 DEF Coherent
    <2> QED
      BY <2>2, <2>3
  <1> QED
    BY <1>2, <1>5, <1>6, <1>7, <1>8, Zenon DEF ProcessSignerFrame

-----------------------------------------------------------------------------
(* A signer starts; a session expires; the next certificate.               *)

LEMMA ConnectCoherent ==
  ASSUME Coherent(signer, toC, peer, sessions, nextId, toS), job \in Job,
         NEW s \in Signer, Connect(s)
  PROVE  Coherent(signer', toC', peer', sessions', nextId', toS')
  <1>1. PICK r : r = FreshSigner(signer[s].drawn)
    OBVIOUS
  <1>2. PICK d : d = <<HelloAck("S"), SignReq(job.tbs)>>
    OBVIOUS
  <1>3. PICK y : y = Blank("INIT")
    OBVIOUS
  <1>4. PICK u : u = <<>>
    OBVIOUS
  <1>5. /\ signer' = [signer EXCEPT ![s] = r] /\ toC' = [toC EXCEPT ![s] = u]
        /\ peer' = Reset(peer, {s}, "INIT") /\ toS' = [toS EXCEPT ![s] = d]
        /\ sessions' = sessions /\ nextId' = nextId
    BY <1>1, <1>2, <1>4 DEF Connect, Register
  <1>6. /\ signer[s] \in SignerRecord /\ nextId \in Nat \ {0} /\ peer[s] \in PeerRecord
        /\ Link(s, signer[s], peer[s], sessions, Range(toC[s]), Range(toS[s]))
        /\ \A k \in DOMAIN sessions : sessions[k].id # 0
        /\ peer \in [Signer -> PeerRecord]
    BY CoherentFacts DEF Coherent, TableOK
  <1>7. /\ r \in SignerRecord /\ r.tbs = NoTbs /\ r.nonces = NoCommit /\ r.pre = FALSE
        /\ r.drawn = signer[s].drawn
    BY <1>1, <1>6, FreshFacts DEF SignerRecord
  <1>8. y \in PeerRecord /\ y.session = 0 /\ y.commit = NoCommit
    BY <1>3, BlankTyped DEF Phase
  <1>9. d \in Seq(DownFrame) /\ Relays(Range(d)) = {}
    <2>1. PICK f : f = SignReq(job.tbs)
      OBVIOUS
    <2>2. f \in DownFrame /\ f.type # "RELAY_COMMIT"
      BY <2>1, RequestTyped
    <2>3. PICK g : g = HelloAck("S")
      OBVIOUS
    <2>4. g \in DownFrame /\ g.type # "RELAY_COMMIT"
      BY <2>3 DEF HelloAck, DownFrame
    <2>5. d = <<g, f>>
      BY <1>2, <2>1, <2>3
    <2>6. d \in Seq(DownFrame) /\ \A i \in DOMAIN d : d[i] \in {g, f}
      BY <2>2, <2>4, <2>5
    <2> QED
      BY <2>2, <2>4, <2>6 DEF Relays, Range
  <1>10. u \in Seq(UpFrame) /\ Ordered(u) /\ Range(u) = {}
    BY <1>4, OrderedEmpty DEF Range
  <1>11. Link(s, r, y, sessions, Range(u), Range(d))
    <2>1. Link(s, r, peer[s], sessions, Range(toC[s]), Range(toS[s]))
      BY <1>6, <1>7, LinkZero
    <2>2. Link(s, r, y, sessions, Range(toC[s]), Range(toS[s]))
      BY <1>3, <1>6, <2>1, LinkBlank
    <2>3. Link(s, r, y, sessions, Range(u), {})
      BY <1>10, <2>2, LinkMono
    <2>4. Relays({}) = {}
      BY DEF Relays
    <2> QED
      BY <1>9, <2>3, <2>4 DEF Link, RelayedOld, PhaseFits, SlotFits
  <1>12. Coherent([signer EXCEPT ![s] = r], [toC EXCEPT ![s] = u], [peer EXCEPT ![s] = y],
                  sessions, nextId, [toS EXCEPT ![s] = d])
    <2>1. y.session < nextId
      BY <1>6, <1>8
    <2> QED
      BY <1>7, <1>8, <1>9, <1>10, <1>11, <2>1, CoherentOne
  <1>13. Reset(peer, {s}, "INIT") = [peer EXCEPT ![s] = y]
    BY <1>3, <1>6 DEF Reset
  <1> QED
    BY <1>5, <1>12, <1>13

LEMMA CrashCoherent ==
  ASSUME Coherent(signer, toC, peer, sessions, nextId, toS), NEW s \in Signer, Crash(s)
  PROVE  Coherent(signer', toC', peer', sessions', nextId', toS')
  <1>1. /\ Die(s) /\ toS' = [toS EXCEPT ![s] = <<>>]
        /\ peer' = peer /\ sessions' = sessions /\ nextId' = nextId
    BY DEF Crash, coordVars
  <1>2. Coherent(signer', toC', peer, sessions, nextId, toS')
    BY <1>1, DieCoherent
  <1> QED
    BY <1>1, <1>2

LEMMA ExpireCoherent ==
  ASSUME Coherent(signer, toC, peer, sessions, nextId, toS),
         arrived \in [Signer -> Nat], job \in Job,
         NEW k \in DOMAIN sessions, Expire(k)
  PROVE  Coherent(signer, toC, peer', sessions', nextId', toS')
  <1>1. PICK C : C = Contributors(sessions[k]) \cap Connected
    OBVIOUS
  <1>2. PICK S : S = SilentMembers(sessions[k])
    OBVIOUS
  <1>3. PICK st : st = [s \in Signer |-> IF s \in S THEN strikes[s] + 1 ELSE strikes[s]]
    OBVIOUS
  <1>4. PICK O : O = Outcasts(S, st)
    OBVIOUS
  <1>5. PICK bl : bl = blacklist \cup O
    OBVIOUS
  <1>6. PICK p1 : p1 = SetPhase(peer, O, "BLACKLISTED")
    OBVIOUS
  <1>7. PICK p2 : p2 = Reset(p1, C, "INIT")
    OBVIOUS
  <1>8. PICK p3 : p3 = Reset(p2, S \ O, "SUSPECT")
    OBVIOUS
  <1>9. PICK x : x = [sessions EXCEPT ![k].state = "FAILED"]
    OBVIOUS
  <1>10. PICK f : f = SignReq(job.tbs)
    OBVIOUS
  <1>11. PICK q : q = SendTo(toS, (C \cup S) \ O, f)
    OBVIOUS
  <1>12. TryForm(p3, st, bl, x, q)
    BY <1>1, <1>2, <1>3, <1>4, <1>5, <1>6, <1>7, <1>8, <1>9, <1>10, <1>11, Zenon
       DEF Expire
  <1>13. Coherent(signer, toC, p1, sessions, nextId, toS)
    BY <1>6, CoherentPhase
  <1>14. Coherent(signer, toC, p2, sessions, nextId, toS)
    BY <1>7, <1>13, CoherentReset
  <1>15. Coherent(signer, toC, p3, sessions, nextId, toS)
    BY <1>8, <1>14, CoherentReset
  <1>16. Coherent(signer, toC, p3, x, nextId, toS)
    BY <1>9, <1>15, CoherentState, Zenon
  <1>17. Coherent(signer, toC, p3, x, nextId, q)
    <2>1. f \in DownFrame /\ f.type # "RELAY_COMMIT"
      BY <1>10, RequestTyped
    <2> QED
      BY <1>11, <1>16, <2>1, CoherentSend
  <1>18. PICK sg : sg = signer
    OBVIOUS
  <1>19. PICK up : up = toC
    OBVIOUS
  <1>20. Coherent(sg, up, peer', sessions', nextId', toS')
    BY <1>12, <1>17, <1>18, <1>19, TryFormCoherent
  <1> QED
    BY <1>18, <1>19, <1>20

\* prepare_tbs leaves the job well formed.
LEMMA PrepareTbsJob ==
  ASSUME job \in Job, PrepareTbs(NextSerial)
  PROVE  /\ job' \in Job
         /\ sessions' = <<>> \/ sessions' = sessions
  <1>1. PICK j \in Job : j = job
    OBVIOUS
  <1>2. PICK n \in Nat \ {0} : n = NextSerial
    BY DEF NextSerial, Job
  <1>3. \/ job' = [j EXCEPT !.serial = n, !.tbs = <<n, "frost">>, !.template = n]
        \/ job' = [j EXCEPT !.serial = n]
        \/ job' = [j EXCEPT !.serial = n, !.tbs = <<n, "ephemeral">>, !.template = n]
    BY <1>1, <1>2 DEF PrepareTbs
  <1>4. <<n, "frost">> \in AskedTbs /\ <<n, "ephemeral">> \in AskedTbs
    BY DEF AskedTbs
  <1>5. job' \in Job
    BY <1>3, <1>4 DEF Job
  <1> QED
    BY <1>5 DEF PrepareTbs

LEMMA NextCertCoherent ==
  ASSUME Coherent(signer, toC, peer, sessions, nextId, toS), job \in Job, NextCert
  PROVE  Coherent(signer, toC, peer', sessions', nextId', toS')
  <1>1. PICK A : A = Usable(peer, blacklist)
    OBVIOUS
  <1>2. PICK f : f = SignReq(job'.tbs)
    OBVIOUS
  <1>3. /\ PrepareTbs(NextSerial) /\ peer' = Reset(peer, A, "INIT") /\ nextId' = nextId
        /\ toS' = SendTo(toS, A, f)
    BY <1>1, <1>2 DEF NextCert
  <1>4. job' \in Job /\ (sessions' = <<>> \/ sessions' = sessions)
    BY <1>3, PrepareTbsJob
  <1>5. f \in DownFrame /\ f.type # "RELAY_COMMIT"
    BY <1>2, <1>4, RequestTyped
  <1>6. PICK p : p = Reset(peer, A, "INIT")
    OBVIOUS
  <1>7. PICK q : q = SendTo(toS, A, f)
    OBVIOUS
  <1>8. Coherent(signer, toC, p, sessions, nextId, toS)
    BY <1>6, CoherentReset
  <1>9. Coherent(signer, toC, p, sessions, nextId, q)
    BY <1>5, <1>7, <1>8, CoherentSend
  <1>10. Coherent(signer, toC, p, <<>>, nextId, q)
    <2>1. PICK e : e = <<>>
      OBVIOUS
    <2>2. DOMAIN e = {} /\ Len(e) = 0 /\ \A S : e \in Seq(S)
      BY <2>1
    <2>3. SlotsOK(e, nextId)
      BY <2>2, CoordinatorAssumption DEF SlotsOK
    <2>4. Coherent(signer, toC, p, e, nextId, q)
      BY <1>9, <2>2, <2>3, CoherentSlots
    <2> QED
      BY <2>1, <2>4
  <1> QED
    BY <1>3, <1>4, <1>6, <1>7, <1>9, <1>10

-----------------------------------------------------------------------------
(* The certificates and the list.                                          *)

\* The core names a member whose share is invalid.
LEMMA CulpritFacts ==
  ASSUME NEW q, q.members \in SUBSET Signer, ~ \A s \in q.members : ValidShare(q, s)
  PROVE  Culprit(q) \in q.members /\ ~ValidShare(q, Culprit(q))
  <1>1. PICK B : B = {s \in q.members : ~ValidShare(q, s)}
    OBVIOUS
  <1>2. B # {} /\ B \subseteq Nat
    BY <1>1, GroupAssumption DEF Signer
  <1>3. PICK s \in B : \A r \in B : ~(<<r, s>> \in OpToRel(<, Nat))
    BY <1>2, WFMin, NatLessThanWellFounded
  <1>4. \A r \in B : s <= r
    <2> SUFFICES ASSUME NEW r \in B, r < s PROVE FALSE
      BY <1>2
    <2>1. <<r, s>> \in Nat \X Nat /\ <<r, s>>[1] < <<r, s>>[2]
      BY <1>2
    <2>2. <<r, s>> \in OpToRel(<, Nat)
      BY <2>1, Zenon DEF OpToRel
    <2> QED
      BY <1>3, <2>2
  <1>5. \E x \in q.members :
          /\ ~ValidShare(q, x)
          /\ \A r \in q.members : ~ValidShare(q, r) => x <= r
    BY <1>1, <1>4
  <1> QED
    BY <1>5 DEF Culprit

LEMMA MintCerts ==
  ASSUME CertsOK, NEW q, NEW nid, SlotOK(q, nid), Mint(q.pkg)
  PROVE  CertsOK'
  <1>1. PICK j \in Job : j = job
    BY DEF CertsOK
  <1>2. PICK c : c = [file |-> j.serial, serial |-> j.template, pkg |-> q.pkg]
    OBVIOUS
  <1>3. PICK n : n = (j.toMint + CounterMod - 1) % CounterMod
    OBVIOUS
  <1>4. n \in 0..(CounterMod - 1)
    BY <1>3, CoordinatorAssumption DEF Job
  <1>5. job' = [j EXCEPT !.toMint = n] /\ certs' = Append(certs, c)
    BY <1>1, <1>2, <1>3 DEF Mint
  <1>6. job' \in Job
    BY <1>4, <1>5 DEF Job
  <1>7. q.pkg \in Package
    BY DEF SlotOK
  <1>8. c \in Certificate
    BY <1>2, <1>7 DEF Certificate, Job
  <1>9. certs \in Seq(Certificate)
    BY DEF CertsOK
  <1>10. certs' \in Seq(Certificate)
    BY <1>5, <1>8, <1>9
  <1> QED
    BY <1>6, <1>10 DEF CertsOK

LEMMA SameCerts ==
  ASSUME CertsOK, job' \in Job, certs' = certs
  PROVE  CertsOK'
  BY DEF CertsOK

LEMMA AggregateCerts ==
  ASSUME CertsOK, NEW k, NEW p, NEW ss, NEW nid, SlotOK(ss[k], nid), Aggregate(k, p, ss)
  PROVE  CertsOK'
  <1>1. PICK q : q = ss[k]
    OBVIOUS
  <1>2. CASE Mint(ss[k].pkg)
    BY <1>1, <1>2, MintCerts
  <1>3. CASE job' = job /\ certs' = certs
    BY <1>3, SameCerts DEF CertsOK
  <1> QED
    BY <1>2, <1>3 DEF Aggregate, Succeed, MintFails, FailCulprit, FailAll, certVars

LEMMA StoredSlotOK ==
  ASSUME Coherent(signer, toC, peer, sessions, nextId, toS), NEW s \in Signer,
         toC[s] # <<>>, NEW m, m = Head(toC[s]), m.type = "SIG_SHARE",
         NEW k \in ShareSlot(s), NEW ss, ss = StoreShare(k, s, m)
  PROVE  SlotOK(ss[k], nextId) /\ ss[k].members \in SUBSET Signer
  <1>1. k \in DOMAIN sessions /\ sessions[k].id = peer[s].session
        /\ s \in sessions[k].members
    BY DEF ShareSlot
  <1>2. /\ Coherent(signer, [toC EXCEPT ![s] = Tail(@)], peer, ss, nextId, toS)
        /\ DOMAIN ss = DOMAIN sessions
    BY <1>1, CoherentStoreShare, Zenon DEF StoreShare
  <1>3. SlotOK(ss[k], nextId)
    BY <1>1, <1>2 DEF Coherent, SlotsOK
  <1> QED
    BY <1>3 DEF SlotOK

LEMMA CoordinatorStepCerts ==
  ASSUME Coherent(signer, toC, peer, sessions, nextId, toS), CertsOK,
         NEW s \in Signer, CoordinatorStep(s)
  PROVE  CertsOK'
  <1>1. PICK m : m = Head(toC[s])
    OBVIOUS
  <1>2. toC[s] # <<>> /\ ProcessSignerFrame(s, m)
    BY <1>1 DEF CoordinatorStep
  <1>3. CASE job' = job /\ certs' = certs
    BY <1>3, SameCerts DEF CertsOK
  <1>4. ASSUME m.type = "SIG_SHARE", NEW k \in ShareSlot(s),
               NEW ss, ss = StoreShare(k, s, m),
               NEW p, p = SetPhase(peer, {s}, "SHARED"), Aggregate(k, p, ss)
        PROVE  CertsOK'
    <2>1. SlotOK(ss[k], nextId)
      BY <1>1, <1>2, <1>4, StoredSlotOK
    <2>2. PICK nid : nid = nextId
      OBVIOUS
    <2> QED
      BY <1>4, <2>1, <2>2, AggregateCerts
  <1>5. CASE m.type = "SIG_SHARE" /\ OnSigShare(s, m)
    BY <1>3, <1>4, <1>5, Zenon DEF OnSigShare, certVars
  <1> QED
    BY <1>2, <1>3, <1>5 DEF ProcessSignerFrame, OnShareLoadFail, OnCommit, OnClosed, certVars

LEMMA AggregateList ==
  ASSUME ListOK, NEW k, NEW p, NEW ss, ss[k].members \in SUBSET Signer,
         Aggregate(k, p, ss)
  PROVE  /\ strikes' = strikes /\ blacklist' \in SUBSET Signer
         /\ done' \in BOOLEAN /\ roastFail' \in BOOLEAN
  <1>1. CASE Succeed(k, p, ss)
    BY <1>1 DEF Succeed, ListOK
  <1>2. CASE /\ ~ \A s \in ss[k].members : ValidShare(ss[k], s)
             /\ FailCulprit(k, Culprit(ss[k]), p, ss)
    <2>1. PICK q : q = ss[k]
      OBVIOUS
    <2>2. Culprit(q) \in q.members
      BY <1>2, <2>1, CulpritFacts
    <2>3. blacklist' = blacklist \cup {Culprit(q)}
      BY <1>2, <2>1 DEF FailCulprit
    <2>4. strikes' = strikes /\ done' = done /\ roastFail' \in BOOLEAN
      BY <1>2 DEF FailCulprit, NoEligibleRemain
    <2> QED
      BY <2>1, <2>2, <2>3, <2>4 DEF ListOK
  <1>3. CASE FailAll(k, p, ss)
    <2>1. strikes' = strikes /\ roastFail' = roastFail /\ done' \in BOOLEAN
      BY <1>3 DEF FailAll, NoEligibleRemain
    <2>2. blacklist' = blacklist \cup ss[k].members
      BY <1>3 DEF FailAll
    <2> QED
      BY <2>1, <2>2 DEF ListOK
  <1>4. CASE strikes' = strikes /\ blacklist' = blacklist /\ done' = done
             /\ roastFail' = roastFail
    BY <1>4 DEF ListOK
  <1> QED
    BY <1>1, <1>2, <1>3, <1>4 DEF Aggregate, certVars

LEMMA CoordinatorStepList ==
  ASSUME Coherent(signer, toC, peer, sessions, nextId, toS), ListOK,
         NEW s \in Signer, CoordinatorStep(s)
  PROVE  ListOK'
  <1>1. PICK m : m = Head(toC[s])
    OBVIOUS
  <1>2. toC[s] # <<>> /\ ProcessSignerFrame(s, m) /\ running' = running
    BY <1>1 DEF CoordinatorStep, ProcessSignerFrame
  <1>3. CASE /\ arrivals' = arrivals /\ arrived' = arrived /\ strikes' = strikes
             /\ blacklist' = blacklist /\ done' = done /\ roastFail' = roastFail
    BY <1>2, <1>3 DEF ListOK
  <1>4. ASSUME m.type = "SIG_SHARE", NEW k \in ShareSlot(s),
               NEW ss, ss = StoreShare(k, s, m),
               NEW p, p = SetPhase(peer, {s}, "SHARED"), Aggregate(k, p, ss),
               arrivals' = arrivals, arrived' = arrived
        PROVE  ListOK'
    <2>1. ss[k].members \in SUBSET Signer
      BY <1>1, <1>2, <1>4, StoredSlotOK
    <2>2. /\ strikes' = strikes /\ blacklist' \in SUBSET Signer
          /\ done' \in BOOLEAN /\ roastFail' \in BOOLEAN
      BY <1>4, <2>1, AggregateList
    <2> QED
      BY <1>2, <1>4, <2>2 DEF ListOK
  <1>5. CASE m.type = "SIG_SHARE" /\ OnSigShare(s, m)
    BY <1>3, <1>4, <1>5, Zenon DEF OnSigShare, certVars, listVars, roastVars
  <1>6. CASE OnClosed(s)
    <2>1. /\ arrived' = [arrived EXCEPT ![s] = 0] /\ arrivals' = arrivals
          /\ strikes' = strikes /\ blacklist' = blacklist /\ done' = done
          /\ roastFail' = roastFail
      BY <1>6 DEF OnClosed, certVars
    <2>2. arrived' \in [Signer -> 0..arrivals]
      BY <2>1 DEF ListOK
    <2> QED
      BY <1>2, <2>1, <2>2 DEF ListOK
  <1>7. CASE OnShareLoadFail(s)
    BY <1>3, <1>7 DEF OnShareLoadFail, certVars, listVars
  <1>8. CASE OnCommit(s, m)
    BY <1>3, <1>8 DEF OnCommit, certVars, listVars, roastVars
  <1> QED
    BY <1>2, <1>5, <1>6, <1>7, <1>8 DEF ProcessSignerFrame

-----------------------------------------------------------------------------
(* The invariant.                                                          *)

LEMMA InitInv == Init => SystemInv
  <1> SUFFICES ASSUME Init PROVE SystemInv
    OBVIOUS
  <1>1. job \in Job /\ job.tbs = <<1, "frost">>
    BY CoordinatorAssumption DEF Init, Job, AskedTbs
  <1>2. SignersOK(signer) /\ \A s \in Signer : signer[s].nonces = NoCommit
                               /\ signer[s].pre = FALSE /\ signer[s].drawn = 0
    <2>1. PICK e : e = FreshSigner(0)
      OBVIOUS
    <2>2. /\ e \in SignerRecord /\ e.tbs = NoTbs /\ e.nonces = NoCommit
          /\ e.pre = FALSE /\ e.drawn = 0
      BY <2>1, FreshFacts
    <2>3. \A b \in BOOLEAN :
            /\ [e EXCEPT !.up = b] \in SignerRecord
            /\ [e EXCEPT !.up = b].tbs = NoTbs
            /\ [e EXCEPT !.up = b].nonces = NoCommit
            /\ [e EXCEPT !.up = b].pre = FALSE
            /\ [e EXCEPT !.up = b].drawn = 0
      BY <2>2 DEF SignerRecord
    <2>4. signer = [s \in Signer |-> [e EXCEPT !.up = s \in Enrolled]]
      BY <2>1 DEF Init
    <2>5. ASSUME NEW s \in Signer
          PROVE  /\ signer[s] \in SignerRecord /\ signer[s].tbs = NoTbs
                 /\ signer[s].nonces = NoCommit /\ signer[s].pre = FALSE
                 /\ signer[s].drawn = 0
      <3>1. PICK b \in BOOLEAN : b = (s \in Enrolled)
        <4>1. CASE s \in Enrolled
          <5>1. TRUE = (s \in Enrolled)
            BY <4>1
          <5> QED
            BY <5>1, Zenon
        <4>2. CASE s \notin Enrolled
          <5>1. FALSE = (s \in Enrolled)
            BY <4>2
          <5> QED
            BY <5>1, Zenon
        <4> QED
          BY <4>1, <4>2
      <3>2. signer[s] = [e EXCEPT !.up = b]
        BY <2>4, <3>1, Zenon
      <3> QED
        BY <2>3, <3>2, Zenon
    <2>6. signer = [s \in Signer |-> signer[s]]
      BY <2>4, Zenon
    <2> QED
      BY <2>5, <2>6 DEF SignersOK
  <1>3. /\ toC \in [Signer -> Seq(UpFrame)]
        /\ \A s \in Signer : Ordered(toC[s]) /\ Range(toC[s]) = {}
    BY OrderedEmpty DEF Init, Range
  <1>4. /\ toS \in [Signer -> Seq(DownFrame)]
        /\ \A s \in Signer : Relays(Range(toS[s])) = {}
    <2>1. PICK f : f = SignReq(job.tbs)
      OBVIOUS
    <2>2. f \in DownFrame /\ f.type # "RELAY_COMMIT"
      BY <1>1, <2>1, RequestTyped
    <2>3. PICK g : g = HelloAck("S")
      OBVIOUS
    <2>4. g \in DownFrame /\ g.type # "RELAY_COMMIT"
      BY <2>3 DEF HelloAck, DownFrame
    <2>5. PICK d : d = <<g, f>>
      OBVIOUS
    <2>6. d \in Seq(DownFrame) /\ \A i \in DOMAIN d : d[i] \in {g, f}
      BY <2>2, <2>4, <2>5
    <2>7. Relays(Range(d)) = {}
      BY <2>2, <2>4, <2>6 DEF Relays, Range
    <2>8. PICK e : e = <<>>
      OBVIOUS
    <2>9. e \in Seq(DownFrame) /\ Relays(Range(e)) = {}
      BY <2>8 DEF Relays, Range
    <2>10. toS = [s \in Signer |-> IF s \in Enrolled THEN d ELSE e]
      BY <2>1, <2>3, <2>5, <2>8 DEF Init
    <2> QED
      BY <2>6, <2>7, <2>9, <2>10
  <1>5. /\ TableOK(peer, 1)
        /\ \A s \in Signer : peer[s].commit = NoCommit /\ peer[s].session = 0
                             /\ peer[s].phase = "INIT"
    <2>1. PICK y : y = Blank("INIT")
      OBVIOUS
    <2>2. y \in PeerRecord /\ y.session = 0 /\ y.commit = NoCommit /\ y.phase = "INIT"
      BY <2>1, BlankTyped DEF Phase, Blank
    <2>3. peer = [s \in Signer |-> y]
      BY <2>1 DEF Init
    <2> QED
      BY <2>2, <2>3 DEF TableOK
  <1>6. SlotsOK(sessions, 1) /\ DOMAIN sessions = {}
    <2>1. sessions = <<>>
      BY DEF Init
    <2>2. DOMAIN sessions = {} /\ Len(sessions) = 0 /\ \A S : sessions \in Seq(S)
      BY <2>1
    <2> QED
      BY <2>2, CoordinatorAssumption DEF SlotsOK
  <1>7. ASSUME NEW s \in Signer
        PROVE  Link(s, signer[s], peer[s], sessions, Range(toC[s]), Range(toS[s]))
    <2>1. Offers({}) = {} /\ Shares({}) = {}
      BY DEF Offers, Shares
    <2>2. NoncesLast(s, signer[s]) /\ SentOwn(s, signer[s], Range(toC[s]))
      BY <1>2, <1>3, <2>1 DEF NoncesLast, SentOwn
    <2>3. RelayedOld(s, signer[s], peer[s], Range(toC[s]), Range(toS[s]))
      BY <1>4 DEF RelayedOld
    <2>4. TableOld(s, signer[s], peer[s], Range(toC[s]))
      BY <1>5 DEF TableOld
    <2>5. PhaseFits(s, peer[s], Range(toC[s]), Range(toS[s]))
      BY <1>5 DEF PhaseFits
    <2> QED
      BY <1>6, <2>2, <2>3, <2>4, <2>5 DEF Link
  <1>8. Coherent(signer, toC, peer, sessions, nextId, toS)
    <2>1. nextId = 1
      BY DEF Init
    <2>2. Coherent(signer, toC, peer, sessions, 1, toS)
      BY <1>2, <1>3, <1>4, <1>5, <1>6, <1>7 DEF Coherent
    <2> QED
      BY <2>1, <2>2
  <1>9. CertsOK
    BY <1>1 DEF Init, CertsOK
  <1>10. ListOK
    <2>1. PICK l \in Nat : l = Len(Roster)
      BY SystemAssumption
    <2>2. DOMAIN Roster = 1..l
      BY <2>1, SystemAssumption
    <2>3. ASSUME NEW s \in Signer
          PROVE  arrived[s] \in 0..l
      <3>1. CASE s \notin Enrolled
        BY <3>1 DEF Init
      <3>2. CASE s \in Enrolled
        <4>1. \E i \in DOMAIN Roster : Roster[i] = s
          BY <3>2 DEF Enrolled
        <4>2. arrived[s] = CHOOSE i \in DOMAIN Roster : Roster[i] = s
          BY <3>2 DEF Init
        <4>3. arrived[s] \in DOMAIN Roster
          BY <4>1, <4>2
        <4> QED
          BY <2>2, <4>3
      <3> QED
        BY <3>1, <3>2
    <2>4. arrivals = l /\ arrived \in [Signer -> 0..arrivals]
      <3>1. arrived = [s \in Signer |-> arrived[s]] /\ arrivals = l
        BY <2>1 DEF Init
      <3> QED
        BY <2>3, <3>1
    <2>5. /\ strikes \in [Signer -> Nat] /\ blacklist \in SUBSET Signer
          /\ done \in BOOLEAN /\ roastFail \in BOOLEAN /\ running \in BOOLEAN
      BY DEF Init
    <2> QED
      BY <2>4, <2>5 DEF ListOK
  <1> QED
    BY <1>8, <1>9, <1>10 DEF SystemInv

LEMMA NextInv == SystemInv /\ [Next]_vars => SystemInv'
  <1> SUFFICES ASSUME SystemInv, [Next]_vars PROVE SystemInv'
    OBVIOUS
  <1>1. /\ Coherent(signer, toC, peer, sessions, nextId, toS) /\ CertsOK /\ ListOK
        /\ job \in Job
    BY DEF SystemInv, CertsOK
  <1>2. arrived \in [Signer -> Nat]
    BY <1>1 DEF ListOK
  <1>3. ASSUME Coherent(signer', toC', peer', sessions', nextId', toS'), CertsOK', ListOK'
        PROVE  SystemInv'
    BY <1>3 DEF SystemInv
  <1>4. ASSUME /\ arrivals' = arrivals /\ arrived' = arrived /\ strikes' = strikes
               /\ blacklist' = blacklist /\ done' = done /\ roastFail' = roastFail
               /\ running' = running
        PROVE  ListOK'
    BY <1>1, <1>4 DEF ListOK
  <1>5. ASSUME job' = job, certs' = certs PROVE CertsOK'
    BY <1>1, <1>5, SameCerts
  <1>6. CASE UNCHANGED vars
    <2>1. /\ signer' = signer /\ toC' = toC /\ peer' = peer /\ sessions' = sessions
          /\ nextId' = nextId /\ toS' = toS /\ job' = job /\ certs' = certs
          /\ arrivals' = arrivals /\ arrived' = arrived /\ strikes' = strikes
          /\ blacklist' = blacklist /\ done' = done /\ roastFail' = roastFail
          /\ running' = running
      BY <1>6 DEF vars, coordVars
    <2>2. Coherent(signer', toC', peer', sessions', nextId', toS')
      BY <1>1, <2>1
    <2> QED
      BY <1>3, <1>4, <1>5, <2>1, <2>2
  <1>7. ASSUME NEW s \in Signer, SignerStep(s) \/ Crash(s) PROVE SystemInv'
    <2>1. Coherent(signer', toC', peer', sessions', nextId', toS')
      BY <1>1, <1>7, SignerStepCoherent, CrashCoherent
    <2>2. /\ job' = job /\ certs' = certs
          /\ arrivals' = arrivals /\ arrived' = arrived /\ strikes' = strikes
          /\ blacklist' = blacklist /\ done' = done /\ roastFail' = roastFail
          /\ running' = running
      BY <1>7 DEF SignerStep, Crash, coordVars
    <2> QED
      BY <1>3, <1>4, <1>5, <2>1, <2>2
  <1>8. ASSUME NEW s \in Signer, CoordinatorStep(s) PROVE SystemInv'
    <2>1. Coherent(signer', toC', peer', sessions', nextId', toS')
      BY <1>1, <1>2, <1>8, CoordinatorStepCoherent
    <2>2. CertsOK' /\ ListOK'
      BY <1>1, <1>8, CoordinatorStepCerts, CoordinatorStepList
    <2> QED
      BY <1>3, <2>1, <2>2
  <1>9. ASSUME NEW s \in Signer, Connect(s) PROVE SystemInv'
    <2>1. Coherent(signer', toC', peer', sessions', nextId', toS')
      BY <1>1, <1>9, ConnectCoherent
    <2>2. CertsOK'
      BY <1>5, <1>9 DEF Connect, Register, certVars
    <2>3. ListOK'
      <3>1. /\ arrived' = [arrived EXCEPT ![s] = arrivals + 1] /\ arrivals' = arrivals + 1
            /\ strikes' = strikes /\ blacklist' = blacklist /\ done' = done
            /\ roastFail' = roastFail /\ running' = running
        BY <1>9 DEF Connect, Register, certVars
      <3>2. arrivals' \in Nat /\ arrived' \in [Signer -> 0..arrivals']
        BY <1>1, <3>1 DEF ListOK
      <3> QED
        BY <1>1, <3>1, <3>2 DEF ListOK
    <2> QED
      BY <1>3, <2>1, <2>2, <2>3
  <1>10. CASE Timeout
    <2>1. PICK k \in DOMAIN sessions : Expire(k)
      BY <1>10 DEF Timeout
    <2>2. signer' = signer /\ toC' = toC
      BY <1>10 DEF Timeout
    <2>3. Coherent(signer', toC', peer', sessions', nextId', toS')
      BY <1>1, <1>2, <2>1, <2>2, ExpireCoherent
    <2>4. CertsOK'
      BY <1>5, <2>1 DEF Expire, certVars
    <2>5. ListOK'
      <3>1. PICK S : S = SilentMembers(sessions[k])
        OBVIOUS
      <3>2. strikes' = [s \in Signer |-> IF s \in S THEN strikes[s] + 1 ELSE strikes[s]]
        BY <2>1, <3>1 DEF Expire
      <3>3. strikes' \in [Signer -> Nat]
        BY <1>1, <3>2 DEF ListOK
      <3>4. PICK O : O = Outcasts(S, [s \in Signer |-> IF s \in S THEN strikes[s] + 1
                                                                  ELSE strikes[s]])
        OBVIOUS
      <3>5. blacklist' = blacklist \cup O
        BY <2>1, <3>1, <3>4 DEF Expire
      <3>6. O \subseteq S
        BY <3>4 DEF Outcasts
      <3>7. S \subseteq Signer
        BY <3>1 DEF SilentMembers, Connected
      <3>8. /\ arrivals' = arrivals /\ arrived' = arrived /\ done' = done
            /\ roastFail' = roastFail /\ running' = running
        BY <2>1 DEF Expire, certVars, listVars
      <3> QED
        BY <1>1, <3>3, <3>5, <3>6, <3>7, <3>8 DEF ListOK
    <2> QED
      BY <1>3, <2>3, <2>4, <2>5
  <1>11. CASE LoopTop
    <2>1. signer' = signer /\ toC' = toC
      BY <1>11 DEF LoopTop
    <2>2. CASE NextCert
      <3>1. Coherent(signer', toC', peer', sessions', nextId', toS')
        BY <1>1, <2>1, <2>2, NextCertCoherent
      <3>2. job' \in Job /\ certs' = certs
        BY <1>1, <2>2, PrepareTbsJob DEF NextCert
      <3>3. CertsOK'
        BY <1>1, <3>2, SameCerts
      <3>4. ListOK'
        BY <1>1, <2>2 DEF NextCert, listVars, ListOK
      <3> QED
        BY <1>3, <3>1, <3>3, <3>4
    <2>3. CASE Exit
      <3>1. /\ peer' = peer /\ sessions' = sessions /\ nextId' = nextId /\ toS' = toS
            /\ job' = job /\ certs' = certs /\ running' = FALSE
            /\ arrivals' = arrivals /\ arrived' = arrived /\ strikes' = strikes
            /\ blacklist' = blacklist /\ done' = done /\ roastFail' = roastFail
        BY <2>3 DEF Exit, roastVars, certVars, listVars
      <3>2. Coherent(signer', toC', peer', sessions', nextId', toS')
        BY <1>1, <2>1, <3>1
      <3>3. ListOK'
        BY <1>1, <3>1 DEF ListOK
      <3> QED
        BY <1>3, <1>5, <3>1, <3>2, <3>3
    <2> QED
      BY <1>11, <2>2, <2>3 DEF LoopTop
  <1>12. CASE Finished
    BY <1>6, <1>12 DEF Finished
  <1> QED
    BY <1>6, <1>7, <1>8, <1>9, <1>10, <1>11, <1>12 DEF Next

\* The two programs and the frames between them stay coherent: SystemInv is an
\* inductive invariant of every SIGN-mode run, whatever the faults, crashes,
\* failing cores and reconnects.
THEOREM SystemInvariant == Spec => []SystemInv
  BY InitInv, NextInv, PTL DEF Spec

\* The globals of frost_coordinator.c and frost_signer.c are well formed in
\* every reachable state: at most ROAST_MAX_SESSIONS slots, each of exactly T
\* distinct members under an id given out before, g_to_mint within its width.
THEOREM SystemTypeOK == Spec => []TypeOK
  <1>1. SystemInv => TypeOK
    <2> SUFFICES ASSUME SystemInv PROVE TypeOK
      OBVIOUS
    <2>1. /\ SignersOK(signer) /\ TableOK(peer, nextId) /\ SlotsOK(sessions, nextId)
          /\ nextId \in Nat \ {0}
      BY DEF SystemInv, Coherent
    <2>2. /\ signer \in [Signer -> SignerRecord] /\ peer \in [Signer -> PeerRecord]
          /\ Len(sessions) <= MaxSessions
      BY <2>1 DEF SignersOK, TableOK, SlotsOK
    <2>3. ASSUME NEW k \in DOMAIN sessions PROVE SessionRecord(sessions[k])
      <3>1. SlotOK(sessions[k], nextId)
        BY <2>1 DEF SlotsOK
      <3> QED
        BY <3>1 DEF SlotOK, SessionRecord
    <2>4. job.serial \in Nat \ {0} /\ job.tbs \in Tbs /\ job.toMint \in 0..(CounterMod - 1)
      BY DEF SystemInv, CertsOK, Job, AskedTbs, Tbs
    <2> QED
      BY <2>1, <2>2, <2>3, <2>4 DEF TypeOK, SystemInv, ListOK, PeerRecord, CommitSig
  <1> QED
    BY <1>1, SystemInvariant, PTL

\* n_shares never counts a share twice, although SIG_SHARE increments it
\* without looking whether the slot of its sender is filled: no signer is ever
\* able to answer the same relay twice, not even across a restart.
THEOREM SystemShareCountExact == Spec => []ShareCountExact
  <1>1. SystemInv => ShareCountExact
    BY DEF SystemInv, Coherent, SlotsOK, SlotOK, ShareCountExact
  <1> QED
    BY <1>1, SystemInvariant, PTL

\* The coordinator files a SIG_SHARE under the session it last put the sender
\* in, and that is the session the share was made for: the streams' order rules
\* out a share of an expired or cleared session.
THEOREM SystemSharesOfTheirSession == Spec => []SharesOfTheirSession
  <1>1. SystemInv => SharesOfTheirSession
    BY DEF SystemInv, Coherent, SlotsOK, SlotOK, SharesOfTheirSession
  <1> QED
    BY <1>1, SystemInvariant, PTL

\* No signer ever sends a share for the message that --fault replace-tbs swaps
\* in: check (d) of a member compares it with the message of SIGN_REQ.
THEOREM SystemRefusesReplacedTbs == Spec => []RefusesReplacedTbs
  <1>1. SystemInv => RefusesReplacedTbs
    <2> SUFFICES ASSUME SystemInv, NEW s \in Signer, NEW i \in DOMAIN toC[s],
                        toC[s][i].type = "SIG_SHARE"
                 PROVE  toC[s][i].share.pkg.tbs[2] # "altered"
      BY DEF RefusesReplacedTbs
    <2>1. toC[s] \in Seq(UpFrame)
      BY CoherentFacts DEF SystemInv
    <2>2. toC[s][i] \in UpFrame
      BY <2>1
    <2>3. toC[s][i].share.pkg.tbs \in AskedTbs
      BY <2>2, UpFrameFacts
    <2> QED
      BY <2>3 DEF AskedTbs
  <1> QED
    BY <1>1, SystemInvariant, PTL
============================================================================
