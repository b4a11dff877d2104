------------------------ MODULE RoastPenaltyProofs ------------------------
(***************************************************************************)
(* Robustness of one certificate's signing: who is struck and blacklisted, *)
(* and how many sessions the signers that deserve it can cost.  The proofs *)
(* are of a run that issues one certificate (ToMint = 1) with cores that   *)
(* run and a coordinator without --fault replace-tbs: what the other       *)
(* signers do, who they are, when they crash and return is left open; only *)
(* the bound on the sessions asks that no process crashes.                 *)
(***************************************************************************)
EXTENDS RoastIssuanceProofs

-----------------------------------------------------------------------------
(* The one certificate.                                                    *)

\* The message of the first certificate, and of the only one.
FirstTbs == <<1, "frost">>

\* The one certificate is not signed yet, or is and none is left to issue.
OnceInv ==
  /\ job.tbs = FirstTbs /\ job.template = 1 /\ job.replace = FALSE
  /\ done => job.toMint = 0
  /\ ~done => job.toMint = 1

\* What becomes of a slot when a share is stored in it: the share is filed and
\* the session goes on, the certificate is written, or a culprit is named.
Filed(p, ss) ==
  /\ peer' = p /\ sessions' = ss
  /\ UNCHANGED <<strikes, blacklist, nextId, toS, job, done, certs>>

\* The certificate is written: roast_try_aggregate succeeds.
Won(k, p, ss) ==
  /\ done = FALSE /\ done' = TRUE
  /\ peer' = p /\ sessions' = WithState(ss, k, "COMPLETE")
  /\ Mint(ss[k].pkg)
  /\ UNCHANGED <<strikes, blacklist, nextId>>

\* All shares of slot k are in, and the first that fails is its culprit's.
Caught(k, p, ss) ==
  /\ done = FALSE
  /\ Contributors(ss[k]) = ss[k].members
  /\ Culprit(ss[k]) \in ss[k].members /\ ~ValidShare(ss[k], Culprit(ss[k]))
  /\ FailCulprit(k, Culprit(ss[k]), p, ss)

Settles(k, p, ss) ==
  \/ (ss[k].n < T \/ done) /\ Filed(p, ss)
  \/ Won(k, p, ss)
  \/ Caught(k, p, ss)

\* With cores that run nothing else can become of a share.
LEMMA ShareCases ==
  ASSUME CoordMayFail = FALSE, SystemInv, TbsInv, OnceInv,
         NEW s \in Signer, toC[s] # <<>>, NEW m, m = Head(toC[s]), m.type = "SIG_SHARE",
         OnSigShare(s, m)
  PROVE  \/ ShareSlot(s) = {} /\ UNCHANGED <<roastVars, certVars>>
         \/ \E k \in ShareSlot(s) :
              Settles(k, SetPhase(peer, {s}, "SHARED"), StoreShare(k, s, m))
  <1>1. Coherent(signer, toC, peer, sessions, nextId, toS) /\ done \in BOOLEAN
    BY DEF SystemInv, ListOK
  <1>2. ASSUME NEW k \in ShareSlot(s), NEW ss, ss = StoreShare(k, s, m), NEW p,
               IF ss[k].n >= T /\ ~done
                 THEN Aggregate(k, p, ss)
                 ELSE /\ peer' = p /\ sessions' = ss
                      /\ UNCHANGED <<strikes, blacklist, nextId, toS, certVars>>
        PROVE  Settles(k, p, ss)
    <2>1. /\ k \in DOMAIN sessions /\ SlotsOK(ss, nextId) /\ DOMAIN ss = DOMAIN sessions
          /\ ss[k].pkg = sessions[k].pkg
      BY <1>1, <1>2, ShareStored
    <2>2. SlotOK(ss[k], nextId) /\ ss[k].members \in SUBSET Signer /\ ss[k].n \in Nat
      BY <2>1 DEF SlotsOK, SlotOK
    <2>3. CASE ss[k].n < T \/ done
      <3>1. ~(ss[k].n >= T /\ ~done)
        BY <2>2, <2>3, GroupAssumption
      <3>2. Filed(p, ss)
        BY <1>2, <3>1 DEF Filed, certVars
      <3> QED
        BY <2>3, <3>2 DEF Settles
    <2>4. CASE ss[k].n >= T /\ ~done
      <3>1. PICK q : q = ss[k]
        OBVIOUS
      <3>2. PICK nid : nid = nextId
        OBVIOUS
      <3>3. Contributors(q) = q.members /\ SlotOK(q, nid)
        BY <2>2, <2>4, <3>1, <3>2, FullSlot
      <3>4. CASE (\A r \in q.members : ValidShare(q, r)) /\ Succeed(k, p, ss)
        <4>1. q.pkg.tbs \in AskedTbs
          BY <3>3, WholeSlotAsked
        <4>2. q.pkg.tbs = job.tbs
          <5>1. q.pkg.tbs \in {job.tbs, <<job.tbs[1], "altered">>}
            BY <2>1, <3>1 DEF TbsInv, OfJob
          <5>2. <<job.tbs[1], "altered">> \notin AskedTbs
            BY DEF AskedTbs
          <5> QED
            BY <4>1, <5>1, <5>2
        <4>3. MintAccepts(q.pkg)
          BY <4>2 DEF MintAccepts, OnceInv, FirstTbs
        <4>4. ~MintFails(q.pkg)
          BY <4>3 DEF MintFails
        <4>5. Won(k, p, ss)
          BY <1>1, <2>4, <3>1, <3>4, <4>4, Zenon DEF Succeed, Won, WithState
        <4> QED
          BY <4>5 DEF Settles
      <3>5. CASE /\ ~ \A r \in q.members : ValidShare(q, r)
                 /\ FailCulprit(k, Culprit(q), p, ss)
        <4>1. Culprit(q) \in q.members /\ ~ValidShare(q, Culprit(q))
          BY <2>2, <3>1, <3>5, CulpritFacts
        <4>2. Caught(k, p, ss)
          BY <1>1, <2>4, <3>1, <3>3, <3>5, <4>1 DEF Caught
        <4> QED
          BY <4>2 DEF Settles
      <3> QED
        BY <1>2, <2>4, <3>1, <3>3, <3>4, <3>5, Zenon DEF Aggregate
    <2> QED
      BY <2>2, <2>3, <2>4, GroupAssumption
  <1> QED
    BY <1>2, Zenon DEF OnSigShare

\* A step leaves the message alone, and signing is never undone.
LEMMA OnceStep ==
  ASSUME CoordMayFail = FALSE, SystemInv, TbsInv, OnceInv, [Next]_vars
  PROVE  (job' = job /\ done' = done) \/ MintStep
  <1>1. ASSUME NEW s \in Signer, CoordinatorStep(s)
        PROVE  (job' = job /\ done' = done) \/ MintStep
    <2>1. PICK m : m = Head(toC[s])
      OBVIOUS
    <2>2. toC[s] # <<>> /\ ProcessSignerFrame(s, m)
      BY <1>1, <2>1 DEF CoordinatorStep
    <2>3. CASE m.type = "SIG_SHARE" /\ OnSigShare(s, m)
      <3>1. ASSUME NEW k, NEW p, NEW ss, Settles(k, p, ss)
            PROVE  (job' = job /\ done' = done) \/ MintStep
        <4>1. CASE Filed(p, ss)
          BY <4>1 DEF Filed
        <4>2. CASE Won(k, p, ss)
          <5>1. PICK g : g = ss[k].pkg
            OBVIOUS
          <5> QED
            BY <4>2, <5>1 DEF Won, MintStep
        <4>3. CASE Caught(k, p, ss)
          BY <4>3 DEF Caught, FailCulprit
        <4> QED
          BY <3>1, <4>1, <4>2, <4>3 DEF Settles
      <3>2. CASE UNCHANGED <<roastVars, certVars>>
        BY <3>2 DEF certVars
      <3>3. PICK p : p = SetPhase(peer, {s}, "SHARED")
        OBVIOUS
      <3>4. ASSUME NEW k \in ShareSlot(s), Settles(k, p, StoreShare(k, s, m))
            PROVE  (job' = job /\ done' = done) \/ MintStep
        <4>1. PICK ss : ss = StoreShare(k, s, m)
          OBVIOUS
        <4> QED
          BY <3>1, <3>4, <4>1
      <3> QED
        BY <2>1, <2>2, <2>3, <3>2, <3>3, <3>4, ShareCases
    <2> QED
      BY <2>2, <2>3 DEF ProcessSignerFrame, OnShareLoadFail, OnCommit, OnClosed, certVars
  <1>2. CASE NextCert
    BY <1>2 DEF NextCert, OnceInv
  <1> QED
    BY <1>1, <1>2 DEF Next, SignerStep, Connect, Register, Crash, Timeout, Expire, LoopTop,
                      Exit, Finished, vars, coordVars, certVars

\* OnceInv is inductive.
LEMMA OnceInvNext ==
  ASSUME CoordMayFail = FALSE, SystemInv, TbsInv, OnceInv, [Next]_vars
  PROVE  OnceInv'
  <1>1. CASE job' = job /\ done' = done
    BY <1>1 DEF OnceInv, FirstTbs
  <1>2. CASE MintStep
    <2>1. PICK j \in Job : j = job
      BY DEF SystemInv, CertsOK
    <2>2. PICK pkg : Mint(pkg)
      BY <1>2 DEF MintStep
    <2>3. job' = [j EXCEPT !.toMint = (j.toMint + CounterMod - 1) % CounterMod]
      BY <2>1, <2>2 DEF Mint
    <2>4. j.toMint = 1 /\ 1 \in 1..(CounterMod - 1)
      <3>1. j.toMint = 1
        BY <1>2, <2>1 DEF MintStep, OnceInv
      <3>2. j.toMint \in 0..(CounterMod - 1)
        BY DEF Job
      <3> QED
        BY <3>1, <3>2, CoordinatorAssumption
    <2>5. (j.toMint + CounterMod - 1) % CounterMod = 0
      BY <2>4, Decrement, CoordinatorAssumption
    <2>6. job'.toMint = 0 /\ job'.tbs = j.tbs /\ job'.template = j.template
          /\ job'.replace = j.replace
      BY <2>3, <2>5 DEF Job
    <2>7. done'
      BY <1>2 DEF MintStep
    <2> QED
      BY <2>1, <2>6, <2>7 DEF OnceInv, FirstTbs
  <1> QED
    BY <1>1, <1>2, OnceStep

-----------------------------------------------------------------------------
(* One signer s: since when it is connected (a), its globals r, its entry p*)
(* in the coordinator's table, the frames u and d under way from and to it,*)
(* and the slots ss.                                                       *)

\* The signature stored or sent with a commitment is its owner's, over the
\* message of the certificate, and the signer is asked about nothing else.
Vouched(s, e) == e.sig = Attestation(s, FirstTbs, e.commit)

Genuine(s, p, u, d) ==
  /\ p.commit # NoCommit => Vouched(s, p)
  /\ \A f \in Range(u) : f.type = "COMMIT" => Vouched(s, f)
  /\ \A f \in Range(d) : f.type = "SIGN_REQ" => f.tbs = FirstTbs

\* The slots that await the share of s.
LiveIn(s, ss) == {k \in DOMAIN ss : ss[k].state = "AWAITING" /\ s \in ss[k].members}

\* Between two sessions: precomputed nonces are there to be offered.
Rested(r) ==
  /\ r.up = TRUE /\ r.t = T
  /\ r.pre => r.nonces = r.commit /\ r.commit # NoCommit

\* Committed to the message in hand: the nonces are kept for the session.
Ready(r) ==
  /\ r.up = TRUE /\ r.t = T /\ r.key = TRUE /\ r.pre = FALSE
  /\ r.state = "SIGNING" /\ r.tbs = FirstTbs
  /\ r.nonces = r.commit /\ r.commit # NoCommit

\* The stages of a signer that is prompt, has its key and no fault.  In each
\* of them at most one frame asks something of one of the two sides, and it is
\* one that this side will answer.
Absent(r, p, u, d) ==
  r.up = FALSE /\ p.phase = "INIT" /\ u = <<>> /\ d = <<>>

Asked(r, p, u, d) ==
  /\ Rested(r) /\ p.phase = "INIT" /\ u = <<>>
  /\ d = <<SignReq(FirstTbs)>> \/ d = <<HelloAck("S"), SignReq(FirstTbs)>>

Offering(s, r, p, u, d) ==
  /\ Ready(r) /\ p.phase = "INIT" /\ d = <<>>
  /\ u = <<Commit(r.commit, Attestation(s, FirstTbs, r.commit))>>

Waiting(r, p, u, d) ==
  /\ Ready(r) /\ p.phase = "COMMITTED" /\ p.commit = r.commit
  /\ u = <<>> /\ d = <<>>

Called(s, r, p, u, d, q) ==
  /\ Ready(r) /\ p.phase = "IN_SESSION" /\ u = <<>>
  /\ q.shares[s] = NoShare
  /\ \E b : /\ d = <<RelayCommit(b)>>
            /\ AcceptsBundle(s, r, b) /\ q.pkg = SigningPackage(b)

Answering(s, r, p, u, d, q) ==
  /\ Rested(r) /\ p.phase = "IN_SESSION" /\ d = <<>>
  /\ q.shares[s] = NoShare
  /\ \E c : /\ u = <<SigShare(Share(s, c, q.pkg, TRUE))>>
            /\ <<s, c>> \in q.pkg.commits

Shared(s, r, p, u, d, q) ==
  /\ Rested(r) /\ p.phase = "SHARED" /\ u = <<>> /\ d = <<>>
  /\ ValidShare(q, s)

\* In no session that awaits its share: away, asked, offering or waiting.
Free(s, a, r, p, u, d) ==
  \/ a = 0 /\ Absent(r, p, u, d)
  \/ /\ a # 0
     /\ Asked(r, p, u, d) \/ Offering(s, r, p, u, d) \/ Waiting(r, p, u, d)

\* In the session of slot q: called, answering, or its share is in.
Engaged(s, r, p, u, d, q) ==
  /\ q.id = p.session
  /\ Called(s, r, p, u, d, q) \/ Answering(s, r, p, u, d, q) \/ Shared(s, r, p, u, d, q)

Stage(s, a, r, p, u, d, ss) ==
  \/ LiveIn(s, ss) = {} /\ Free(s, a, r, p, u, d)
  \/ /\ a # 0
     /\ \E k \in DOMAIN ss : LiveIn(s, ss) = {k} /\ Engaged(s, r, p, u, d, ss[k])

\* What the table and the streams hold is genuine, and every honest signer is
\* in one of the stages.
Orderly(sg, up, p, ss, down, arr) ==
  \A s \in Signer :
    /\ Genuine(s, p[s], up[s], down[s])
    /\ s \in Honest => Stage(s, arr[s], sg[s], p[s], up[s], down[s], ss)

\* The inductive invariant: the order holds until the certificate is signed,
\* after which nobody is penalised any more.
PenaltyInv ==
  /\ HonestNeverPenalised
  /\ ~done => Orderly(signer, toC, peer, sessions, toS, arrived)

\* What Honest says of a signer.
LEMMA HonestFacts ==
  ASSUME NEW s \in Honest
  PROVE  s \in Signer /\ Fault[s] = "none" /\ s \in KeyHolder /\ s \notin Crashers
  BY DEF Honest

\* For s the slots x are as good as ss.
SameFor(s, ss, x) ==
  /\ LiveIn(s, x) = LiveIn(s, ss)
  /\ \A k \in LiveIn(s, ss) :
       x[k].id = ss[k].id /\ x[k].pkg = ss[k].pkg /\ x[k].shares[s] = ss[k].shares[s]

\* A stage depends on no slot but the one the signer is in.
LEMMA StageSame ==
  ASSUME NEW s, NEW a, NEW r, NEW p, NEW u, NEW d, NEW ss, NEW x,
         Stage(s, a, r, p, u, d, ss), SameFor(s, ss, x)
  PROVE  Stage(s, a, r, p, u, d, x)
  <1>1. CASE LiveIn(s, ss) = {} /\ Free(s, a, r, p, u, d)
    BY <1>1 DEF Stage, SameFor
  <1>2. ASSUME a # 0, NEW k \in DOMAIN ss, LiveIn(s, ss) = {k},
               Engaged(s, r, p, u, d, ss[k])
        PROVE  Stage(s, a, r, p, u, d, x)
    <2>1. LiveIn(s, x) = {k} /\ x[k].id = ss[k].id /\ x[k].pkg = ss[k].pkg
          /\ x[k].shares[s] = ss[k].shares[s]
      BY <1>2 DEF SameFor
    <2>2. k \in DOMAIN x
      <3>1. k \in LiveIn(s, x)
        BY <2>1
      <3> QED
        BY <3>1 DEF LiveIn
    <2>3. PICK q : q = ss[k]
      OBVIOUS
    <2>4. PICK z : z = x[k]
      OBVIOUS
    <2>5. Engaged(s, r, p, u, d, q) /\ z.id = q.id /\ z.pkg = q.pkg
          /\ z.shares[s] = q.shares[s]
      BY <1>2, <2>1, <2>3, <2>4
    <2>6. Engaged(s, r, p, u, d, z)
      BY <2>5 DEF Engaged, Called, Answering, Shared, ValidShare
    <2> QED
      BY <1>2, <2>1, <2>2, <2>4, <2>6 DEF Stage
  <1> QED
    BY <1>1, <1>2 DEF Stage

\* What the frames of a short stream are.
LEMMA FewFrames ==
  ASSUME NEW x, NEW y
  PROVE  /\ <<x>> # <<>> /\ Head(<<x>>) = x /\ Tail(<<x>>) = <<>>
         /\ <<x, y>> # <<>> /\ Head(<<x, y>>) = x /\ Tail(<<x, y>>) = <<y>>
         /\ Append(<<>>, x) = <<x>>
  OBVIOUS

-----------------------------------------------------------------------------
(* Forming a session.                                                      *)

\* chosen[] names nobody twice.
LEMMA SelectionDistinct ==
  ASSUME arrived \in [Signer -> Nat], NEW p, NEW st, NEW bl,
         NEW c \in [1..T -> Connected], IsSelection(c, p, st, bl),
         NEW i \in 1..T, NEW j \in 1..T, i # j
  PROVE  c[i] # c[j]
  <1>1. ASSUME NEW h \in 1..T, NEW l \in 1..T, h < l PROVE c[h] # c[l]
    <2>1. Preferred(c[h], c[l], st)
      BY <1>1 DEF IsSelection
    <2>2. arrived[c[h]] \in Nat
      BY DEF Connected
    <2> QED
      BY <2>1, <2>2 DEF Preferred, Ahead
  <1>2. i < j \/ j < i
    BY GroupAssumption
  <1> QED
    BY <1>1, <1>2

\* Every member of a session of vouched commitments accepts its bundle.
LEMMA BundleAccepted ==
  ASSUME job.tbs = FirstTbs, job.replace = FALSE, NEW p, NEW c,
         \A i, j \in 1..T : i # j => c[i] # c[j],
         \A i \in 1..T : Vouched(c[i], p[c[i]]),
         NEW s, NEW h \in 1..T, c[h] = s, NEW r, Ready(r), p[s].commit = r.commit,
         NEW b, b = SessionBundle(c, p)
  PROVE  AcceptsBundle(s, r, b)
  <1>1. PICK es : es = [i \in 1..T |-> Entry(c[i], p[c[i]].commit, p[c[i]].sig)]
    OBVIOUS
  <1>2. b.tbs = FirstTbs /\ b.entries = es
    BY <1>1 DEF SessionBundle, Bundle
  <1>3. T \in Nat
    BY GroupAssumption
  <1>4. DOMAIN es = 1..T /\ Len(es) = T
    <2>1. PICK S : S = {es[i] : i \in 1..T}
      OBVIOUS
    <2>2. es \in [1..T -> S]
      BY <1>1, <2>1
    <2> QED
      BY <1>3, <2>2
  <1>5. \A i \in 1..T : /\ es[i].id = c[i] /\ es[i].commit = p[c[i]].commit
                        /\ es[i].sig = p[c[i]].sig
    BY <1>1 DEF Entry
  <1>6. \A i \in 1..T : AuthenticEntry(s, b, es[i])
    BY <1>2, <1>5 DEF AuthenticEntry, Vouched
  <1>7. r.t = T /\ r.tbs = FirstTbs
    BY DEF Ready
  <1> QED
    BY <1>2, <1>4, <1>5, <1>6, <1>7 DEF AcceptsBundle

\* A signer that is chosen was waiting, and is called.
LEMMA StageEnters ==
  ASSUME NEW s, NEW a, NEW r, NEW p, NEW u, NEW d, NEW ss,
         Stage(s, a, r, p, u, d, ss), p.phase = "COMMITTED",
         NEW y, y.phase = "IN_SESSION",
         NEW b, Ready(r) /\ p.commit = r.commit => AcceptsBundle(s, r, b),
         NEW x, NEW k \in DOMAIN x, LiveIn(s, x) = LiveIn(s, ss) \cup {k},
         x[k].id = y.session, x[k].pkg = SigningPackage(b), x[k].shares[s] = NoShare
  PROVE  Stage(s, a, r, y, u, Append(d, RelayCommit(b)), x)
  <1>1. LiveIn(s, ss) = {} /\ a # 0 /\ Waiting(r, p, u, d)
    BY DEF Stage, Free, Engaged, Absent, Asked, Offering, Called, Answering, Shared
  <1>2. u = <<>> /\ d = <<>> /\ Ready(r) /\ p.commit = r.commit
    BY <1>1 DEF Waiting
  <1>3. Append(d, RelayCommit(b)) = <<RelayCommit(b)>>
    BY <1>2, FewFrames
  <1>4. LiveIn(s, x) = {k}
    BY <1>1
  <1>5. PICK q : q = x[k]
    OBVIOUS
  <1>6. Engaged(s, r, y, u, Append(d, RelayCommit(b)), q)
    BY <1>2, <1>3, <1>5 DEF Engaged, Called
  <1> QED
    BY <1>1, <1>4, <1>5, <1>6 DEF Stage

\* Frames that ask nothing about a message, or about the right one.
Asks(f) == f.type = "SIGN_REQ" => f.tbs = FirstTbs

\* Another frame that asks for the first message.
LEMMA GenuineSend ==
  ASSUME NEW s, NEW p, NEW u, NEW d, Genuine(s, p, u, d), NEW S, d \in Seq(S),
         NEW f, Asks(f)
  PROVE  Genuine(s, p, u, Append(d, f))
  <1>1. PICK R : R = S \cup {f}
    OBVIOUS
  <1>2. d \in Seq(R) /\ f \in R
    BY <1>1
  <1>3. Range(Append(d, f)) = Range(d) \cup {f}
    BY <1>2, FramesOf
  <1> QED
    BY <1>3 DEF Genuine, Asks

\* An entry whose commitment is dropped, or kept with its signature.
LEMMA GenuineEntry ==
  ASSUME NEW s, NEW p, NEW u, NEW d, Genuine(s, p, u, d), NEW y,
         y.commit = NoCommit \/ (y.commit = p.commit /\ y.sig = p.sig)
  PROVE  Genuine(s, y, u, d)
  BY DEF Genuine, Vouched

\* The members of a new session are called; the others stay where they are.
LEMMA OrderlyForm ==
  ASSUME job \in Job, job.tbs = FirstTbs, job.replace = FALSE,
         arrived \in [Signer -> Nat],
         NEW sg, NEW up, NEW p, NEW ss, NEW q, NEW arr,
         Coherent(sg, up, p, ss, nextId, q), Orderly(sg, up, p, ss, q, arr),
         NEW st, NEW bl, NEW c \in [1..T -> Connected], IsSelection(c, p, st, bl)
  PROVE  Orderly(sg, up, EnterSession(c, p), Append(ss, NewSession(c, p)),
                 SendTo(q, Chosen(c), RelayCommit(SessionBundle(c, p))), arr)
  <1>1. nextId \in Nat \ {0} /\ TableOK(p, nextId) /\ SlotsOK(ss, nextId)
    BY DEF Coherent
  <1>2. \A s \in Signer : p[s].phase = "SUSPECT" => p[s].commit = NoCommit
    BY DEF Coherent, Link, PhaseFits
  <1>3. PICK M : M = Chosen(c)
    OBVIOUS
  <1>4. /\ \A s \in M : s \in Signer /\ p[s].phase = "COMMITTED" /\ p[s].commit # NoCommit
        /\ M \in SUBSET Signer /\ Cardinality(M) = T
    BY <1>2, <1>3, SelectionFacts
  <1>5. \A i \in 1..T : c[i] \in Signer /\ p[c[i]].commit # NoCommit
    BY <1>3, <1>4 DEF Chosen
  <1>6. PICK b : b = SessionBundle(c, p)
    OBVIOUS
  <1>7. PICK g : g = RelayCommit(b)
    OBVIOUS
  <1>8. PICK z : z = NewSession(c, p)
    OBVIOUS
  <1>9. /\ z.id = nextId /\ z.members = M /\ z.state = "AWAITING"
        /\ z.pkg = SigningPackage(b) /\ \A s \in M : z.shares[s] = NoShare
    BY <1>3, <1>6, <1>8 DEF NewSession, Chosen
  <1>10. PICK x : x = Append(ss, z)
    OBVIOUS
  <1>11. PICK k : k = Len(ss) + 1
    OBVIOUS
  <1>12. /\ DOMAIN x = DOMAIN ss \cup {k} /\ x[k] = z
         /\ \A j \in DOMAIN ss : x[j] = ss[j]
         /\ k \notin DOMAIN ss
    <2>1. /\ Len(ss) \in Nat /\ DOMAIN ss = 1..Len(ss)
          /\ DOMAIN x = DOMAIN ss \cup {Len(ss) + 1} /\ x[Len(ss) + 1] = z
          /\ \A j \in DOMAIN ss : x[j] = ss[j]
      BY <1>1, <1>10, SlotAppended DEF SlotsOK
    <2> QED
      BY <1>11, <2>1
  <1>13. PICK y : y = EnterSession(c, p)
    OBVIOUS
  <1>14. ASSUME NEW s \in Signer
         PROVE  /\ s \notin M => y[s] = p[s]
                /\ s \in M => /\ y[s].phase = "IN_SESSION" /\ y[s].session = nextId
                              /\ y[s].commit = p[s].commit /\ y[s].sig = p[s].sig
    <2>1. PICK e \in PeerRecord : e = p[s]
      BY <1>1 DEF TableOK
    <2>2. PICK w : w = [e EXCEPT !.phase = "IN_SESSION", !.session = nextId]
      OBVIOUS
    <2>3. w.phase = "IN_SESSION" /\ w.session = nextId /\ w.commit = e.commit /\ w.sig = e.sig
      BY <2>2 DEF PeerRecord
    <2>4. y[s] = IF s \in M THEN w ELSE e
      BY <1>3, <1>13, <2>1, <2>2 DEF EnterSession, Chosen
    <2> QED
      BY <2>1, <2>3, <2>4
  <1>15. PICK d : d = SendTo(q, M, g)
    OBVIOUS
  <1>16. \A s \in Signer : d[s] = IF s \in M THEN Append(q[s], g) ELSE q[s]
    BY <1>15 DEF SendTo
  <1>17. ASSUME NEW s \in Signer
         PROVE  LiveIn(s, x) = IF s \in M THEN LiveIn(s, ss) \cup {k} ELSE LiveIn(s, ss)
    BY <1>9, <1>12 DEF LiveIn
  <1>18. Asks(g)
    BY <1>7 DEF Asks, RelayCommit
  <1>19. ASSUME NEW s \in Signer PROVE Genuine(s, y[s], up[s], d[s])
    <2>1. Genuine(s, p[s], up[s], q[s]) /\ q[s] \in Seq(DownFrame)
      BY CoherentFacts DEF Orderly
    <2>2. Genuine(s, y[s], up[s], q[s])
      <3>1. y[s].commit = p[s].commit /\ y[s].sig = p[s].sig
        BY <1>14
      <3> QED
        BY <2>1, <3>1, GenuineEntry
    <2>3. Genuine(s, y[s], up[s], Append(q[s], g))
      BY <1>18, <2>1, <2>2, GenuineSend
    <2> QED
      BY <1>16, <2>2, <2>3
  <1>20. ASSUME NEW s \in Honest
         PROVE  Stage(s, arr[s], sg[s], y[s], up[s], d[s], x)
    <2>1. s \in Signer /\ Stage(s, arr[s], sg[s], p[s], up[s], q[s], ss)
      BY HonestFacts DEF Orderly
    <2>2. CASE s \notin M
      <3>1. SameFor(s, ss, x)
        <4>1. LiveIn(s, x) = LiveIn(s, ss)
          BY <1>17, <2>1, <2>2
        <4>2. \A j \in LiveIn(s, ss) : x[j] = ss[j]
          BY <1>12 DEF LiveIn
        <4> QED
          BY <4>1, <4>2 DEF SameFor
      <3>2. Stage(s, arr[s], sg[s], p[s], up[s], q[s], x)
        BY <2>1, <3>1, StageSame
      <3> QED
        BY <1>14, <1>16, <2>1, <2>2, <3>2
    <2>3. CASE s \in M
      <3>1. PICK r : r = sg[s]
        OBVIOUS
      <3>2. Ready(r) /\ p[s].commit = r.commit => AcceptsBundle(s, r, b)
        <4>1. PICK h \in 1..T : c[h] = s
          BY <1>3, <2>3 DEF Chosen
        <4>2. \A i, j \in 1..T : i # j => c[i] # c[j]
          BY SelectionDistinct
        <4>3. \A i \in 1..T : Vouched(c[i], p[c[i]])
          BY <1>5 DEF Orderly, Genuine
        <4> QED
          BY <1>6, <4>1, <4>2, <4>3, BundleAccepted
      <3>3. /\ k \in DOMAIN x /\ LiveIn(s, x) = LiveIn(s, ss) \cup {k}
            /\ x[k].id = y[s].session /\ x[k].pkg = SigningPackage(b)
            /\ x[k].shares[s] = NoShare /\ y[s].phase = "IN_SESSION"
        BY <1>9, <1>12, <1>14, <1>17, <2>1, <2>3
      <3>4. p[s].phase = "COMMITTED" /\ d[s] = Append(q[s], RelayCommit(b))
        BY <1>4, <1>7, <1>16, <2>1, <2>3
      <3>5. PICK e : e = p[s]
        OBVIOUS
      <3>6. PICK f : f = y[s]
        OBVIOUS
      <3>7. Stage(s, arr[s], r, f, up[s], Append(q[s], RelayCommit(b)), x)
        <4>1. Stage(s, arr[s], r, e, up[s], q[s], ss) /\ e.phase = "COMMITTED"
          BY <2>1, <3>1, <3>4, <3>5
        <4>2. Ready(r) /\ e.commit = r.commit => AcceptsBundle(s, r, b)
          BY <3>2, <3>5
        <4>3. f.phase = "IN_SESSION" /\ x[k].id = f.session
          BY <3>3, <3>6
        <4> QED
          BY <3>3, <4>1, <4>2, <4>3, StageEnters
      <3> QED
        BY <3>1, <3>4, <3>6, <3>7
    <2> QED
      BY <2>2, <2>3
  <1>21. Orderly(sg, up, y, x, d, arr)
    BY <1>19, <1>20 DEF Orderly
  <1> QED
    BY <1>3, <1>6, <1>7, <1>8, <1>10, <1>13, <1>15, <1>21

\* roast_try_form_session keeps the order, whether it forms a session or not.
LEMMA OrderlyTryForm ==
  ASSUME job \in Job, job.tbs = FirstTbs, job.replace = FALSE,
         arrived \in [Signer -> Nat],
         NEW sg, NEW up, NEW p, NEW ss, NEW q, NEW arr,
         Coherent(sg, up, p, ss, nextId, q), Orderly(sg, up, p, ss, q, arr),
         NEW st, NEW bl, TryForm(p, st, bl, ss, q)
  PROVE  Orderly(sg, up, peer', sessions', toS', arr)
  <1>1. CASE peer' = p /\ sessions' = ss /\ toS' = q
    BY <1>1
  <1>2. ASSUME NEW c \in {x \in [1..T -> Connected] : IsSelection(x, p, st, bl)},
               peer' = EnterSession(c, p), sessions' = Append(ss, NewSession(c, p)),
               toS' = SendTo(q, {c[i] : i \in 1..T}, RelayCommit(SessionBundle(c, p)))
        PROVE  Orderly(sg, up, peer', sessions', toS', arr)
    <2>1. toS' = SendTo(q, Chosen(c), RelayCommit(SessionBundle(c, p)))
      BY <1>2 DEF Chosen
    <2>2. c \in [1..T -> Connected] /\ IsSelection(c, p, st, bl)
      OBVIOUS
    <2>3. Orderly(sg, up, EnterSession(c, p), Append(ss, NewSession(c, p)),
                  SendTo(q, Chosen(c), RelayCommit(SessionBundle(c, p))), arr)
      BY <2>2, OrderlyForm
    <2> QED
      BY <1>2, <2>1, <2>3
  <1> QED
    BY <1>1, <1>2, Zenon DEF TryForm

-----------------------------------------------------------------------------
(* Steps of a signer.                                                      *)

\* A handler queues at most one frame, and a commitment with the signature
\* over it and the message of the request.
LEMMA SignerAnswers ==
  ASSUME NEW s \in Signer, signer[s] \in SignerRecord, NEW m, ProcessCoordFrame(s, m)
  PROVE  \/ Die(s)
         \/ \E r : Return(s, r)
         \/ \E r, f : /\ Reply(s, r, f)
                      /\ f.type = "COMMIT" =>
                           m.type = "SIGN_REQ" /\ f.sig = Attestation(s, m.tbs, f.commit)
  <1> DEFINE Goal == \/ Die(s)
                     \/ \E r : Return(s, r)
                     \/ \E r, f : /\ Reply(s, r, f)
                                  /\ f.type = "COMMIT" =>
                                       /\ m.type = "SIGN_REQ"
                                       /\ f.sig = Attestation(s, m.tbs, f.commit)
  <1>1. ASSUME NEW r, Return(s, r) PROVE Goal
    BY <1>1
  <1>2. ASSUME NEW r, NEW f, f.type # "COMMIT", Reply(s, r, f) PROVE Goal
    BY <1>2
  <1>3. PICK g \in SignerRecord : g = signer[s]
    OBVIOUS
  <1>4. ShareLoadFail.type # "COMMIT"
    BY DEF ShareLoadFail
  <1>5. CASE OnHelloAck(s, m)
    <2>1. \E r : Reply(s, r, ShareLoadFail) \/ Return(s, r)
      BY <1>5, Zenon DEF OnHelloAck
    <2> QED
      BY <1>1, <1>2, <1>4, <2>1
  <1>6. CASE m.type = "SIGN_REQ" /\ OnSignReq(s, m)
    <2>1. PICK r : r = [g EXCEPT !.key = TRUE, !.tbs = m.tbs, !.state = "SIGNING"]
      OBVIOUS
    <2>2. r.tbs = m.tbs
      BY <2>1 DEF SignerRecord
    <2>3. ASSUME NEW x, x.tbs = m.tbs, Offer(s, x) PROVE Goal
      <3>1. PICK f : f = Commit(x.commit, Attestation(s, x.tbs, x.commit))
        OBVIOUS
      <3>2. PICK y : y = [x EXCEPT !.pre = FALSE]
        OBVIOUS
      <3>3. Reply(s, y, f)
        BY <2>3, <3>1, <3>2, Zenon DEF Offer
      <3>4. f.sig = Attestation(s, m.tbs, f.commit)
        BY <2>3, <3>1 DEF Commit
      <3> QED
        BY <1>6, <3>3, <3>4
    <2>4. TryDraw(s, r, TRUE).tbs = r.tbs
      <3>1. r = [up |-> g.up, signMode |-> g.signMode, key |-> TRUE, t |-> g.t,
                 state |-> "SIGNING", nonces |-> g.nonces, commit |-> g.commit,
                 tbs |-> m.tbs, pre |-> g.pre, drawn |-> g.drawn]
        BY <2>1 DEF SignerRecord
      <3>2. r.key = TRUE
        BY <3>1
      <3>3. TryDraw(s, r, TRUE) = DrawNonces(s, r)
        BY <3>2 DEF TryDraw
      <3> QED
        BY <3>1, <3>3 DEF DrawNonces
    <2>5. \/ Die(s) \/ Return(s, signer[s]) \/ Reply(s, signer[s], ShareLoadFail)
          \/ Offer(s, r)
          \/ \E ok \in CoreOutcome :
               IF ok THEN Offer(s, TryDraw(s, r, ok)) ELSE Return(s, TryDraw(s, r, ok))
      BY <1>3, <1>6, <2>1, Zenon DEF OnSignReq
    <2>6. CASE Return(s, signer[s])
      BY <1>1, <1>3, <2>6
    <2>7. CASE Reply(s, signer[s], ShareLoadFail)
      BY <1>2, <1>3, <1>4, <2>7
    <2>8. ASSUME NEW ok \in CoreOutcome,
                 IF ok THEN Offer(s, TryDraw(s, r, ok)) ELSE Return(s, TryDraw(s, r, ok))
          PROVE  Goal
      <3>1. ok \in BOOLEAN
        BY SignerAssumption DEF CoreOutcome
      <3>2. CASE ok = TRUE
        <4>1. PICK x : x = TryDraw(s, r, TRUE)
          OBVIOUS
        <4>2. Offer(s, x)
          BY <2>8, <3>2, <4>1
        <4> QED
          BY <2>2, <2>3, <2>4, <4>1, <4>2
      <3>3. CASE ok = FALSE
        <4>1. PICK x : x = TryDraw(s, r, FALSE)
          OBVIOUS
        <4>2. Return(s, x)
          BY <2>8, <3>3, <4>1
        <4> QED
          BY <1>1, <4>2
      <3> QED
        BY <3>1, <3>2, <3>3
    <2> QED
      BY <2>2, <2>3, <2>5, <2>6, <2>7, <2>8
  <1>7. CASE OnRelayCommit(s, m)
    <2>1. \/ \E r : Return(s, r)
          \/ \E r, h : Reply(s, r, SigShare(h))
      BY <1>7, Zenon DEF OnRelayCommit
    <2>2. ASSUME NEW r, NEW h, Reply(s, r, SigShare(h)) PROVE Goal
      <3>1. PICK f : f = SigShare(h)
        OBVIOUS
      <3>2. f.type # "COMMIT"
        BY <3>1 DEF SigShare
      <3> QED
        BY <1>2, <2>2, <3>1, <3>2
    <2> QED
      BY <1>1, <2>1, <2>2
  <1>8. CASE OnCertOutput(s) \/ OnStartDkg(s, m) \/ OnStartRefresh(s, m) \/ OnDkgRound(s, m)
    <2>1. \E r : Return(s, r)
      BY <1>8, Zenon DEF OnCertOutput, OnStartDkg, OnStartRefresh, OnDkgRound
    <2> QED
      BY <2>1
  <1> QED
    BY <1>5, <1>6, <1>7, <1>8 DEF ProcessCoordFrame

\* What a step of signer s leaves of it, and of the others.
LEMMA PassEnds ==
  ASSUME CoreMayFail = FALSE, signer \in [Signer -> SignerRecord],
         toC \in [Signer -> Seq(UpFrame)], NEW s \in Signer, NEW r
  PROVE  /\ Return(s, r) =>
              signer'[s] = Precompute(s, r, TRUE) /\ toC'[s] = toC[s]
         /\ \A f : Reply(s, r, f) =>
              signer'[s] = Precompute(s, r, TRUE) /\ toC'[s] = Append(toC[s], f)
  <1>1. ASSUME EndOfPass(s, r) PROVE signer'[s] = Precompute(s, r, TRUE)
    <2>1. PICK x : x = Precompute(s, r, TRUE)
      OBVIOUS
    <2>2. signer' = [signer EXCEPT ![s] = x]
      BY <1>1, <2>1 DEF EndOfPass, CoreOutcome
    <2> QED
      BY <2>1, <2>2
  <1> QED
    BY <1>1 DEF Return, Reply

\* A signer that handles a frame changes nothing of the others.
LEMMA OthersStill ==
  ASSUME signer \in [Signer -> SignerRecord], toC \in [Signer -> Seq(UpFrame)],
         NEW s \in Signer, Die(s) \/ (\E r : Return(s, r)) \/ (\E r, f : Reply(s, r, f)),
         NEW x \in Signer, x # s
  PROVE  signer'[x] = signer[x] /\ toC'[x] = toC[x]
  <1>1. ASSUME NEW r, EndOfPass(s, r) PROVE signer'[x] = signer[x]
    BY <1>1 DEF EndOfPass
  <1>2. CASE Die(s)
    BY <1>2 DEF Die
  <1>3. ASSUME NEW r, Return(s, r) PROVE signer'[x] = signer[x] /\ toC'[x] = toC[x]
    BY <1>1, <1>3 DEF Return
  <1>4. ASSUME NEW r, NEW f, Reply(s, r, f)
        PROVE  signer'[x] = signer[x] /\ toC'[x] = toC[x]
    BY <1>1, <1>4 DEF Reply
  <1> QED
    BY <1>2, <1>3, <1>4

\* The streams of s stay genuine when it handles a frame or dies.
LEMMA GenuineStep ==
  ASSUME signer \in [Signer -> SignerRecord], toC \in [Signer -> Seq(UpFrame)],
         toS \in [Signer -> Seq(DownFrame)], NEW s \in Signer,
         Genuine(s, peer[s], toC[s], toS[s]),
         \/ Die(s)
         \/ \E r : Return(s, r)
         \/ \E r, f : Reply(s, r, f) /\ (f.type = "COMMIT" => Vouched(s, f)),
         (toS[s] # <<>> /\ toS'[s] = Tail(toS[s])) \/ toS'[s] = <<>>
  PROVE  Genuine(s, peer[s], toC'[s], toS'[s])
  <1>1. Range(toS'[s]) \in SUBSET Range(toS[s])
    <2>1. CASE toS'[s] = <<>>
      BY <2>1, FramesOf
    <2>2. CASE toS[s] # <<>> /\ toS'[s] = Tail(toS[s])
      <3>1. PICK d \in Seq(DownFrame) : d = toS[s]
        OBVIOUS
      <3>2. PICK f \in DownFrame : f = Head(d)
        BY <2>2, <3>1
      <3> QED
        BY <2>2, <3>1, <3>2, FramesOf
    <2> QED
      BY <2>1, <2>2
  <1>2. \A f \in Range(toC'[s]) : f \in Range(toC[s]) \/ (f.type = "COMMIT" => Vouched(s, f))
    <2>1. PICK u \in Seq(UpFrame) : u = toC[s]
      OBVIOUS
    <2>2. ASSUME NEW v, NEW S, v \in Seq(S), NEW f, f.type = "COMMIT" => Vouched(s, f),
                 Range(v) \in SUBSET Range(u), toC'[s] = Append(v, f)
          PROVE  \A h \in Range(toC'[s]) :
                   h \in Range(u) \/ (h.type = "COMMIT" => Vouched(s, h))
      <3>1. PICK R : R = S \cup {f}
        OBVIOUS
      <3>2. v \in Seq(R) /\ f \in R
        BY <2>2, <3>1
      <3>3. Range(Append(v, f)) = Range(v) \cup {f}
        BY <3>2, FramesOf
      <3> QED
        BY <2>2, <3>3
    <2>3. CASE Die(s)
      <3>1. PICK k \in 0..Len(u) : toC' = [toC EXCEPT ![s] = Append(SubSeq(@, 1, k), Closed)]
        BY <2>1, <2>3 DEF Die
      <3>2. PICK v : v = SubSeq(u, 1, k)
        OBVIOUS
      <3>3. v \in Seq(UpFrame) /\ Range(v) \in SUBSET Range(u)
        BY <3>2, FramesPrefix
      <3>4. PICK f : f = Closed
        OBVIOUS
      <3>5. toC'[s] = Append(v, f) /\ f.type # "COMMIT"
        BY <2>1, <3>1, <3>2, <3>4 DEF Closed
      <3> QED
        BY <2>1, <2>2, <3>3, <3>5
    <2>4. CASE \E r : Return(s, r)
      BY <2>4 DEF Return
    <2>5. ASSUME NEW r, NEW f, Reply(s, r, f), f.type = "COMMIT" => Vouched(s, f)
          PROVE  \A h \in Range(toC'[s]) :
                   h \in Range(u) \/ (h.type = "COMMIT" => Vouched(s, h))
      <3>1. toC'[s] = Append(u, f)
        BY <2>1, <2>5 DEF Reply
      <3> QED
        BY <2>2, <2>5, <3>1
    <2> QED
      BY <2>1, <2>3, <2>4, <2>5
  <1> QED
    BY <1>1, <1>2 DEF Genuine

\* The precomputation leaves a signer rested, and one that is ready alone.
LEMMA RestedPass ==
  ASSUME NEW s \in Signer, NEW r \in SignerRecord, NEW x, x = Precompute(s, r, TRUE)
  PROVE  /\ Rested(r) => Rested(x)
         /\ Ready(r) => x = r
  <1>1. CASE ~(r.signMode /\ r.state \in {"IDLE", "COMPLETE"} /\ ~r.pre)
    BY <1>1 DEF Precompute
  <1>2. CASE /\ r.signMode /\ r.state \in {"IDLE", "COMPLETE"} /\ ~r.pre
             /\ r.key
    <2>1. PICK c : c = <<s, r.drawn + 1>>
      OBVIOUS
    <2>2. x = [r EXCEPT !.nonces = c, !.commit = c, !.drawn = r.drawn + 1, !.pre = TRUE]
      BY <1>2, <2>1 DEF Precompute, TryDraw, DrawNonces, SignerRecord
    <2>3. x.up = r.up /\ x.t = r.t /\ x.nonces = c /\ x.commit = c
      BY <2>2 DEF SignerRecord
    <2>4. c # NoCommit
      BY <2>1, GroupAssumption DEF NoCommit, Signer
    <2> QED
      BY <1>2, <2>3, <2>4 DEF Rested, Ready
  <1>3. CASE /\ r.signMode /\ r.state \in {"IDLE", "COMPLETE"} /\ ~r.pre
             /\ ~r.key
    <2>1. x = [r EXCEPT !.nonces = NoCommit, !.pre = FALSE]
      BY <1>3 DEF Precompute, TryDraw, ZeroNonces, SignerRecord
    <2>2. x.up = r.up /\ x.t = r.t /\ x.pre = FALSE
      BY <2>1 DEF SignerRecord
    <2> QED
      BY <1>3, <2>2 DEF Rested, Ready
  <1> QED
    BY <1>1, <1>2, <1>3

\* load_key_material finds the key.
LEMMA HelloAnswered ==
  ASSUME CoreMayFail = FALSE, signer \in [Signer -> SignerRecord],
         toC \in [Signer -> Seq(UpFrame)], NEW s \in Honest, Rested(signer[s]),
         ProcessCoordFrame(s, HelloAck("S"))
  PROVE  Rested(signer'[s]) /\ toC'[s] = toC[s]
  <1>1. s \in Signer /\ s \in KeyHolder
    BY HonestFacts
  <1>2. PICK g \in SignerRecord : g = signer[s]
    BY <1>1
  <1>3. PICK m : m = HelloAck("S")
    OBVIOUS
  <1>4. m.type = "HELLO_ACK" /\ m.mode = "S"
    BY <1>3 DEF HelloAck
  <1>5. OnHelloAck(s, m)
    BY <1>3, <1>4 DEF ProcessCoordFrame
  <1>6. PICK r : r = [g EXCEPT !.signMode = TRUE, !.key = TRUE]
    OBVIOUS
  <1>7. Return(s, r)
    <2>1. [signer[s] EXCEPT !.signMode = (m.mode = "S"),
                            !.key = @ \/ (m.mode \in {"S", "R"} /\ s \in KeyHolder)] = r
      BY <1>1, <1>2, <1>4, <1>6 DEF SignerRecord
    <2> QED
      BY <1>1, <1>4, <1>5, <2>1 DEF OnHelloAck
  <1>8. r \in SignerRecord /\ r.up = g.up /\ r.t = g.t /\ r.pre = g.pre
        /\ r.nonces = g.nonces /\ r.commit = g.commit
    BY <1>6 DEF SignerRecord
  <1>9. Rested(r)
    BY <1>2, <1>8 DEF Rested
  <1>10. PICK x : x = Precompute(s, r, TRUE)
    OBVIOUS
  <1>11. Rested(x)
    BY <1>1, <1>8, <1>9, <1>10, RestedPass
  <1> QED
    BY <1>1, <1>7, <1>10, <1>11, PassEnds

\* The nonces drawn ahead, or drawn now, are offered and kept.
LEMMA RequestAnswered ==
  ASSUME CoreMayFail = FALSE, signer \in [Signer -> SignerRecord],
         toC \in [Signer -> Seq(UpFrame)], NEW s \in Honest, Rested(signer[s]),
         ProcessCoordFrame(s, SignReq(FirstTbs))
  PROVE  LET x == signer'[s]
         IN  /\ Ready(x)
             /\ toC'[s] = Append(toC[s], Commit(x.commit, Attestation(s, FirstTbs, x.commit)))
  <1>1. s \in Signer /\ s \in KeyHolder /\ Fault[s] = "none"
    BY HonestFacts
  <1>2. PICK g \in SignerRecord : g = signer[s]
    BY <1>1
  <1>3. PICK m : m = SignReq(FirstTbs)
    OBVIOUS
  <1>4. m.type = "SIGN_REQ" /\ m.tbs = FirstTbs
    BY <1>3 DEF SignReq
  <1>5. OnSignReq(s, m)
    BY <1>3, <1>4 DEF ProcessCoordFrame
  <1>6. PICK r : r = [g EXCEPT !.key = TRUE, !.tbs = FirstTbs, !.state = "SIGNING"]
    OBVIOUS
  <1>7. /\ r \in SignerRecord /\ r.up = g.up /\ r.t = g.t /\ r.pre = g.pre
        /\ r.nonces = g.nonces /\ r.commit = g.commit /\ r.key = TRUE
        /\ r.tbs = FirstTbs /\ r.state = "SIGNING"
    <2>1. FirstTbs \in Tbs /\ "SIGNING" \in SignerState
      BY DEF FirstTbs, Tbs, SignerState
    <2> QED
      BY <1>6, <2>1 DEF SignerRecord
  <1>8. ASSUME NEW x \in SignerRecord, x.up = TRUE, x.t = T, x.key = TRUE,
               x.tbs = FirstTbs, x.state = "SIGNING", x.nonces = x.commit,
               x.commit # NoCommit, Offer(s, x)
        PROVE  /\ Ready(signer'[s])
               /\ toC'[s] = Append(toC[s], Commit(signer'[s].commit,
                                     Attestation(s, FirstTbs, signer'[s].commit)))
    <2>1. PICK y : y = [x EXCEPT !.pre = FALSE]
      OBVIOUS
    <2>2. /\ y \in SignerRecord /\ y.commit = x.commit /\ Ready(y)
      BY <1>8, <2>1 DEF SignerRecord, Ready
    <2>3. PICK f : f = Commit(x.commit, Attestation(s, x.tbs, x.commit))
      OBVIOUS
    <2>4. Reply(s, y, f)
      BY <1>8, <2>1, <2>3, Zenon DEF Offer
    <2>5. Precompute(s, y, TRUE) = y
      BY <1>1, <2>2, RestedPass
    <2>6. signer'[s] = y /\ toC'[s] = Append(toC[s], f)
      BY <1>1, <2>4, <2>5, PassEnds
    <2> QED
      BY <1>8, <2>2, <2>3, <2>6
  <1>9. g.up = TRUE /\ g.t = T /\ (g.pre => g.nonces = g.commit /\ g.commit # NoCommit)
    BY <1>2 DEF Rested
  <1>10. CASE r.pre /\ Offer(s, r)
    BY <1>7, <1>8, <1>9, <1>10
  <1>11. CASE Offer(s, TryDraw(s, r, TRUE))
    <2>1. PICK d : d = DrawNonces(s, r)
      OBVIOUS
    <2>2. Offer(s, d)
      BY <1>7, <1>11, <2>1 DEF TryDraw
    <2>3. PICK c : c = <<s, r.drawn + 1>>
      OBVIOUS
    <2>4. d \in SignerRecord /\ d.nonces = c /\ d.commit = c /\ d.up = r.up /\ d.tbs = r.tbs
      BY <1>1, <1>7, <2>1, <2>3, DrawFacts
    <2>5. d.t = r.t /\ d.key = r.key /\ d.state = r.state
      BY <1>7, <2>1 DEF DrawNonces, SignerRecord
    <2>6. c # NoCommit
      BY <1>1, <2>3, GroupAssumption DEF NoCommit, Signer
    <2> QED
      BY <1>7, <1>8, <1>9, <2>2, <2>4, <2>5, <2>6
  <1>12. \/ r.pre /\ Offer(s, r)
         \/ \E ok \in CoreOutcome :
              IF ok THEN Offer(s, TryDraw(s, r, ok)) ELSE Return(s, TryDraw(s, r, ok))
    BY <1>1, <1>2, <1>4, <1>5, <1>6, Zenon DEF OnSignReq
  <1>13. \/ r.pre /\ Offer(s, r)
         \/ Offer(s, TryDraw(s, r, TRUE))
    BY <1>12 DEF CoreOutcome
  <1> QED
    BY <1>10, <1>11, <1>13

\* A bundle that is accepted is signed.
LEMMA BundleAnswered ==
  ASSUME CoreMayFail = FALSE, signer \in [Signer -> SignerRecord],
         toC \in [Signer -> Seq(UpFrame)], NEW s \in Honest, NEW b,
         Ready(signer[s]), AcceptsBundle(s, signer[s], b),
         ProcessCoordFrame(s, RelayCommit(b))
  PROVE  LET c == signer[s].commit
         IN  /\ Rested(signer'[s])
             /\ toC'[s] = Append(toC[s], SigShare(Share(s, c, SigningPackage(b), TRUE)))
             /\ <<s, c>> \in SigningPackage(b).commits
  <1>1. s \in Signer /\ Fault[s] = "none"
    BY HonestFacts
  <1>2. PICK r \in SignerRecord : r = signer[s]
    BY <1>1
  <1>3. PICK m : m = RelayCommit(b)
    OBVIOUS
  <1>4. m.type = "RELAY_COMMIT" /\ m.bundle = b
    BY <1>3 DEF RelayCommit
  <1>5. OnRelayCommit(s, m)
    BY <1>3, <1>4 DEF ProcessCoordFrame
  <1>6. PICK pkg : pkg = SigningPackage(b)
    OBVIOUS
  <1>7. r.up = TRUE /\ r.t = T /\ r.key = TRUE /\ r.pre = FALSE
        /\ r.nonces = r.commit /\ r.commit # NoCommit
    BY <1>2 DEF Ready
  <1>8. <<s, r.commit>> \in pkg.commits
    <2>1. PICK i \in DOMAIN b.entries : b.entries[i].id = s /\ b.entries[i].commit = r.commit
      BY <1>2 DEF AcceptsBundle
    <2> QED
      BY <1>6, <2>1 DEF SigningPackage
  <1>9. CanSign(s, r, pkg)
    BY <1>7, <1>8 DEF CanSign
  <1>10. PICK x : x = [ZeroNonces(r) EXCEPT !.state = "COMPLETE"]
    OBVIOUS
  <1>11. PICK f : f = SigShare(Share(s, r.nonces, pkg, TRUE))
    OBVIOUS
  <1>12. Reply(s, x, f)
    <2>1. PICK h : h = Share(s, r.nonces, pkg, Fault[s] # "bad_share")
      OBVIOUS
    <2>2. h = Share(s, r.nonces, pkg, TRUE)
      BY <1>1, <2>1
    <2>3. Reply(s, x, SigShare(h))
      BY <1>1, <1>2, <1>4, <1>5, <1>6, <1>7, <1>9, <1>10, <2>1, Zenon DEF OnRelayCommit
    <2> QED
      BY <1>11, <2>2, <2>3
  <1>13. x \in SignerRecord /\ x.up = TRUE /\ x.t = T /\ x.pre = FALSE
    BY <1>7, <1>10 DEF ZeroNonces, SignerRecord, SignerState
  <1>14. PICK y : y = Precompute(s, x, TRUE)
    OBVIOUS
  <1>15. Rested(y)
    <2>1. Rested(x)
      BY <1>13 DEF Rested
    <2> QED
      BY <1>1, <1>13, <1>14, <2>1, RestedPass
  <1>16. signer'[s] = y /\ toC'[s] = Append(toC[s], f)
    BY <1>1, <1>12, <1>14, PassEnds
  <1> QED
    BY <1>2, <1>6, <1>7, <1>8, <1>11, <1>15, <1>16

\* A signer without a fault that handles a frame goes on to its next stage.
LEMMA StageSigner ==
  ASSUME CoreMayFail = FALSE, signer \in [Signer -> SignerRecord],
         toC \in [Signer -> Seq(UpFrame)], NEW s \in Honest, NEW a, NEW p, NEW ss,
         Stage(s, a, signer[s], p, toC[s], toS[s], ss), toS[s] # <<>>,
         ProcessCoordFrame(s, Head(toS[s]))
  PROVE  /\ signer'[s].up = TRUE
         /\ Stage(s, a, signer'[s], p, toC'[s], Tail(toS[s]), ss)
  <1>1. PICK r : r = signer[s]
    OBVIOUS
  <1>2. PICK u : u = toC[s]
    OBVIOUS
  <1>3. PICK d : d = toS[s]
    OBVIOUS
  <1>4. Stage(s, a, r, p, u, d, ss) /\ d # <<>>
    BY <1>1, <1>2, <1>3
  <1>5. CASE LiveIn(s, ss) = {} /\ Free(s, a, r, p, u, d)
    <2>1. a # 0 /\ Asked(r, p, u, d)
      BY <1>4, <1>5 DEF Free, Absent, Offering, Waiting
    <2>2. Rested(r) /\ p.phase = "INIT" /\ u = <<>>
      BY <2>1 DEF Asked
    <2>3. CASE d = <<HelloAck("S"), SignReq(FirstTbs)>>
      <3>1. Head(d) = HelloAck("S") /\ Tail(d) = <<SignReq(FirstTbs)>>
        BY <2>3, FewFrames
      <3>2. Rested(signer'[s]) /\ toC'[s] = u
        BY <1>1, <1>2, <1>3, <2>2, <3>1, HelloAnswered
      <3>3. PICK x : x = signer'[s]
        OBVIOUS
      <3>4. Asked(x, p, u, Tail(d)) /\ x.up = TRUE
        BY <2>2, <3>1, <3>2, <3>3 DEF Asked, Rested
      <3>5. Stage(s, a, x, p, u, Tail(d), ss)
        BY <1>5, <2>1, <3>4 DEF Stage, Free
      <3> QED
        BY <1>3, <3>2, <3>3, <3>4, <3>5
    <2>4. CASE d = <<SignReq(FirstTbs)>>
      <3>1. Head(d) = SignReq(FirstTbs) /\ Tail(d) = <<>>
        BY <2>4, FewFrames
      <3>2. PICK x : x = signer'[s]
        OBVIOUS
      <3>3. PICK f : f = Commit(x.commit, Attestation(s, FirstTbs, x.commit))
        OBVIOUS
      <3>4. Ready(x) /\ toC'[s] = Append(u, f)
        BY <1>1, <1>2, <1>3, <2>2, <3>1, <3>2, <3>3, RequestAnswered
      <3>5. Append(u, f) = <<f>>
        BY <2>2, FewFrames
      <3>6. Offering(s, x, p, <<f>>, <<>>) /\ x.up = TRUE
        BY <2>2, <3>3, <3>4 DEF Offering, Ready
      <3>7. Stage(s, a, x, p, <<f>>, <<>>, ss)
        BY <1>5, <2>1, <3>6 DEF Stage, Free
      <3> QED
        BY <1>3, <3>1, <3>2, <3>4, <3>5, <3>6, <3>7
    <2> QED
      BY <2>1, <2>3, <2>4 DEF Asked
  <1>6. ASSUME a # 0, NEW k \in DOMAIN ss, LiveIn(s, ss) = {k},
               Engaged(s, r, p, u, d, ss[k])
        PROVE  /\ signer'[s].up = TRUE
               /\ Stage(s, a, signer'[s], p, toC'[s], Tail(toS[s]), ss)
    <2>1. PICK q : q = ss[k]
      OBVIOUS
    <2>2. q.id = p.session /\ Called(s, r, p, u, d, q)
      BY <1>4, <1>6, <2>1 DEF Engaged, Answering, Shared
    <2>3. PICK b : d = <<RelayCommit(b)>> /\ AcceptsBundle(s, r, b)
                   /\ q.pkg = SigningPackage(b)
      BY <2>2 DEF Called
    <2>4. Ready(r) /\ p.phase = "IN_SESSION" /\ u = <<>> /\ q.shares[s] = NoShare
      BY <2>2 DEF Called
    <2>5. Head(d) = RelayCommit(b) /\ Tail(d) = <<>>
      BY <2>3, FewFrames
    <2>6. PICK c : c = r.commit
      OBVIOUS
    <2>7. PICK x : x = signer'[s]
      OBVIOUS
    <2>8. PICK f : f = SigShare(Share(s, c, q.pkg, TRUE))
      OBVIOUS
    <2>9. Rested(x) /\ toC'[s] = Append(u, f) /\ <<s, c>> \in q.pkg.commits
      BY <1>1, <1>2, <1>3, <2>3, <2>4, <2>5, <2>6, <2>7, <2>8, BundleAnswered
    <2>10. Append(u, f) = <<f>>
      BY <2>4, FewFrames
    <2>11. Answering(s, x, p, <<f>>, <<>>, q) /\ x.up = TRUE
      BY <2>4, <2>8, <2>9 DEF Answering, Rested
    <2>12. Engaged(s, x, p, <<f>>, <<>>, ss[k])
      BY <2>1, <2>2, <2>11 DEF Engaged
    <2>13. Stage(s, a, x, p, <<f>>, <<>>, ss)
      BY <1>6, <2>12 DEF Stage
    <2> QED
      BY <1>3, <2>5, <2>7, <2>9, <2>10, <2>11, <2>13
  <1> QED
    BY <1>4, <1>5, <1>6 DEF Stage

\* A step of a signer keeps the order.
LEMMA OrderlySigner ==
  ASSUME CoreMayFail = FALSE, Coherent(signer, toC, peer, sessions, nextId, toS),
         Orderly(signer, toC, peer, sessions, toS, arrived),
         NEW s \in Signer, SignerStep(s)
  PROVE  Orderly(signer', toC', peer, sessions, toS', arrived)
  <1>1. /\ signer \in [Signer -> SignerRecord] /\ toC \in [Signer -> Seq(UpFrame)]
        /\ toS \in [Signer -> Seq(DownFrame)]
    BY DEF Coherent, SignersOK
  <1>2. PICK m : m = Head(toS[s])
    OBVIOUS
  <1>3. /\ toS[s] # <<>> /\ ProcessCoordFrame(s, m)
        /\ toS' = [toS EXCEPT ![s] = IF signer'[s].up THEN Tail(@) ELSE <<>>]
    BY <1>2 DEF SignerStep
  <1>4. m.type = "SIGN_REQ" => m.tbs = FirstTbs
    <2>1. PICK d \in Seq(DownFrame) : d = toS[s]
      BY <1>1
    <2>2. m \in Range(d)
      BY <1>2, <1>3, <2>1, FramesOf
    <2> QED
      BY <2>1, <2>2 DEF Orderly, Genuine
  <1>5. \/ Die(s)
        \/ \E r : Return(s, r)
        \/ \E r, f : Reply(s, r, f) /\ (f.type = "COMMIT" => Vouched(s, f))
    <2>1. \/ Die(s)
          \/ \E r : Return(s, r)
          \/ \E r, f : /\ Reply(s, r, f)
                       /\ f.type = "COMMIT" =>
                            m.type = "SIGN_REQ" /\ f.sig = Attestation(s, m.tbs, f.commit)
      BY <1>1, <1>3, SignerAnswers
    <2> QED
      BY <1>4, <2>1 DEF Vouched
  <1>6. toS'[s] = IF signer'[s].up THEN Tail(toS[s]) ELSE <<>>
    BY <1>1, <1>3
  <1>7. Genuine(s, peer[s], toC'[s], toS'[s])
    <2>1. Genuine(s, peer[s], toC[s], toS[s])
      BY DEF Orderly
    <2>2. (toS[s] # <<>> /\ toS'[s] = Tail(toS[s])) \/ toS'[s] = <<>>
      BY <1>3, <1>6
    <2> QED
      BY <1>1, <1>5, <2>1, <2>2, GenuineStep
  <1>8. ASSUME s \in Honest
        PROVE  Stage(s, arrived[s], signer'[s], peer[s], toC'[s], toS'[s], sessions)
    <2>1. PICK a : a = arrived[s]
      OBVIOUS
    <2>2. PICK p : p = peer[s]
      OBVIOUS
    <2>3. PICK ss : ss = sessions
      OBVIOUS
    <2>4. Stage(s, a, signer[s], p, toC[s], toS[s], ss)
      BY <1>8, <2>1, <2>2, <2>3 DEF Orderly
    <2>5. /\ signer'[s].up = TRUE
          /\ Stage(s, a, signer'[s], p, toC'[s], Tail(toS[s]), ss)
      BY <1>1, <1>2, <1>3, <1>8, <2>4, StageSigner
    <2> QED
      BY <1>6, <2>1, <2>2, <2>3, <2>5
  <1>9. ASSUME NEW x \in Signer, x # s
        PROVE  signer'[x] = signer[x] /\ toC'[x] = toC[x] /\ toS'[x] = toS[x]
    <2>1. toS'[x] = toS[x]
      BY <1>1, <1>3, <1>9
    <2> QED
      BY <1>1, <1>5, <1>9, <2>1, OthersStill
  <1> SUFFICES ASSUME NEW x \in Signer
               PROVE  /\ Genuine(x, peer[x], toC'[x], toS'[x])
                      /\ x \in Honest => Stage(x, arrived[x], signer'[x], peer[x], toC'[x],
                                               toS'[x], sessions)
    BY DEF Orderly
  <1>10. CASE x = s
    BY <1>7, <1>8, <1>10
  <1>11. CASE x # s
    BY <1>9, <1>11 DEF Orderly
  <1> QED
    BY <1>10, <1>11

\* Others crash, and registration puts a signer at the first stage.
LEMMA OrderlyCrash ==
  ASSUME Coherent(signer, toC, peer, sessions, nextId, toS),
         Orderly(signer, toC, peer, sessions, toS, arrived),
         NEW s \in Signer, Crash(s)
  PROVE  Orderly(signer', toC', peer, sessions, toS', arrived)
  <1>1. /\ signer \in [Signer -> SignerRecord] /\ toC \in [Signer -> Seq(UpFrame)]
        /\ toS \in [Signer -> Seq(DownFrame)]
    BY DEF Coherent, SignersOK
  <1>2. Die(s) /\ toS' = [toS EXCEPT ![s] = <<>>] /\ s \notin Honest
    BY HonestFacts DEF Crash
  <1>3. toS'[s] = <<>>
    BY <1>1, <1>2
  <1>4. Genuine(s, peer[s], toC'[s], toS'[s])
    <2>1. Genuine(s, peer[s], toC[s], toS[s])
      BY DEF Orderly
    <2> QED
      BY <1>1, <1>2, <1>3, <2>1, GenuineStep
  <1>5. ASSUME NEW x \in Signer, x # s
        PROVE  signer'[x] = signer[x] /\ toC'[x] = toC[x] /\ toS'[x] = toS[x]
    BY <1>1, <1>2, <1>5, OthersStill
  <1> SUFFICES ASSUME NEW x \in Signer
               PROVE  /\ Genuine(x, peer[x], toC'[x], toS'[x])
                      /\ x \in Honest => Stage(x, arrived[x], signer'[x], peer[x], toC'[x],
                                               toS'[x], sessions)
    BY DEF Orderly
  <1>6. CASE x = s
    BY <1>2, <1>4, <1>6
  <1>7. CASE x # s
    BY <1>5, <1>7 DEF Orderly
  <1> QED
    BY <1>6, <1>7

\* One signer, s, changes; for the others the slots are as good as before.
LEMMA OrderlyOne ==
  ASSUME NEW sg, NEW up, NEW p, NEW ss, NEW down, NEW arr,
         Orderly(sg, up, p, ss, down, arr), NEW s,
         NEW sg2, NEW up2, NEW p2, NEW ss2, NEW down2, NEW arr2,
         \A x \in Signer \ {s} :
           /\ sg2[x] = sg[x] /\ up2[x] = up[x] /\ p2[x] = p[x] /\ down2[x] = down[x]
           /\ arr2[x] = arr[x],
         \A x \in Honest \ {s} : SameFor(x, ss, ss2),
         Genuine(s, p2[s], up2[s], down2[s]),
         s \in Honest => Stage(s, arr2[s], sg2[s], p2[s], up2[s], down2[s], ss2)
  PROVE  Orderly(sg2, up2, p2, ss2, down2, arr2)
  <1> SUFFICES ASSUME NEW x \in Signer
               PROVE  /\ Genuine(x, p2[x], up2[x], down2[x])
                      /\ x \in Honest => Stage(x, arr2[x], sg2[x], p2[x], up2[x], down2[x], ss2)
    BY DEF Orderly
  <1>1. CASE x = s
    BY <1>1
  <1>2. CASE x # s
    <2>1. /\ Genuine(x, p[x], up[x], down[x])
          /\ x \in Honest => Stage(x, arr[x], sg[x], p[x], up[x], down[x], ss)
      BY DEF Orderly
    <2>2. x \in Honest => Stage(x, arr[x], sg[x], p[x], up[x], down[x], ss2)
      BY <1>2, <2>1, StageSame
    <2>3. /\ sg2[x] = sg[x] /\ up2[x] = up[x] /\ p2[x] = p[x] /\ down2[x] = down[x]
          /\ arr2[x] = arr[x]
      BY <1>2
    <2> QED
      BY <2>1, <2>2, <2>3
  <1> QED
    BY <1>1, <1>2

\* Slots that do not change look the same to everyone.
LEMMA SameForSelf ==
  ASSUME NEW s, NEW ss PROVE SameFor(s, ss, ss)
  BY DEF SameFor

\* A signer that registers starts in the first stage.
LEMMA OrderlyConnect ==
  ASSUME job.tbs = FirstTbs, Coherent(signer, toC, peer, sessions, nextId, toS), ListOK,
         Orderly(signer, toC, peer, sessions, toS, arrived), NEW s \in Signer, Connect(s)
  PROVE  Orderly(signer', toC', peer', sessions', toS', arrived')
  <1>1. /\ signer \in [Signer -> SignerRecord] /\ toC \in [Signer -> Seq(UpFrame)]
        /\ toS \in [Signer -> Seq(DownFrame)] /\ arrived \in [Signer -> 0..arrivals]
        /\ arrivals \in Nat
    BY DEF Coherent, SignersOK, ListOK
  <1>2. PICK n \in Nat : n = signer[s].drawn
    BY <1>1 DEF SignerRecord
  <1>3. PICK d : d = <<HelloAck("S"), SignReq(FirstTbs)>>
    OBVIOUS
  <1>4. /\ signer' = [signer EXCEPT ![s] = FreshSigner(n)]
        /\ toC' = [toC EXCEPT ![s] = <<>>]
        /\ toS' = [toS EXCEPT ![s] = d]
        /\ arrived' = [arrived EXCEPT ![s] = arrivals + 1]
        /\ peer' = Reset(peer, {s}, "INIT") /\ sessions' = sessions
        /\ s \notin Connected
    BY <1>2, <1>3 DEF Connect, Register
  <1>5. PICK sg2 : sg2 = signer'
    OBVIOUS
  <1>6. PICK up2 : up2 = toC'
    OBVIOUS
  <1>7. PICK p2 : p2 = peer'
    OBVIOUS
  <1>8. PICK down2 : down2 = toS'
    OBVIOUS
  <1>9. PICK arr2 : arr2 = arrived'
    OBVIOUS
  <1>10. PICK ss : ss = sessions
    OBVIOUS
  <1>11. \A x \in Signer \ {s} :
           /\ sg2[x] = signer[x] /\ up2[x] = toC[x] /\ p2[x] = peer[x]
           /\ down2[x] = toS[x] /\ arr2[x] = arrived[x]
    BY <1>1, <1>4, <1>5, <1>6, <1>7, <1>8, <1>9 DEF Reset
  <1>12. /\ sg2[s] = FreshSigner(n) /\ up2[s] = <<>> /\ p2[s] = Blank("INIT")
         /\ down2[s] = d /\ arr2[s] # 0
    BY <1>1, <1>4, <1>5, <1>6, <1>7, <1>8, <1>9 DEF Reset
  <1>13. Blank("INIT").commit = NoCommit /\ Blank("INIT").phase = "INIT"
    BY DEF Blank
  <1>14. Genuine(s, p2[s], up2[s], down2[s])
    <2>1. \A f \in Range(d) : f = HelloAck("S") \/ f = SignReq(FirstTbs)
      BY <1>3 DEF Range
    <2>2. \A f \in Range(d) : f.type = "SIGN_REQ" => f.tbs = FirstTbs
      BY <2>1 DEF HelloAck, SignReq
    <2>3. Range(<<>>) = {}
      BY DEF Range
    <2> QED
      BY <1>12, <1>13, <2>2, <2>3 DEF Genuine
  <1>15. ASSUME s \in Honest
         PROVE  Stage(s, arr2[s], sg2[s], p2[s], up2[s], down2[s], ss)
    <2>1. arrived[s] = 0
      BY <1>1, <1>4 DEF Connected
    <2>2. Stage(s, arrived[s], signer[s], peer[s], toC[s], toS[s], ss)
      BY <1>10, <1>15 DEF Orderly
    <2>3. LiveIn(s, ss) = {}
      BY <2>1, <2>2 DEF Stage
    <2>4. Rested(FreshSigner(n))
      BY DEF Rested, FreshSigner
    <2>5. Asked(sg2[s], p2[s], up2[s], down2[s])
      BY <1>3, <1>12, <1>13, <2>4 DEF Asked
    <2> QED
      BY <1>12, <2>3, <2>5 DEF Stage, Free
  <1>16. \A x \in Honest \ {s} : SameFor(x, ss, ss)
    BY SameForSelf
  <1>17. Orderly(sg2, up2, p2, ss, down2, arr2)
    <2>1. PICK sg : sg = signer
      OBVIOUS
    <2>2. PICK up : up = toC
      OBVIOUS
    <2>3. PICK p : p = peer
      OBVIOUS
    <2>4. PICK down : down = toS
      OBVIOUS
    <2>5. PICK arr : arr = arrived
      OBVIOUS
    <2>6. Orderly(sg, up, p, ss, down, arr)
      BY <1>10, <2>1, <2>2, <2>3, <2>4, <2>5
    <2>7. \A x \in Signer \ {s} :
            /\ sg2[x] = sg[x] /\ up2[x] = up[x] /\ p2[x] = p[x] /\ down2[x] = down[x]
            /\ arr2[x] = arr[x]
      BY <1>11, <2>1, <2>2, <2>3, <2>4, <2>5
    <2> QED
      BY <1>14, <1>15, <1>16, <2>6, <2>7, OrderlyOne
  <1> QED
    BY <1>4, <1>5, <1>6, <1>7, <1>8, <1>9, <1>10, <1>17

-----------------------------------------------------------------------------
(* Steps of the coordinator.                                               *)

\* What a signer without a fault can have sent.
LEMMA StageSpoke ==
  ASSUME NEW s, NEW a, NEW r, NEW p, NEW u, NEW d, NEW ss,
         Stage(s, a, r, p, u, d, ss), u # <<>>
  PROVE  /\ a # 0 /\ Tail(u) = <<>>
         /\ \/ LiveIn(s, ss) = {} /\ Offering(s, r, p, u, d) /\ Head(u).type = "COMMIT"
            \/ /\ Head(u).type = "SIG_SHARE"
               /\ \E k \in DOMAIN ss : /\ LiveIn(s, ss) = {k} /\ ss[k].id = p.session
                                       /\ Answering(s, r, p, u, d, ss[k])
  <1>1. CASE LiveIn(s, ss) = {} /\ Free(s, a, r, p, u, d)
    <2>1. a # 0 /\ Offering(s, r, p, u, d)
      BY <1>1 DEF Free, Absent, Asked, Waiting
    <2>2. PICK f : f = Commit(r.commit, Attestation(s, FirstTbs, r.commit)) /\ u = <<f>>
      BY <2>1 DEF Offering
    <2>3. Head(u) = f /\ Tail(u) = <<>> /\ f.type = "COMMIT"
      BY <2>2, FewFrames DEF Commit
    <2> QED
      BY <1>1, <2>1, <2>3
  <1>2. ASSUME a # 0, NEW k \in DOMAIN ss, LiveIn(s, ss) = {k},
               Engaged(s, r, p, u, d, ss[k])
        PROVE  /\ Tail(u) = <<>> /\ Head(u).type = "SIG_SHARE"
               /\ ss[k].id = p.session /\ Answering(s, r, p, u, d, ss[k])
    <2>1. ss[k].id = p.session /\ Answering(s, r, p, u, d, ss[k])
      BY <1>2 DEF Engaged, Called, Shared
    <2>2. PICK h : u = <<SigShare(h)>>
      BY <2>1 DEF Answering
    <2>3. PICK f : f = SigShare(h) /\ u = <<f>>
      BY <2>2
    <2>4. Head(u) = f /\ Tail(u) = <<>> /\ f.type = "SIG_SHARE"
      BY <2>3, FewFrames DEF SigShare
    <2> QED
      BY <2>1, <2>4
  <1> QED
    BY <1>1, <1>2 DEF Stage

\* The frame that the coordinator takes off the stream.
LEMMA GenuineTail ==
  ASSUME NEW s, NEW p, NEW u \in Seq(UpFrame), NEW d, Genuine(s, p, u, d), u # <<>>
  PROVE  /\ Genuine(s, p, Tail(u), d)
         /\ Head(u).type = "COMMIT" => Vouched(s, Head(u))
  <1>1. PICK f \in UpFrame : f = Head(u)
    OBVIOUS
  <1>2. Head(u) \in Range(u) /\ Range(Tail(u)) \in SUBSET Range(u)
    BY <1>1, FramesOf
  <1> QED
    BY <1>2 DEF Genuine

\* The coordinator handles a frame of s: s and its entry change, and for the
\* others the slots are as good as before.
Turn(s, sg, up, p, ss, down, arr, p2, ss2, down2, arr2) ==
  /\ up \in [Signer -> Seq(UpFrame)]
  /\ Orderly(sg, up, p, ss, down, arr)
  /\ \A x \in Signer \ {s} : p2[x] = p[x] /\ down2[x] = down[x] /\ arr2[x] = arr[x]
  /\ \A x \in Honest \ {s} : SameFor(x, ss, ss2)
  /\ Genuine(s, p2[s], Tail(up[s]), down2[s])
  /\ s \in Honest => Stage(s, arr2[s], sg[s], p2[s], Tail(up[s]), down2[s], ss2)

\* The coordinator takes a frame of s and changes nothing of the others.
LEMMA OrderlyPop ==
  ASSUME NEW s \in Signer, NEW sg, NEW up, NEW p, NEW ss, NEW down, NEW arr,
         NEW p2, NEW ss2, NEW down2, NEW arr2,
         Turn(s, sg, up, p, ss, down, arr, p2, ss2, down2, arr2),
         NEW up2, up2 = [up EXCEPT ![s] = Tail(@)]
  PROVE  Orderly(sg, up2, p2, ss2, down2, arr2)
  <1> USE DEF Turn
  <1>1. up2[s] = Tail(up[s]) /\ \A x \in Signer \ {s} : up2[x] = up[x]
    OBVIOUS
  <1> SUFFICES ASSUME NEW x \in Signer
               PROVE  /\ Genuine(x, p2[x], up2[x], down2[x])
                      /\ x \in Honest => Stage(x, arr2[x], sg[x], p2[x], up2[x], down2[x], ss2)
    BY DEF Orderly
  <1>2. CASE x = s
    BY <1>1, <1>2
  <1>3. CASE x # s
    <2>1. /\ Genuine(x, p[x], up[x], down[x])
          /\ x \in Honest => Stage(x, arr[x], sg[x], p[x], up[x], down[x], ss)
      BY DEF Orderly
    <2>2. x \in Honest => Stage(x, arr[x], sg[x], p[x], up[x], down[x], ss2)
      BY <1>3, <2>1, StageSame
    <2>3. up2[x] = up[x] /\ p2[x] = p[x] /\ down2[x] = down[x] /\ arr2[x] = arr[x]
      BY <1>1, <1>3
    <2> QED
      BY <2>1, <2>2, <2>3
  <1> QED
    BY <1>2, <1>3

\* A session fails: its honest members, whose shares are in, are asked again.
Retires(k, R, sg, up, p, ss, q, p2) ==
  /\ k \in DOMAIN ss /\ ss[k].state = "AWAITING"
  /\ \A s \in Signer : \/ p2[s].commit = NoCommit
                       \/ p2[s].commit = p[s].commit /\ p2[s].sig = p[s].sig
  /\ \A s \in Honest : s \in ss[k].members =>
       /\ Shared(s, sg[s], p[s], up[s], q[s], ss[k])
       /\ p2[s] = Blank("INIT") /\ s \in R
  /\ \A s \in Honest : s \notin ss[k].members => p2[s] = p[s] /\ s \notin R

\* A session fails: its honest members are free, and are asked again.
LEMMA OrderlyRetire ==
  ASSUME NEW sg, NEW up, NEW p, NEW ss, NEW nid, SlotsOK(ss, nid),
         NEW q \in [Signer -> Seq(DownFrame)], NEW arr, Orderly(sg, up, p, ss, q, arr),
         NEW k, NEW R, NEW p2, Retires(k, R, sg, up, p, ss, q, p2),
         NEW x, x = WithState(ss, k, "FAILED"),
         NEW q2, q2 = SendTo(q, R, SignReq(FirstTbs))
  PROVE  Orderly(sg, up, p2, x, q2, arr)
  <1> USE DEF Retires
  <1>1. /\ DOMAIN x = DOMAIN ss /\ x[k].state = "FAILED"
        /\ \A j \in DOMAIN ss : j # k => x[j] = ss[j]
    BY StateChanged
  <1>2. PICK f : f = SignReq(FirstTbs)
    OBVIOUS
  <1>3. Asks(f)
    BY <1>2 DEF Asks, SignReq
  <1>4. \A s \in Signer : q2[s] = IF s \in R THEN Append(q[s], f) ELSE q[s]
    BY <1>2 DEF SendTo
  <1>5. ASSUME NEW s \in Signer PROVE Genuine(s, p2[s], up[s], q2[s])
    <2>1. Genuine(s, p[s], up[s], q[s]) /\ q[s] \in Seq(DownFrame)
      BY DEF Orderly
    <2>2. Genuine(s, p2[s], up[s], q[s])
      BY <2>1, GenuineEntry
    <2>3. Genuine(s, p2[s], up[s], Append(q[s], f))
      BY <1>3, <2>1, <2>2, GenuineSend
    <2> QED
      BY <1>4, <2>2, <2>3
  <1>6. ASSUME NEW s \in Honest PROVE Stage(s, arr[s], sg[s], p2[s], up[s], q2[s], x)
    <2>1. s \in Signer /\ Stage(s, arr[s], sg[s], p[s], up[s], q[s], ss)
      BY HonestFacts DEF Orderly
    <2>2. CASE s \in ss[k].members
      <3>1. Shared(s, sg[s], p[s], up[s], q[s], ss[k]) /\ p2[s] = Blank("INIT") /\ s \in R
        BY <2>2
      <3>2. k \in LiveIn(s, ss)
        BY <2>2 DEF LiveIn
      <3>3. arr[s] # 0 /\ LiveIn(s, ss) = {k}
        BY <2>1, <3>2 DEF Stage
      <3>4. LiveIn(s, x) = {}
        <4>1. \A j \in DOMAIN ss : j # k => ~(ss[j].state = "AWAITING" /\ s \in ss[j].members)
          BY <3>3 DEF LiveIn
        <4> QED
          BY <1>1, <4>1 DEF LiveIn
      <3>5. Rested(sg[s]) /\ up[s] = <<>> /\ q[s] = <<>>
        BY <3>1 DEF Shared
      <3>6. q2[s] = <<f>>
        BY <1>4, <2>1, <3>1, <3>5, FewFrames
      <3>7. p2[s].phase = "INIT"
        BY <3>1 DEF Blank
      <3>8. Asked(sg[s], p2[s], up[s], q2[s])
        BY <1>2, <3>5, <3>6, <3>7 DEF Asked
      <3> QED
        BY <3>3, <3>4, <3>8 DEF Stage, Free
    <2>3. CASE s \notin ss[k].members
      <3>1. p2[s] = p[s] /\ q2[s] = q[s]
        BY <1>4, <2>1, <2>3
      <3>2. SameFor(s, ss, x)
        <4>1. \A j \in LiveIn(s, ss) : j # k /\ j \in DOMAIN ss
          BY <2>3 DEF LiveIn
        <4>2. \A j \in LiveIn(s, ss) : x[j] = ss[j]
          BY <1>1, <4>1
        <4>3. LiveIn(s, x) = LiveIn(s, ss)
          BY <1>1, <2>3 DEF LiveIn
        <4> QED
          BY <4>2, <4>3 DEF SameFor
      <3>3. Stage(s, arr[s], sg[s], p[s], up[s], q[s], x)
        BY <2>1, <3>2, StageSame
      <3> QED
        BY <3>1, <3>3
    <2> QED
      BY <2>2, <2>3
  <1> QED
    BY <1>5, <1>6 DEF Orderly

\* A table entry after a reset or a change of phase.
LEMMA EntryAfter ==
  ASSUME NEW nid, NEW p, TableOK(p, nid), NEW S, NEW ph, NEW s \in Signer
  PROVE  /\ SetPhase(p, S, ph)[s].commit = p[s].commit
         /\ SetPhase(p, S, ph)[s].sig = p[s].sig
         /\ SetPhase(p, S, ph)[s].session = p[s].session
         /\ s \in S => SetPhase(p, S, ph)[s].phase = ph
         /\ s \notin S => SetPhase(p, S, ph)[s] = p[s] /\ Reset(p, S, ph)[s] = p[s]
         /\ s \in S => Reset(p, S, ph)[s] = Blank(ph) /\ Reset(p, S, ph)[s].commit = NoCommit
  <1>1. PICK e \in PeerRecord : e = p[s]
    BY DEF TableOK
  <1>2. PICK w : w = [e EXCEPT !.phase = ph]
    OBVIOUS
  <1>3. w.phase = ph /\ w.commit = e.commit /\ w.sig = e.sig /\ w.session = e.session
    BY <1>2 DEF PeerRecord
  <1>4. SetPhase(p, S, ph)[s] = IF s \in S THEN w ELSE e
    BY <1>1, <1>2 DEF SetPhase
  <1>5. Reset(p, S, ph)[s] = IF s \in S THEN Blank(ph) ELSE p[s]
    BY DEF Reset
  <1>6. Blank(ph).commit = NoCommit
    BY DEF Blank
  <1> QED
    BY <1>1, <1>3, <1>4, <1>5, <1>6

\* A commitment is stored and its owner waits; a session may form.
LEMMA OrderlyCommit ==
  ASSUME SystemInv, OnceInv, Orderly(signer, toC, peer, sessions, toS, arrived),
         NEW s \in Signer, CoordinatorStep(s),
         NEW m, m = Head(toC[s]), m.type = "COMMIT", OnCommit(s, m)
  PROVE  Orderly(signer', toC', peer', sessions', toS', arrived')
  <1>1. /\ toC[s] # <<>> /\ signer' = signer /\ toC' = [toC EXCEPT ![s] = Tail(@)]
        /\ arrived' = arrived
    BY DEF CoordinatorStep, OnCommit, listVars
  <1>2. /\ Coherent(signer, toC, peer, sessions, nextId, toS)
        /\ arrived \in [Signer -> Nat] /\ job \in Job
        /\ toC \in [Signer -> Seq(UpFrame)] /\ TableOK(peer, nextId)
    BY DEF SystemInv, CertsOK, ListOK, Coherent
  <1>3. PICK sg : sg = signer
    OBVIOUS
  <1>4. PICK up : up = toC
    OBVIOUS
  <1>5. PICK p : p = peer
    OBVIOUS
  <1>6. PICK ss : ss = sessions
    OBVIOUS
  <1>7. PICK d : d = toS
    OBVIOUS
  <1>8. PICK arr : arr = arrived
    OBVIOUS
  <1>9. PICK up2 : up2 = [up EXCEPT ![s] = Tail(@)]
    OBVIOUS
  <1>10. PICK u : u = Tail(up[s])
    OBVIOUS
  <1>11. Orderly(sg, up, p, ss, d, arr) /\ up \in [Signer -> Seq(UpFrame)]
    BY <1>2, <1>3, <1>4, <1>5, <1>6, <1>7, <1>8
  <1>12. Genuine(s, p[s], u, d[s]) /\ Vouched(s, m)
    <2>1. Genuine(s, p[s], up[s], d[s]) /\ up[s] \in Seq(UpFrame) /\ up[s] # <<>>
      BY <1>1, <1>4, <1>11 DEF Orderly
    <2>2. Head(up[s]) = m
      BY <1>4
    <2> QED
      BY <1>10, <2>1, <2>2, GenuineTail
  <1>13. ASSUME s \in Honest
         PROVE  /\ arr[s] # 0 /\ u = <<>> /\ LiveIn(s, ss) = {}
                /\ Offering(s, sg[s], p[s], up[s], d[s])
    <2>1. Stage(s, arr[s], sg[s], p[s], up[s], d[s], ss) /\ up[s] # <<>>
      BY <1>1, <1>4, <1>11, <1>13 DEF Orderly
    <2>2. Head(up[s]).type = "COMMIT"
      BY <1>4
    <2> QED
      BY <1>10, <2>1, <2>2, StageSpoke
  <1>14. \A x \in Honest \ {s} : SameFor(x, ss, ss)
    BY SameForSelf
  <1>15. CASE peer' = peer /\ sessions' = sessions /\ toS' = toS
              /\ peer[s].phase \notin {"INIT", "SUSPECT"}
    <2>1. s \notin Honest
      BY <1>5, <1>13, <1>15 DEF Offering
    <2>2. Turn(s, sg, up, p, ss, d, arr, p, ss, d, arr)
      BY <1>10, <1>11, <1>12, <1>14, <2>1 DEF Turn
    <2>3. Orderly(sg, up2, p, ss, d, arr)
      BY <1>9, <2>2, OrderlyPop
    <2> QED
      BY <1>1, <1>3, <1>4, <1>5, <1>6, <1>7, <1>8, <1>9, <1>15, <2>3
  <1>16. CASE /\ peer[s].phase \in {"INIT", "SUSPECT"}
              /\ TryForm(StoreCommit(s, m), strikes, blacklist, sessions, toS)
    <2>1. PICK y : y = StoreCommit(s, m)
      OBVIOUS
    <2>2. /\ y[s].phase = "COMMITTED" /\ y[s].commit = m.commit /\ y[s].sig = m.sig
          /\ \A x \in Signer \ {s} : y[x] = p[x]
      <3>1. p \in [Signer -> PeerRecord]
        BY <1>2, <1>5 DEF TableOK
      <3>2. PICK e \in PeerRecord : e = p[s]
        BY <3>1
      <3>3. PICK c : c = m.commit
        OBVIOUS
      <3>4. PICK g : g = m.sig
        OBVIOUS
      <3>5. PICK z : z = [e EXCEPT !.phase = "COMMITTED", !.commit = c, !.sig = g]
        OBVIOUS
      <3>6. z.phase = "COMMITTED" /\ z.commit = c /\ z.sig = g
        BY <3>5 DEF PeerRecord
      <3>7. y = [p EXCEPT ![s] = z]
        BY <1>5, <2>1, <3>1, <3>2, <3>3, <3>4, <3>5, Zenon DEF StoreCommit
      <3> QED
        BY <3>1, <3>3, <3>4, <3>6, <3>7
    <2>3. Genuine(s, y[s], u, d[s])
      BY <1>12, <2>2 DEF Genuine, Vouched
    <2>4. ASSUME s \in Honest PROVE Stage(s, arr[s], sg[s], y[s], u, d[s], ss)
      <3>1. /\ arr[s] # 0 /\ u = <<>> /\ LiveIn(s, ss) = {}
            /\ Offering(s, sg[s], p[s], up[s], d[s])
        BY <1>13, <2>4
      <3>2. PICK r : r = sg[s]
        OBVIOUS
      <3>3. PICK f : f = Commit(r.commit, Attestation(s, FirstTbs, r.commit))
        OBVIOUS
      <3>4. up[s] = <<f>> /\ Ready(r) /\ d[s] = <<>>
        BY <3>1, <3>2, <3>3 DEF Offering
      <3>5. m = f
        BY <1>4, <3>4, FewFrames
      <3>6. m.commit = r.commit
        BY <3>3, <3>5 DEF Commit
      <3>7. Waiting(sg[s], y[s], u, d[s])
        BY <2>2, <3>1, <3>2, <3>4, <3>6 DEF Waiting
      <3> QED
        BY <3>1, <3>7 DEF Stage, Free
    <2>5. Orderly(sg, up2, y, ss, d, arr)
      <3>1. Turn(s, sg, up, p, ss, d, arr, y, ss, d, arr)
        BY <1>10, <1>11, <1>14, <2>2, <2>3, <2>4 DEF Turn
      <3> QED
        BY <1>9, <3>1, OrderlyPop
    <2>6. Coherent(sg, up2, y, ss, nextId, d)
      <3>1. Coherent(signer, [toC EXCEPT ![s] = Tail(@)], y, sessions, nextId, toS)
        BY <1>1, <1>2, <1>16, <2>1, CoherentStoreCommit, Zenon DEF StoreCommit
      <3> QED
        BY <1>3, <1>4, <1>6, <1>7, <1>9, <3>1
    <2>7. PICK st : st = strikes
      OBVIOUS
    <2>8. PICK bl : bl = blacklist
      OBVIOUS
    <2>9. TryForm(y, st, bl, ss, d)
      BY <1>6, <1>7, <1>16, <2>1, <2>7, <2>8
    <2>10. job.tbs = FirstTbs /\ job.replace = FALSE
      BY DEF OnceInv
    <2>11. Orderly(sg, up2, peer', sessions', toS', arr)
      BY <1>2, <2>5, <2>6, <2>9, <2>10, OrderlyTryForm
    <2> QED
      BY <1>1, <1>3, <1>4, <1>8, <1>9, <2>11
  <1> QED
    BY <1>15, <1>16 DEF OnCommit, roastVars

\* A share is stored in the one slot that awaits it.
LEMMA StoredWhere ==
  ASSUME Coherent(signer, toC, peer, sessions, nextId, toS), NEW s \in Signer,
         toC[s] # <<>>, NEW m, m = Head(toC[s]), m.type = "SIG_SHARE",
         NEW k \in ShareSlot(s), NEW ss, ss = StoreShare(k, s, m)
  PROVE  /\ ss[k].shares[s] = m.share /\ ss[k].n = sessions[k].n + 1
         /\ \A x \in sessions[k].members : x # s => ss[k].shares[x] = sessions[k].shares[x]
         /\ \A j \in DOMAIN sessions : j # k => ss[j] = sessions[j]
  <1>1. k \in DOMAIN sessions /\ s \in sessions[k].members
    BY DEF ShareSlot
  <1>2. SlotsOK(sessions, nextId)
    BY DEF Coherent
  <1>3. PICK M : M = sessions[k].members
    OBVIOUS
  <1>4. PICK z \in [id : 1..(nextId - 1), state : {"AWAITING", "COMPLETE", "FAILED"},
                    members : SUBSET Signer, pkg : Package,
                    shares : [M -> SentShare \cup {NoShare}], n : Nat] : z = sessions[k]
    BY <1>1, <1>2, <1>3 DEF SlotsOK, SlotOK
  <1>5. PICK g : g = [z.shares EXCEPT ![s] = m.share]
    OBVIOUS
  <1>6. PICK w : w = [z EXCEPT !.shares = g, !.n = z.n + 1]
    OBVIOUS
  <1>7. w.shares = g /\ w.n = z.n + 1
    BY <1>6
  <1>8. s \in M /\ z.shares \in [M -> SentShare \cup {NoShare}]
    BY <1>1, <1>3, <1>4
  <1>9. g[s] = m.share /\ \A x \in M : x # s => g[x] = z.shares[x]
    BY <1>5, <1>8
  <1>10. PICK y : y = sessions
    OBVIOUS
  <1>11. ss = [y EXCEPT ![k] = w]
    BY <1>4, <1>5, <1>6, <1>10, Zenon DEF StoreShare
  <1>12. /\ ss[k] = w /\ \A j \in DOMAIN sessions : j # k => ss[j] = sessions[j]
    <2>1. y \in Seq(Range(y)) /\ k \in DOMAIN y
      BY <1>1, <1>2, <1>10 DEF SlotsOK
    <2> DEFINE x == [y EXCEPT ![k] = w]
    <2>2. /\ x[k] = w /\ \A j \in DOMAIN y : j # k => x[j] = y[j]
      BY <2>1, SlotUpdate
    <2> QED
      BY <1>10, <1>11, <2>2, Zenon
  <1> QED
    BY <1>3, <1>4, <1>7, <1>9, <1>12

\* The slot a share from an honest signer is stored in is the session it is in,
\* and the share passes verification.
LEMMA OrderlyStore ==
  ASSUME SystemInv, Orderly(signer, toC, peer, sessions, toS, arrived),
         NEW s \in Signer, toC[s] # <<>>, NEW m, m = Head(toC[s]), m.type = "SIG_SHARE",
         NEW k \in ShareSlot(s), NEW x, x = StoreShare(k, s, m),
         NEW y, y = SetPhase(peer, {s}, "SHARED"),
         NEW sg, sg = signer, NEW up2, up2 = [toC EXCEPT ![s] = Tail(@)],
         NEW d, d = toS, NEW arr, arr = arrived
  PROVE  Orderly(sg, up2, y, x, d, arr)
  <1>1. /\ Coherent(signer, toC, peer, sessions, nextId, toS)
        /\ toC \in [Signer -> Seq(UpFrame)] /\ TableOK(peer, nextId)
    BY DEF SystemInv, Coherent
  <1>2. PICK up \in [Signer -> Seq(UpFrame)] : up = toC
    BY <1>1
  <1>3. PICK p : p = peer
    OBVIOUS
  <1>4. PICK ss : ss = sessions
    OBVIOUS
  <1>5. PICK u : u = Tail(up[s])
    OBVIOUS
  <1>6. Orderly(sg, up, p, ss, d, arr) /\ up2 = [up EXCEPT ![s] = Tail(@)]
    BY <1>2, <1>3, <1>4
  <1>7. /\ k \in DOMAIN ss /\ DOMAIN x = DOMAIN ss
        /\ \A j \in DOMAIN ss :
             /\ x[j].pkg = ss[j].pkg /\ x[j].state = ss[j].state
             /\ x[j].id = ss[j].id /\ x[j].members = ss[j].members
    BY <1>1, <1>4, ShareStored
  <1>8. /\ x[k].shares[s] = m.share
        /\ \A r \in ss[k].members : r # s => x[k].shares[r] = ss[k].shares[r]
        /\ \A j \in DOMAIN ss : j # k => x[j] = ss[j]
    BY <1>1, <1>4, StoredWhere
  <1>9. \A r : LiveIn(r, x) = LiveIn(r, ss)
    BY <1>7 DEF LiveIn
  <1>10. \A r \in Honest \ {s} : SameFor(r, ss, x)
    <2> TAKE r \in Honest \ {s}
    <2>1. ASSUME NEW j \in LiveIn(r, ss)
          PROVE  x[j].id = ss[j].id /\ x[j].pkg = ss[j].pkg /\ x[j].shares[r] = ss[j].shares[r]
      <3>1. j \in DOMAIN ss /\ r \in ss[j].members
        BY <2>1 DEF LiveIn
      <3>2. x[j].shares[r] = ss[j].shares[r]
        BY <1>8, <3>1
      <3> QED
        BY <1>7, <3>1, <3>2
    <2> QED
      BY <1>9, <2>1 DEF SameFor
  <1>11. /\ y[s].commit = p[s].commit /\ y[s].sig = p[s].sig /\ y[s].session = p[s].session
         /\ y[s].phase = "SHARED" /\ \A r \in Signer \ {s} : y[r] = p[r]
    <2>1. PICK nid : nid = nextId
      OBVIOUS
    <2>2. PICK S : S = {s}
      OBVIOUS
    <2>3. TableOK(p, nid) /\ y = SetPhase(p, S, "SHARED") /\ s \in S
          /\ \A r \in Signer \ {s} : r \notin S
      BY <1>1, <1>3, <2>1, <2>2
    <2>4. /\ y[s].commit = p[s].commit /\ y[s].sig = p[s].sig /\ y[s].session = p[s].session
          /\ y[s].phase = "SHARED"
      BY <2>3, EntryAfter
    <2>5. ASSUME NEW r \in Signer, r # s PROVE y[r] = p[r]
      <3>1. r \notin S
        BY <2>2, <2>5
      <3> QED
        BY <2>3, <3>1, EntryAfter
    <2> QED
      BY <2>4, <2>5
  <1>12. Genuine(s, y[s], u, d[s])
    <2>1. Genuine(s, p[s], up[s], d[s]) /\ up[s] \in Seq(UpFrame) /\ up[s] # <<>>
      BY <1>2, <1>6 DEF Orderly
    <2>2. Genuine(s, p[s], u, d[s])
      BY <1>5, <2>1, GenuineTail
    <2> QED
      BY <1>11, <2>2, GenuineEntry
  <1>13. ASSUME s \in Honest PROVE Stage(s, arr[s], sg[s], y[s], u, d[s], x)
    <2>1. Stage(s, arr[s], sg[s], p[s], up[s], d[s], ss) /\ up[s] # <<>>
          /\ Head(up[s]).type = "SIG_SHARE"
      BY <1>2, <1>6, <1>13 DEF Orderly
    <2>2. arr[s] # 0 /\ u = <<>> /\ \E j \in DOMAIN ss :
            LiveIn(s, ss) = {j} /\ ss[j].id = p[s].session
            /\ Answering(s, sg[s], p[s], up[s], d[s], ss[j])
      <3>1. PICK e : e = p[s]
        OBVIOUS
      <3>2. PICK v : v = up[s]
        OBVIOUS
      <3>3. Stage(s, arr[s], sg[s], e, v, d[s], ss) /\ v # <<>> /\ Head(v).type # "COMMIT"
        BY <2>1, <3>1, <3>2
      <3>4. arr[s] # 0 /\ Tail(v) = <<>> /\ \E j \in DOMAIN ss :
              LiveIn(s, ss) = {j} /\ ss[j].id = e.session
              /\ Answering(s, sg[s], e, v, d[s], ss[j])
        BY <3>3, StageSpoke
      <3> QED
        BY <1>5, <3>1, <3>2, <3>4
    <2>3. k \in LiveIn(s, ss)
      BY <1>4 DEF ShareSlot, LiveIn
    <2>4. LiveIn(s, ss) = {k} /\ ss[k].id = p[s].session
          /\ Answering(s, sg[s], p[s], up[s], d[s], ss[k])
      BY <2>2, <2>3
    <2>5. PICK q : q = ss[k]
      OBVIOUS
    <2>6. PICK c : /\ up[s] = <<SigShare(Share(s, c, q.pkg, TRUE))>>
                   /\ <<s, c>> \in q.pkg.commits
      BY <2>4, <2>5 DEF Answering
    <2>7. PICK f : f = SigShare(Share(s, c, q.pkg, TRUE))
      OBVIOUS
    <2>8. m = f
      BY <1>2, <2>6, <2>7, FewFrames
    <2>9. m.share = Share(s, c, q.pkg, TRUE)
      <3>1. f.share = Share(s, c, q.pkg, TRUE)
        BY <2>7 DEF SigShare
      <3> QED
        BY <2>8, <3>1
    <2>10. PICK w : w = x[k]
      OBVIOUS
    <2>11. w.shares[s] = Share(s, c, w.pkg, TRUE) /\ <<s, c>> \in w.pkg.commits
           /\ w.id = q.id
      BY <1>7, <1>8, <2>5, <2>6, <2>9, <2>10
    <2>12. w.shares[s].nonce = c
      BY <2>11 DEF Share
    <2>13. ValidShare(w, s)
      BY <2>11, <2>12 DEF ValidShare
    <2>14. Rested(sg[s]) /\ d[s] = <<>>
      BY <2>4 DEF Answering
    <2>15. Shared(s, sg[s], y[s], u, d[s], w)
      BY <1>11, <2>2, <2>13, <2>14 DEF Shared
    <2>16. Engaged(s, sg[s], y[s], u, d[s], w)
      BY <1>11, <2>4, <2>5, <2>11, <2>15 DEF Engaged
    <2> QED
      BY <1>7, <1>9, <2>2, <2>4, <2>10, <2>16 DEF Stage
  <1>14. Turn(s, sg, up, p, ss, d, arr, y, x, d, arr)
    BY <1>2, <1>5, <1>6, <1>10, <1>11, <1>12, <1>13 DEF Turn
  <1> QED
    BY <1>6, <1>14, OrderlyPop

\* An identifiable abort names nobody honest, and asks the honest again.
LEMMA OrderlyCaught ==
  ASSUME NEW sg, NEW up, NEW p, NEW ss, Coherent(sg, up, p, ss, nextId, toS),
         arrived \in [Signer -> Nat], job \in Job, OnceInv,
         NEW q, q = toS, NEW arr, arr = arrived, Orderly(sg, up, p, ss, q, arr),
         NEW k \in DOMAIN ss, ss[k].state = "AWAITING", Caught(k, p, ss)
  PROVE  /\ Orderly(sg, up, peer', sessions', toS', arr)
         /\ blacklist' = blacklist \cup {Culprit(ss[k])} /\ strikes' = strikes
         /\ Culprit(ss[k]) \notin Honest
  <1>1. PICK culprit : culprit = Culprit(ss[k])
    OBVIOUS
  <1>2. /\ Contributors(ss[k]) = ss[k].members /\ culprit \in ss[k].members
        /\ ~ValidShare(ss[k], culprit) /\ FailCulprit(k, culprit, p, ss)
    BY <1>1 DEF Caught
  <1>3. PICK I : I = (ss[k].members \ {culprit}) \cap Connected
    OBVIOUS
  <1>4. PICK S : S = {culprit} \cap Connected
    OBVIOUS
  <1>5. PICK p1 : p1 = SetPhase(p, S, "BLACKLISTED")
    OBVIOUS
  <1>6. PICK p2 : p2 = Reset(p1, I, "INIT")
    OBVIOUS
  <1>7. PICK x : x = WithState(ss, k, "FAILED")
    OBVIOUS
  <1>8. PICK f : f = SignReq(job.tbs)
    OBVIOUS
  <1>9. PICK q2 : q2 = SendTo(q, I, f)
    OBVIOUS
  <1>10. PICK bl : bl = blacklist \cup {culprit}
    OBVIOUS
  <1>11. PICK st : st = strikes
    OBVIOUS
  <1>12. TryForm(p2, st, bl, x, q2)
    BY <1>2, <1>3, <1>4, <1>5, <1>6, <1>7, <1>8, <1>9, <1>10, <1>11, Zenon
       DEF FailCulprit, WithState
  <1>13. Coherent(sg, up, p1, ss, nextId, toS)
    BY <1>5, CoherentPhase
  <1>14. Coherent(sg, up, p2, ss, nextId, toS)
    BY <1>6, <1>13, CoherentReset
  <1>15. Coherent(sg, up, p2, x, nextId, q)
    <2>1. PICK y : y = [ss EXCEPT ![k].state = "FAILED"]
      OBVIOUS
    <2>2. Coherent(sg, up, p2, y, nextId, toS)
      BY <1>14, <2>1, CoherentState, Zenon
    <2>3. x = y
      BY <1>7, <2>1, Zenon DEF WithState
    <2> QED
      BY <2>2, <2>3
  <1>16. Coherent(sg, up, p2, x, nextId, q2)
    <2>1. f \in DownFrame /\ f.type # "RELAY_COMMIT"
      BY <1>8, RequestTyped
    <2> QED
      BY <1>9, <1>15, <2>1, CoherentSend
  <1>17. ASSUME NEW s \in Honest, s \in ss[k].members
         PROVE  /\ Shared(s, sg[s], p[s], up[s], q[s], ss[k]) /\ s # culprit /\ s \in I
    <2>1. s \in Signer /\ Stage(s, arr[s], sg[s], p[s], up[s], q[s], ss)
      BY HonestFacts DEF Orderly
    <2>2. k \in LiveIn(s, ss)
      BY <1>17 DEF LiveIn
    <2>3. arr[s] # 0 /\ Engaged(s, sg[s], p[s], up[s], q[s], ss[k])
      BY <2>1, <2>2 DEF Stage
    <2>4. ss[k].shares[s] # NoShare
      BY <1>2, <1>17 DEF Contributors
    <2>5. Shared(s, sg[s], p[s], up[s], q[s], ss[k])
      BY <2>3, <2>4 DEF Engaged, Called, Answering
    <2>6. ValidShare(ss[k], s)
      BY <2>5 DEF Shared
    <2>7. s \in Connected
      BY <2>1, <2>3 DEF Connected
    <2> QED
      BY <1>2, <1>3, <1>17, <2>5, <2>6, <2>7
  <1>18. culprit \notin Honest
    BY <1>2, <1>17
  <1>19. PICK nid : nid = nextId
    OBVIOUS
  <1>20. TableOK(p, nid) /\ TableOK(p1, nid) /\ SlotsOK(ss, nid)
         /\ q \in [Signer -> Seq(DownFrame)]
    BY <1>13, <1>19 DEF Coherent
  <1>21. \A s \in Signer : \/ p2[s].commit = NoCommit
                           \/ p2[s].commit = p[s].commit /\ p2[s].sig = p[s].sig
    <2> TAKE s \in Signer
    <2>1. p1[s].commit = p[s].commit /\ p1[s].sig = p[s].sig
      BY <1>5, <1>20, EntryAfter
    <2>2. p2[s] = p1[s] \/ p2[s].commit = NoCommit
      BY <1>6, <1>20, EntryAfter
    <2> QED
      BY <2>1, <2>2
  <1>22. \A s \in Honest : s \in ss[k].members =>
           /\ Shared(s, sg[s], p[s], up[s], q[s], ss[k])
           /\ p2[s] = Blank("INIT") /\ s \in I
    <2> TAKE s \in Honest
    <2> HAVE s \in ss[k].members
    <2>1. s \in I /\ Shared(s, sg[s], p[s], up[s], q[s], ss[k]) /\ s \in Signer
      BY <1>17, HonestFacts
    <2>2. p2[s] = Blank("INIT")
      BY <1>6, <1>20, <2>1, EntryAfter
    <2> QED
      BY <2>1, <2>2
  <1>23. \A s \in Honest : s \notin ss[k].members => p2[s] = p[s] /\ s \notin I
    <2> TAKE s \in Honest
    <2> HAVE s \notin ss[k].members
    <2>1. s \notin I /\ s \notin S /\ s \in Signer
      BY <1>2, <1>3, <1>4, HonestFacts
    <2>2. p1[s] = p[s] /\ p2[s] = p1[s]
      BY <1>5, <1>6, <1>20, <2>1, EntryAfter
    <2> QED
      BY <2>1, <2>2
  <1>24. f = SignReq(FirstTbs) /\ job.tbs = FirstTbs /\ job.replace = FALSE
    BY <1>8 DEF OnceInv
  <1>25. Orderly(sg, up, p2, x, q2, arr)
    <2>1. q2 = SendTo(q, I, SignReq(FirstTbs))
      BY <1>9, <1>24
    <2>2. Retires(k, I, sg, up, p, ss, q, p2)
      BY <1>21, <1>22, <1>23 DEF Retires
    <2> QED
      BY <1>7, <1>20, <2>1, <2>2, OrderlyRetire
  <1>26. Orderly(sg, up, peer', sessions', toS', arr)
    BY <1>12, <1>16, <1>24, <1>25, OrderlyTryForm
  <1>27. blacklist' = blacklist \cup {culprit} /\ strikes' = strikes
    BY <1>2 DEF FailCulprit
  <1> QED
    BY <1>1, <1>18, <1>26, <1>27

\* When a session expires and nothing is under way, the shares of its honest
\* members are in: none of them is struck, and they are asked again.
LEMMA OrderlyExpire ==
  ASSUME SystemInv, OnceInv, Orderly(signer, toC, peer, sessions, toS, arrived), Quiet,
         NEW k \in DOMAIN sessions, Expire(k)
  PROVE  /\ Orderly(signer, toC, peer', sessions', toS', arrived)
         /\ \A s \in Honest : strikes'[s] = strikes[s]
                              /\ (s \in blacklist' => s \in blacklist)
  <1>1. PICK C : C = Contributors(sessions[k]) \cap Connected
    OBVIOUS
  <1>2. PICK S : S = SilentMembers(sessions[k])
    OBVIOUS
  <1>3. PICK st : st = [s \in Signer |-> IF s \in S THEN strikes[s] + 1 ELSE strikes[s]]
    OBVIOUS
  <1>4. PICK O : O = Outcasts(S, st)
    OBVIOUS
  <1>5. PICK bl : bl = blacklist \cup O
    OBVIOUS
  <1>6. PICK p1 : p1 = SetPhase(peer, O, "BLACKLISTED")
    OBVIOUS
  <1>7. PICK p2 : p2 = Reset(p1, C, "INIT")
    OBVIOUS
  <1>8. PICK p3 : p3 = Reset(p2, S \ O, "SUSPECT")
    OBVIOUS
  <1>9. PICK ss : ss = sessions
    OBVIOUS
  <1>10. PICK x : x = WithState(ss, k, "FAILED")
    OBVIOUS
  <1>11. PICK f : f = SignReq(job.tbs)
    OBVIOUS
  <1>12. PICK q : q = toS
    OBVIOUS
  <1>13. PICK R : R = (C \cup S) \ O
    OBVIOUS
  <1>14. PICK q2 : q2 = SendTo(q, R, f)
    OBVIOUS
  <1>15. PICK sg : sg = signer
    OBVIOUS
  <1>16. PICK up : up = toC
    OBVIOUS
  <1>17. PICK arr : arr = arrived
    OBVIOUS
  <1>18. PICK p : p = peer
    OBVIOUS
  <1>19. /\ TryForm(p3, st, bl, x, q2) /\ ss[k].state = "AWAITING"
         /\ strikes' = st /\ blacklist' = bl
    BY <1>1, <1>2, <1>3, <1>4, <1>5, <1>6, <1>7, <1>8, <1>9, <1>10, <1>11, <1>12, <1>13,
       <1>14, Zenon DEF Expire, WithState
  <1>20. /\ Coherent(sg, up, p, ss, nextId, q) /\ Orderly(sg, up, p, ss, q, arr)
         /\ arrived \in [Signer -> Nat] /\ job \in Job
    BY <1>9, <1>12, <1>15, <1>16, <1>17, <1>18 DEF SystemInv, CertsOK, ListOK
  <1>21. Coherent(sg, up, p1, ss, nextId, q)
    BY <1>6, <1>18, <1>20, CoherentPhase
  <1>22. Coherent(sg, up, p2, ss, nextId, q)
    BY <1>7, <1>21, CoherentReset
  <1>23. Coherent(sg, up, p3, ss, nextId, q)
    BY <1>8, <1>22, CoherentReset
  <1>24. Coherent(sg, up, p3, x, nextId, q)
    <2>1. PICK y : y = [ss EXCEPT ![k].state = "FAILED"]
      OBVIOUS
    <2>2. k \in DOMAIN ss
      BY <1>9
    <2>3. Coherent(sg, up, p3, y, nextId, q)
      BY <1>23, <2>1, <2>2, CoherentState, Zenon
    <2>4. x = y
      BY <1>10, <2>1, Zenon DEF WithState
    <2> QED
      BY <2>3, <2>4
  <1>25. Coherent(sg, up, p3, x, nextId, q2)
    <2>1. f \in DownFrame /\ f.type # "RELAY_COMMIT"
      BY <1>11, <1>20, RequestTyped
    <2> QED
      BY <1>14, <1>24, <2>1, CoherentSend
  <1>26. O \in SUBSET S /\ \A s \in S : s \in ss[k].members /\ s \notin Contributors(ss[k])
    BY <1>2, <1>4, <1>9 DEF Outcasts, SilentMembers
  <1>27. ASSUME NEW s \in Honest, s \in ss[k].members
         PROVE  Shared(s, sg[s], p[s], up[s], q[s], ss[k]) /\ s \in C /\ s \notin S
    <2>1. s \in Signer /\ Stage(s, arr[s], sg[s], p[s], up[s], q[s], ss)
      BY <1>20, HonestFacts DEF Orderly
    <2>2. k \in LiveIn(s, ss)
      BY <1>9, <1>19, <1>27 DEF LiveIn
    <2>3. arr[s] # 0 /\ Engaged(s, sg[s], p[s], up[s], q[s], ss[k])
      BY <2>1, <2>2 DEF Stage
    <2>4. up[s] = <<>> /\ (sg[s].up => q[s] = <<>>)
      BY <1>12, <1>15, <1>16, <2>1 DEF Quiet
    <2>5. ~Called(s, sg[s], p[s], up[s], q[s], ss[k])
      <3> SUFFICES ASSUME Called(s, sg[s], p[s], up[s], q[s], ss[k]) PROVE FALSE
        OBVIOUS
      <3>1. sg[s].up /\ \E b : q[s] = <<RelayCommit(b)>>
        BY DEF Called, Ready
      <3>2. PICK g : q[s] = <<g>>
        BY <3>1
      <3> QED
        BY <2>4, <3>1, <3>2, FewFrames
    <2>6. ~Answering(s, sg[s], p[s], up[s], q[s], ss[k])
      <3> SUFFICES ASSUME Answering(s, sg[s], p[s], up[s], q[s], ss[k]) PROVE FALSE
        OBVIOUS
      <3>1. PICK g : up[s] = <<g>>
        BY DEF Answering
      <3> QED
        BY <2>4, <3>1, FewFrames
    <2>7. Shared(s, sg[s], p[s], up[s], q[s], ss[k])
      BY <2>3, <2>5, <2>6 DEF Engaged
    <2>8. ss[k].shares[s] # NoShare
      <3>1. PICK c : ss[k].shares[s] = Share(s, c, ss[k].pkg, TRUE)
        BY <2>7 DEF Shared, ValidShare
      <3>2. PICK h : h = ss[k].shares[s]
        OBVIOUS
      <3>3. h.by = s
        BY <3>1, <3>2 DEF Share
      <3>4. NoShare.by = 0
        BY DEF NoShare, Share
      <3>5. s # 0
        BY <2>1 DEF Signer
      <3> QED
        BY <3>2, <3>3, <3>4, <3>5
    <2>9. s \in Contributors(ss[k])
      BY <1>27, <2>8 DEF Contributors
    <2>10. s \in Connected
      BY <1>17, <1>20, <2>1, <2>3 DEF Connected
    <2> QED
      BY <1>1, <1>9, <1>26, <2>7, <2>9, <2>10
  <1>28. PICK nid : nid = nextId
    OBVIOUS
  <1>29. /\ TableOK(p, nid) /\ TableOK(p1, nid) /\ TableOK(p2, nid) /\ SlotsOK(ss, nid)
         /\ q \in [Signer -> Seq(DownFrame)] /\ p1 = SetPhase(p, O, "BLACKLISTED")
    BY <1>6, <1>18, <1>20, <1>21, <1>22, <1>28 DEF Coherent
  <1>30. PICK L : L = S \ O
    OBVIOUS
  <1>31. p3 = Reset(p2, L, "SUSPECT")
    BY <1>8, <1>30
  <1>32. \A s \in Signer : \/ p3[s].commit = NoCommit
                           \/ p3[s].commit = p[s].commit /\ p3[s].sig = p[s].sig
    <2> TAKE s \in Signer
    <2>1. p1[s].commit = p[s].commit /\ p1[s].sig = p[s].sig
      BY <1>29, EntryAfter
    <2>2. p2[s] = p1[s] \/ p2[s].commit = NoCommit
      BY <1>7, <1>29, EntryAfter
    <2>3. p3[s] = p2[s] \/ p3[s].commit = NoCommit
      BY <1>29, <1>31, EntryAfter
    <2> QED
      BY <2>1, <2>2, <2>3
  <1>33. \A s \in Honest : s \in ss[k].members =>
           /\ Shared(s, sg[s], p[s], up[s], q[s], ss[k])
           /\ p3[s] = Blank("INIT") /\ s \in R
    <2> TAKE s \in Honest
    <2> HAVE s \in ss[k].members
    <2>1. /\ Shared(s, sg[s], p[s], up[s], q[s], ss[k]) /\ s \in Signer
          /\ s \in C /\ s \notin S
      BY <1>27, HonestFacts
    <2>2. s \notin L /\ s \in R
      BY <1>13, <1>26, <1>30, <2>1
    <2>3. p2[s] = Blank("INIT") /\ p3[s] = p2[s]
      BY <1>7, <1>29, <1>31, <2>1, <2>2, EntryAfter
    <2> QED
      BY <2>1, <2>2, <2>3
  <1>34. \A s \in Honest : s \notin ss[k].members => p3[s] = p[s] /\ s \notin R
    <2> TAKE s \in Honest
    <2> HAVE s \notin ss[k].members
    <2>1. s \notin C /\ s \notin S /\ s \notin O /\ s \notin L /\ s \in Signer
      BY <1>1, <1>9, <1>26, <1>30, HonestFacts DEF Contributors
    <2>2. p1[s] = p[s] /\ p2[s] = p1[s] /\ p3[s] = p2[s]
      BY <1>7, <1>29, <1>31, <2>1, EntryAfter
    <2> QED
      BY <1>13, <2>1, <2>2
  <1>35. f = SignReq(FirstTbs) /\ job.tbs = FirstTbs /\ job.replace = FALSE
    BY <1>11 DEF OnceInv
  <1>36. Orderly(sg, up, p3, x, q2, arr)
    <2>1. q2 = SendTo(q, R, SignReq(FirstTbs))
      BY <1>14, <1>35
    <2>2. Retires(k, R, sg, up, p, ss, q, p3)
      BY <1>9, <1>19, <1>32, <1>33, <1>34 DEF Retires
    <2> QED
      BY <1>10, <1>20, <1>29, <2>1, <2>2, OrderlyRetire
  <1>37. Orderly(sg, up, peer', sessions', toS', arr)
    BY <1>19, <1>20, <1>25, <1>35, <1>36, OrderlyTryForm
  <1>38. ASSUME NEW s \in Honest
         PROVE  strikes'[s] = strikes[s] /\ (s \in blacklist' => s \in blacklist)
    <2>1. s \in Signer /\ s \notin S
      BY <1>26, <1>27, <1>38, HonestFacts
    <2> QED
      BY <1>3, <1>5, <1>19, <1>26, <2>1
  <1> QED
    BY <1>15, <1>16, <1>17, <1>37, <1>38

-----------------------------------------------------------------------------
(* A step of the system.                                                   *)

\* A share: filed, the certificate is written, or a culprit is named.
LEMMA PenaltyShare ==
  ASSUME CoordMayFail = FALSE, SystemInv, TbsInv, OnceInv, HonestNeverPenalised, ~done,
         Orderly(signer, toC, peer, sessions, toS, arrived),
         NEW s \in Signer, CoordinatorStep(s),
         NEW m, m = Head(toC[s]), m.type = "SIG_SHARE", OnSigShare(s, m)
  PROVE  /\ HonestNeverPenalised'
         /\ ~done' => Orderly(signer', toC', peer', sessions', toS', arrived')
  <1>1. /\ toC[s] # <<>> /\ signer' = signer /\ toC' = [toC EXCEPT ![s] = Tail(@)]
        /\ arrived' = arrived
    BY DEF CoordinatorStep, OnSigShare, listVars
  <1>2. /\ Coherent(signer, toC, peer, sessions, nextId, toS)
        /\ arrived \in [Signer -> Nat] /\ job \in Job
        /\ toC \in [Signer -> Seq(UpFrame)] /\ TableOK(peer, nextId)
    BY DEF SystemInv, CertsOK, ListOK, Coherent
  <1>3. PICK sg : sg = signer
    OBVIOUS
  <1>4. PICK up : up = toC
    OBVIOUS
  <1>5. PICK p : p = peer
    OBVIOUS
  <1>6. PICK ss : ss = sessions
    OBVIOUS
  <1>7. PICK d : d = toS
    OBVIOUS
  <1>8. PICK arr : arr = arrived
    OBVIOUS
  <1>9. PICK up2 : up2 = [toC EXCEPT ![s] = Tail(@)]
    OBVIOUS
  <1>10. ASSUME strikes' = strikes, blacklist' = blacklist PROVE HonestNeverPenalised'
    BY <1>10 DEF HonestNeverPenalised
  <1>11. CASE ShareSlot(s) = {} /\ UNCHANGED <<roastVars, certVars>>
    <2>1. s \notin Honest
      <3> SUFFICES ASSUME s \in Honest PROVE FALSE
        OBVIOUS
      <3>1. PICK v : v = up[s]
        OBVIOUS
      <3>2. PICK e : e = p[s]
        OBVIOUS
      <3>3. Stage(s, arr[s], sg[s], e, v, d[s], ss) /\ v # <<>> /\ Head(v).type # "COMMIT"
        BY <1>1, <1>3, <1>4, <1>5, <1>6, <1>7, <1>8, <3>1, <3>2 DEF Orderly
      <3>4. PICK k \in DOMAIN ss : LiveIn(s, ss) = {k} /\ ss[k].id = e.session
        BY <3>3, StageSpoke
      <3>5. k \in LiveIn(s, ss)
        BY <3>4
      <3>6. k \in ShareSlot(s)
        BY <1>5, <1>6, <3>2, <3>4, <3>5 DEF LiveIn, ShareSlot
      <3> QED
        BY <1>11, <3>6
    <2>2. Genuine(s, p[s], Tail(up[s]), d[s])
      <3>1. Genuine(s, p[s], up[s], d[s]) /\ up[s] \in Seq(UpFrame) /\ up[s] # <<>>
        BY <1>1, <1>2, <1>4, <1>5, <1>7 DEF Orderly
      <3> QED
        BY <3>1, GenuineTail
    <2>3. Turn(s, sg, up, p, ss, d, arr, p, ss, d, arr)
      BY <1>2, <1>3, <1>4, <1>5, <1>6, <1>7, <1>8, <2>1, <2>2, SameForSelf DEF Turn
    <2>4. up2 = [up EXCEPT ![s] = Tail(@)]
      BY <1>4, <1>9
    <2>5. Orderly(sg, up2, p, ss, d, arr)
      BY <2>3, <2>4, OrderlyPop
    <2>6. peer' = peer /\ sessions' = sessions /\ toS' = toS
          /\ strikes' = strikes /\ blacklist' = blacklist
      BY <1>11 DEF roastVars
    <2>7. Orderly(signer', toC', peer', sessions', toS', arrived')
      BY <1>1, <1>3, <1>5, <1>6, <1>7, <1>8, <1>9, <2>5, <2>6
    <2> QED
      BY <1>10, <2>6, <2>7
  <1>12. ASSUME NEW k \in ShareSlot(s), NEW x, x = StoreShare(k, s, m),
                NEW y, y = SetPhase(peer, {s}, "SHARED"), Settles(k, y, x)
         PROVE  /\ HonestNeverPenalised'
                /\ ~done' => Orderly(signer', toC', peer', sessions', toS', arrived')
    <2>1. Orderly(sg, up2, y, x, d, arr)
      BY <1>1, <1>3, <1>7, <1>8, <1>9, <1>12, OrderlyStore
    <2>2. CASE Filed(y, x)
      <3>1. peer' = y /\ sessions' = x /\ toS' = toS /\ strikes' = strikes
            /\ blacklist' = blacklist
        BY <2>2 DEF Filed
      <3>2. Orderly(signer', toC', peer', sessions', toS', arrived')
        BY <1>1, <1>3, <1>7, <1>8, <1>9, <2>1, <3>1
      <3> QED
        BY <1>10, <3>1, <3>2
    <2>3. CASE Won(k, y, x)
      BY <1>10, <2>3 DEF Won
    <2>4. CASE Caught(k, y, x)
      <3>1. k \in DOMAIN x /\ x[k].state = "AWAITING"
        <4>1. /\ k \in DOMAIN sessions /\ DOMAIN x = DOMAIN sessions
              /\ \A j \in DOMAIN sessions : x[j].state = sessions[j].state
              /\ sessions[k].state = "AWAITING"
          BY <1>1, <1>2, <1>12, ShareStored
        <4> QED
          BY <4>1
      <3>2. Coherent(sg, up2, y, x, nextId, toS)
        <4>1. k \in DOMAIN sessions /\ sessions[k].id = peer[s].session
              /\ s \in sessions[k].members
          BY <1>12 DEF ShareSlot
        <4>2. Coherent(signer, up2, peer, x, nextId, toS)
          BY <1>1, <1>2, <1>9, <1>12, <4>1, CoherentStoreShare, Zenon DEF StoreShare
        <4>3. Coherent(signer, up2, y, x, nextId, toS)
          BY <1>12, <4>2, CoherentPhase
        <4> QED
          BY <1>3, <4>3
      <3>3. /\ Orderly(sg, up2, peer', sessions', toS', arr)
            /\ blacklist' = blacklist \cup {Culprit(x[k])} /\ strikes' = strikes
            /\ Culprit(x[k]) \notin Honest
        BY <1>2, <1>7, <1>8, <2>1, <2>4, <3>1, <3>2, OrderlyCaught
      <3>4. Orderly(signer', toC', peer', sessions', toS', arrived')
        BY <1>1, <1>3, <1>8, <1>9, <3>3
      <3>5. HonestNeverPenalised'
        BY <3>3 DEF HonestNeverPenalised
      <3> QED
        BY <3>4, <3>5
    <2> QED
      BY <1>12, <2>2, <2>3, <2>4 DEF Settles
  <1>13. PICK y : y = SetPhase(peer, {s}, "SHARED")
    OBVIOUS
  <1>14. ASSUME NEW k \in ShareSlot(s), Settles(k, y, StoreShare(k, s, m))
         PROVE  /\ HonestNeverPenalised'
                /\ ~done' => Orderly(signer', toC', peer', sessions', toS', arrived')
    <2>1. PICK x : x = StoreShare(k, s, m)
      OBVIOUS
    <2> QED
      BY <1>12, <1>13, <1>14, <2>1
  <1> QED
    BY <1>1, <1>11, <1>13, <1>14, ShareCases

\* The other frames come from signers that have no key or have ended.
LEMMA OrderlyOther ==
  ASSUME SystemInv, Orderly(signer, toC, peer, sessions, toS, arrived),
         NEW s \in Signer, CoordinatorStep(s),
         NEW m, m = Head(toC[s]),
         \/ m.type = "SHARE_LOAD_FAIL" /\ OnShareLoadFail(s)
         \/ m.type = "CLOSED" /\ OnClosed(s)
  PROVE  Orderly(signer', toC', peer', sessions', toS', arrived')
  <1>1. toC[s] # <<>> /\ signer' = signer /\ toC' = [toC EXCEPT ![s] = Tail(@)]
    BY DEF CoordinatorStep
  <1>2. /\ toC \in [Signer -> Seq(UpFrame)] /\ TableOK(peer, nextId)
        /\ toS \in [Signer -> Seq(DownFrame)] /\ arrived \in [Signer -> 0..arrivals]
    BY DEF SystemInv, ListOK, Coherent
  <1>3. PICK sg : sg = signer
    OBVIOUS
  <1>4. PICK up : up = toC
    OBVIOUS
  <1>5. PICK p : p = peer
    OBVIOUS
  <1>6. PICK ss : ss = sessions
    OBVIOUS
  <1>7. PICK d : d = toS
    OBVIOUS
  <1>8. PICK arr : arr = arrived
    OBVIOUS
  <1>9. PICK up2 : up2 = [up EXCEPT ![s] = Tail(@)]
    OBVIOUS
  <1>10. Orderly(sg, up, p, ss, d, arr) /\ up \in [Signer -> Seq(UpFrame)]
    BY <1>2, <1>3, <1>4, <1>5, <1>6, <1>7, <1>8
  <1>11. s \notin Honest
    <2> SUFFICES ASSUME s \in Honest PROVE FALSE
      OBVIOUS
    <2>1. PICK v : v = up[s]
      OBVIOUS
    <2>2. Stage(s, arr[s], sg[s], p[s], v, d[s], ss) /\ v # <<>>
      BY <1>1, <1>4, <1>10, <2>1 DEF Orderly
    <2>3. Head(v).type \in {"COMMIT", "SIG_SHARE"}
      BY <2>2, StageSpoke
    <2> QED
      BY <1>4, <2>1, <2>3
  <1>12. Genuine(s, p[s], Tail(up[s]), d[s])
    <2>1. Genuine(s, p[s], up[s], d[s]) /\ up[s] \in Seq(UpFrame) /\ up[s] # <<>>
      BY <1>1, <1>4, <1>10 DEF Orderly
    <2> QED
      BY <2>1, GenuineTail
  <1>13. CASE OnShareLoadFail(s)
    <2>1. PICK y : y = SetPhase(peer, {s}, "NO_KEY")
      OBVIOUS
    <2>2. peer' = y /\ sessions' = sessions /\ toS' = toS /\ arrived' = arrived
      BY <1>13, <2>1 DEF OnShareLoadFail, listVars
    <2>3. PICK nid : nid = nextId
      OBVIOUS
    <2>4. PICK S : S = {s}
      OBVIOUS
    <2>5. TableOK(p, nid) /\ y = SetPhase(p, S, "NO_KEY")
      BY <1>2, <1>5, <2>1, <2>3, <2>4
    <2>6. ASSUME NEW r \in Signer, r # s PROVE y[r] = p[r]
      <3>1. r \notin S
        BY <2>4, <2>6
      <3> QED
        BY <2>5, <3>1, EntryAfter
    <2>7. Genuine(s, y[s], Tail(up[s]), d[s])
      <3>1. y[s].commit = p[s].commit /\ y[s].sig = p[s].sig
        BY <2>5, EntryAfter
      <3> QED
        BY <1>12, <3>1, GenuineEntry
    <2>8. Turn(s, sg, up, p, ss, d, arr, y, ss, d, arr)
      BY <1>10, <1>11, <2>6, <2>7, SameForSelf DEF Turn
    <2>9. Orderly(sg, up2, y, ss, d, arr)
      BY <1>9, <2>8, OrderlyPop
    <2> QED
      BY <1>1, <1>3, <1>4, <1>6, <1>7, <1>8, <1>9, <2>2, <2>9
  <1>14. CASE OnClosed(s)
    <2>1. PICK d2 : d2 = [toS EXCEPT ![s] = <<>>]
      OBVIOUS
    <2>2. PICK arr2 : arr2 = [arrived EXCEPT ![s] = 0]
      OBVIOUS
    <2>3. peer' = peer /\ sessions' = sessions /\ toS' = d2 /\ arrived' = arr2
      BY <1>14, <2>1, <2>2 DEF OnClosed
    <2>4. d2[s] = <<>> /\ \A r \in Signer \ {s} : d2[r] = d[r] /\ arr2[r] = arr[r]
      BY <1>2, <1>7, <1>8, <2>1, <2>2
    <2>5. Genuine(s, p[s], Tail(up[s]), d2[s])
      <3>1. Range(<<>>) = {}
        BY DEF Range
      <3> QED
        BY <1>12, <2>4, <3>1 DEF Genuine
    <2>6. Turn(s, sg, up, p, ss, d, arr, p, ss, d2, arr2)
      BY <1>10, <1>11, <2>4, <2>5, SameForSelf DEF Turn
    <2>7. Orderly(sg, up2, p, ss, d2, arr2)
      BY <1>9, <2>6, OrderlyPop
    <2> QED
      BY <1>1, <1>3, <1>4, <1>5, <1>6, <1>9, <2>3, <2>7
  <1> QED
    BY <1>13, <1>14

\* Nobody is struck or named once the certificate is written.
LEMMA DoneNoPenalty ==
  ASSUME CoordMayFail = FALSE, SystemInv, TbsInv, OnceInv, done, [Next]_vars
  PROVE  done' /\ strikes' = strikes /\ blacklist' = blacklist
  <1>1. done'
    BY OnceStep DEF MintStep
  <1>2. ASSUME NEW s \in Signer, CoordinatorStep(s)
        PROVE  strikes' = strikes /\ blacklist' = blacklist
    <2>1. PICK m : m = Head(toC[s])
      OBVIOUS
    <2>2. toC[s] # <<>> /\ ProcessSignerFrame(s, m)
      BY <1>2, <2>1 DEF CoordinatorStep
    <2>3. CASE m.type = "SIG_SHARE" /\ OnSigShare(s, m)
      <3>1. CASE UNCHANGED <<roastVars, certVars>>
        BY <3>1 DEF roastVars
      <3>2. ASSUME NEW k, NEW y, NEW x, Settles(k, y, x)
            PROVE  strikes' = strikes /\ blacklist' = blacklist
        <4>1. Filed(y, x)
          BY <3>2 DEF Settles, Won, Caught
        <4> QED
          BY <4>1 DEF Filed
      <3>3. PICK y : y = SetPhase(peer, {s}, "SHARED")
        OBVIOUS
      <3>4. ASSUME NEW k \in ShareSlot(s), Settles(k, y, StoreShare(k, s, m))
            PROVE  strikes' = strikes /\ blacklist' = blacklist
        <4>1. PICK x : x = StoreShare(k, s, m)
          OBVIOUS
        <4> QED
          BY <3>2, <3>4, <4>1
      <3> QED
        BY <2>1, <2>2, <2>3, <3>1, <3>3, <3>4, ShareCases
    <2> QED
      BY <2>2, <2>3 DEF ProcessSignerFrame, OnShareLoadFail, OnCommit, OnClosed, roastVars
  <1> QED
    BY <1>1, <1>2 DEF Next, SignerStep, Connect, Register, Crash, Timeout, Expire, LoopTop,
                      NextCert, Exit, Finished, vars, coordVars, roastVars

\* PenaltyInv is inductive.
LEMMA PenaltyInvNext ==
  ASSUME PromptSigners = TRUE, CoordMayFail = FALSE, CoreMayFail = FALSE,
         SystemInv, TbsInv, OnceInv, PenaltyInv, [Next]_vars
  PROVE  PenaltyInv'
  <1>1. /\ Coherent(signer, toC, peer, sessions, nextId, toS) /\ ListOK
        /\ arrived \in [Signer -> Nat] /\ job \in Job
    BY DEF SystemInv, ListOK, CertsOK
  <1>2. HonestNeverPenalised
    BY DEF PenaltyInv
  <1>3. ASSUME strikes' = strikes, blacklist' = blacklist PROVE HonestNeverPenalised'
    BY <1>2, <1>3 DEF HonestNeverPenalised
  <1>4. CASE done
    BY <1>3, <1>4, DoneNoPenalty DEF PenaltyInv
  <1>5. CASE ~done
    <2>1. Orderly(signer, toC, peer, sessions, toS, arrived)
      BY <1>5 DEF PenaltyInv
    <2>2. ASSUME /\ HonestNeverPenalised'
                 /\ ~done' => Orderly(signer', toC', peer', sessions', toS', arrived')
          PROVE  PenaltyInv'
      BY <2>2 DEF PenaltyInv
    <2>3. ASSUME NEW s \in Signer, SignerStep(s) \/ Crash(s) PROVE PenaltyInv'
      <3>1. Orderly(signer', toC', peer, sessions, toS', arrived)
        BY <1>1, <2>1, <2>3, OrderlySigner, OrderlyCrash
      <3>2. peer' = peer /\ sessions' = sessions /\ arrived' = arrived
            /\ strikes' = strikes /\ blacklist' = blacklist
        BY <2>3 DEF SignerStep, Crash, coordVars
      <3>3. Orderly(signer', toC', peer', sessions', toS', arrived')
        BY <3>1, <3>2
      <3> QED
        BY <1>3, <2>2, <3>2, <3>3
    <2>4. ASSUME NEW s \in Signer, CoordinatorStep(s) PROVE PenaltyInv'
      <3>1. PICK m : m = Head(toC[s])
        OBVIOUS
      <3>2. ProcessSignerFrame(s, m)
        BY <2>4, <3>1 DEF CoordinatorStep
      <3>3. CASE m.type = "COMMIT" /\ OnCommit(s, m)
        <4>1. Orderly(signer', toC', peer', sessions', toS', arrived')
          BY <2>1, <2>4, <3>1, <3>3, OrderlyCommit
        <4>2. strikes' = strikes /\ blacklist' = blacklist
          BY <3>3 DEF OnCommit, roastVars
        <4> QED
          BY <1>3, <2>2, <4>1, <4>2
      <3>4. CASE m.type = "SIG_SHARE" /\ OnSigShare(s, m)
        BY <1>2, <1>5, <2>1, <2>2, <2>4, <3>1, <3>4, PenaltyShare
      <3>5. CASE \/ m.type = "SHARE_LOAD_FAIL" /\ OnShareLoadFail(s)
                 \/ m.type = "CLOSED" /\ OnClosed(s)
        <4>1. Orderly(signer', toC', peer', sessions', toS', arrived')
          BY <2>1, <2>4, <3>1, <3>5, OrderlyOther
        <4>2. strikes' = strikes /\ blacklist' = blacklist
          BY <3>5 DEF OnShareLoadFail, OnClosed
        <4> QED
          BY <1>3, <2>2, <4>1, <4>2
      <3> QED
        BY <3>2, <3>3, <3>4, <3>5 DEF ProcessSignerFrame
    <2>5. ASSUME NEW s \in Signer, Connect(s) PROVE PenaltyInv'
      <3>1. Orderly(signer', toC', peer', sessions', toS', arrived')
        BY <1>1, <2>1, <2>5, OrderlyConnect DEF OnceInv
      <3>2. strikes' = strikes /\ blacklist' = blacklist
        BY <2>5 DEF Connect, Register
      <3> QED
        BY <1>3, <2>2, <3>1, <3>2
    <2>6. CASE Timeout
      <3>1. PICK k \in DOMAIN sessions : Expire(k)
        BY <2>6 DEF Timeout
      <3>2. Quiet /\ signer' = signer /\ toC' = toC /\ arrived' = arrived
        BY <2>6, <3>1 DEF Timeout, Expire, listVars
      <3>3. /\ Orderly(signer, toC, peer', sessions', toS', arrived)
            /\ \A s \in Honest : strikes'[s] = strikes[s]
                                 /\ (s \in blacklist' => s \in blacklist)
        BY <2>1, <3>1, <3>2, OrderlyExpire
      <3>4. Orderly(signer', toC', peer', sessions', toS', arrived')
        BY <3>2, <3>3
      <3>5. HonestNeverPenalised'
        BY <1>2, <3>3 DEF HonestNeverPenalised
      <3> QED
        BY <2>2, <3>4, <3>5
    <2>7. CASE LoopTop \/ Finished \/ UNCHANGED vars
      <3>1. /\ signer' = signer /\ toC' = toC /\ peer' = peer /\ sessions' = sessions
            /\ toS' = toS /\ arrived' = arrived
            /\ strikes' = strikes /\ blacklist' = blacklist
        BY <1>5, <2>7 DEF LoopTop, NextCert, Exit, Finished, vars, coordVars, roastVars,
                          listVars
      <3>2. Orderly(signer', toC', peer', sessions', toS', arrived')
        BY <2>1, <3>1
      <3> QED
        BY <1>3, <2>2, <3>1, <3>2
    <2> QED
      BY <2>3, <2>4, <2>5, <2>6, <2>7 DEF Next
  <1> QED
    BY <1>4, <1>5

\* The invariants hold when main enters the event loop.
LEMMA PenaltyInit ==
  ASSUME ToMint = 1, ReplaceTbs = {FALSE}, Init
  PROVE  TbsInv /\ OnceInv /\ PenaltyInv
  <1>1. /\ job.tbs = FirstTbs /\ job.template = 1 /\ job.replace = FALSE /\ job.toMint = 1
        /\ done = FALSE /\ sessions = <<>>
    BY DEF Init, FirstTbs
  <1>2. TbsInv /\ OnceInv
    BY <1>1 DEF TbsInv, OnceInv
  <1>3. HonestNeverPenalised
    BY HonestFacts DEF Init, HonestNeverPenalised
  <1>4. ASSUME NEW s \in Signer
        PROVE  /\ Genuine(s, peer[s], toC[s], toS[s])
               /\ s \in Honest => Stage(s, arrived[s], signer[s], peer[s], toC[s], toS[s],
                                        sessions)
    <2>1. PICK h : h = HelloAck("S")
      OBVIOUS
    <2>2. PICK f : f = SignReq(FirstTbs)
      OBVIOUS
    <2>3. /\ peer[s] = Blank("INIT") /\ toC[s] = <<>>
          /\ toS[s] = IF s \in Enrolled THEN <<h, f>> ELSE <<>>
          /\ signer[s] = [FreshSigner(0) EXCEPT !.up = s \in Enrolled]
      BY <1>1, <2>1, <2>2 DEF Init
    <2>4. peer[s].commit = NoCommit /\ peer[s].phase = "INIT"
      BY <2>3 DEF Blank
    <2>5. LiveIn(s, sessions) = {}
      BY <1>1 DEF LiveIn
    <2>6. Range(<<>>) = {} /\ \A g \in Range(<<h, f>>) : g = h \/ g = f
      BY DEF Range
    <2>7. Asks(h) /\ Asks(f)
      BY <2>1, <2>2 DEF Asks, HelloAck, SignReq
    <2>8. Genuine(s, peer[s], toC[s], toS[s])
      BY <2>3, <2>4, <2>6, <2>7 DEF Genuine, Asks
    <2>9. CASE s \in Enrolled
      <3>1. arrived[s] # 0
        <4>1. PICK i \in DOMAIN Roster : Roster[i] = s
          BY <2>9 DEF Enrolled
        <4>2. arrived[s] = CHOOSE j \in DOMAIN Roster : Roster[j] = s
          BY <2>9 DEF Init
        <4>3. arrived[s] \in DOMAIN Roster
          BY <4>1, <4>2
        <4> QED
          BY <4>3, SystemAssumption
      <3>2. Rested(signer[s])
        BY <2>3, <2>9 DEF Rested, FreshSigner
      <3>3. Asked(signer[s], peer[s], toC[s], toS[s])
        BY <2>1, <2>2, <2>3, <2>4, <2>9, <3>2 DEF Asked
      <3> QED
        BY <2>5, <2>8, <3>1, <3>3 DEF Stage, Free
    <2>10. CASE s \notin Enrolled
      <3>1. arrived[s] = 0
        BY <2>10 DEF Init
      <3>2. signer[s].up = FALSE
        <4>1. PICK b : b = (s \in Enrolled)
          OBVIOUS
        <4>2. b = FALSE
          <5>1. FALSE = (s \in Enrolled)
            BY <2>10
          <5> QED
            BY <4>1, <5>1, Zenon
        <4>3. signer[s] = [FreshSigner(0) EXCEPT !.up = b]
          BY <2>3, <4>1, Zenon
        <4>4. signer[s].up = b
          BY <4>3 DEF FreshSigner
        <4> QED
          BY <4>2, <4>4
      <3>3. Absent(signer[s], peer[s], toC[s], toS[s])
        BY <2>3, <2>4, <2>10, <3>2 DEF Absent
      <3> QED
        BY <2>5, <2>8, <3>1, <3>3 DEF Stage, Free
    <2> QED
      BY <2>9, <2>10
  <1>5. Orderly(signer, toC, peer, sessions, toS, arrived)
    BY <1>4 DEF Orderly
  <1> QED
    BY <1>2, <1>3, <1>5 DEF PenaltyInv

\* Strikes and the blacklist hit only those who earned them.  For one
\* certificate, with cores that run and no altered message, a signer that has
\* its key and no fault and answers within the timeout is never struck by
\* roast_expire_sessions and never named by roast_fail_culprit: whatever the
\* others send, and whenever they crash and register again.
THEOREM SystemHonestNeverPenalised ==
  ASSUME PromptSigners = TRUE, ToMint = 1, CoordMayFail = FALSE, CoreMayFail = FALSE,
         ReplaceTbs = {FALSE}
  PROVE  Spec => []HonestNeverPenalised
  <1>1. Init => TbsInv /\ OnceInv /\ PenaltyInv
    BY PenaltyInit
  <1>2. SystemInv /\ TbsInv /\ [Next]_vars => TbsInv'
    BY TbsInvNext
  <1>3. SystemInv /\ TbsInv /\ OnceInv /\ [Next]_vars => OnceInv'
    BY OnceInvNext
  <1>4. SystemInv /\ TbsInv /\ OnceInv /\ PenaltyInv /\ [Next]_vars => PenaltyInv'
    BY PenaltyInvNext
  <1>5. PenaltyInv => HonestNeverPenalised
    BY DEF PenaltyInv
  <1>6. Spec => []SystemInv
    BY SystemInvariant
  <1> QED
    BY <1>1, <1>2, <1>3, <1>4, <1>5, <1>6, PTL DEF Spec

-----------------------------------------------------------------------------
(* While no process crashes: who can be a member of a session.             *)

\* A signer with --fault dropout ends before it commits, the others do not end:
\* a commitment in the table is of a signer that is connected.
Stays(s, a, p, u) ==
  IF Fault[s] = "dropout"
    THEN p.commit = NoCommit /\ \A f \in Range(u) : f.type # "COMMIT"
    ELSE /\ p.commit # NoCommit => a # 0
         /\ \A f \in Range(u) : f.type # "CLOSED"

\* Every signer's entry and frames are as Stays says.
Steady == \A s \in Signer : Stays(s, arrived[s], peer[s], toC[s])

\* Only a dropout ends while it handles a frame, and it sends no commitment.
LEMMA SignerSends ==
  ASSUME NEW s \in Signer, signer[s] \in SignerRecord, NEW m, ProcessCoordFrame(s, m)
  PROVE  \/ Fault[s] = "dropout" /\ Die(s)
         \/ \E r : Return(s, r)
         \/ \E r, f : /\ Reply(s, r, f) /\ f.type # "CLOSED"
                      /\ f.type = "COMMIT" => Fault[s] # "dropout"
  <1> DEFINE Goal == \/ Fault[s] = "dropout" /\ Die(s)
                     \/ \E r : Return(s, r)
                     \/ \E r, f : /\ Reply(s, r, f) /\ f.type # "CLOSED"
                                  /\ f.type = "COMMIT" => Fault[s] # "dropout"
  <1>1. ASSUME NEW r, Return(s, r) PROVE Goal
    BY <1>1
  <1>2. ASSUME NEW r, NEW f, f.type # "COMMIT", f.type # "CLOSED", Reply(s, r, f) PROVE Goal
    BY <1>2
  <1>3. PICK g \in SignerRecord : g = signer[s]
    OBVIOUS
  <1>4. ShareLoadFail.type # "COMMIT" /\ ShareLoadFail.type # "CLOSED"
    BY DEF ShareLoadFail
  <1>5. CASE OnHelloAck(s, m)
    <2>1. \E r : Reply(s, r, ShareLoadFail) \/ Return(s, r)
      BY <1>5, Zenon DEF OnHelloAck
    <2> QED
      BY <1>1, <1>2, <1>4, <2>1
  <1>6. CASE OnSignReq(s, m)
    <2>1. PICK r : r = [g EXCEPT !.key = TRUE, !.tbs = m.tbs, !.state = "SIGNING"]
      OBVIOUS
    <2>2. ASSUME NEW x, Fault[s] # "dropout", Offer(s, x) PROVE Goal
      <3>1. PICK f : f = Commit(x.commit, Attestation(s, x.tbs, x.commit))
        OBVIOUS
      <3>2. PICK y : y = [x EXCEPT !.pre = FALSE]
        OBVIOUS
      <3>3. Reply(s, y, f)
        BY <2>2, <3>1, <3>2, Zenon DEF Offer
      <3>4. f.type # "CLOSED"
        BY <3>1 DEF Commit
      <3> QED
        BY <2>2, <3>3, <3>4
    <2>3. \/ Fault[s] = "dropout" /\ Die(s)
          \/ Return(s, signer[s]) \/ Reply(s, signer[s], ShareLoadFail)
          \/ Fault[s] # "dropout" /\ Offer(s, r)
          \/ Fault[s] # "dropout" /\ \E ok \in CoreOutcome :
               IF ok THEN Offer(s, TryDraw(s, r, ok)) ELSE Return(s, TryDraw(s, r, ok))
      BY <1>3, <1>6, <2>1, Zenon DEF OnSignReq
    <2>4. CASE Return(s, signer[s])
      BY <1>1, <1>3, <2>4
    <2>5. CASE Reply(s, signer[s], ShareLoadFail)
      BY <1>2, <1>3, <1>4, <2>5
    <2>6. ASSUME NEW ok \in CoreOutcome, Fault[s] # "dropout",
                 IF ok THEN Offer(s, TryDraw(s, r, ok)) ELSE Return(s, TryDraw(s, r, ok))
          PROVE  Goal
      <3>1. PICK x : x = TryDraw(s, r, ok)
        OBVIOUS
      <3>2. Offer(s, x) \/ Return(s, x)
        BY <2>6, <3>1
      <3> QED
        BY <1>1, <2>2, <2>6, <3>2
    <2> QED
      BY <2>2, <2>3, <2>4, <2>5, <2>6
  <1>7. CASE OnRelayCommit(s, m)
    <2>1. \/ \E r : Return(s, r)
          \/ \E r, h : Reply(s, r, SigShare(h))
      BY <1>7, Zenon DEF OnRelayCommit
    <2>2. ASSUME NEW r, NEW h, Reply(s, r, SigShare(h)) PROVE Goal
      <3>1. PICK f : f = SigShare(h)
        OBVIOUS
      <3>2. f.type # "COMMIT" /\ f.type # "CLOSED"
        BY <3>1 DEF SigShare
      <3> QED
        BY <1>2, <2>2, <3>1, <3>2
    <2> QED
      BY <1>1, <2>1, <2>2
  <1>8. CASE OnCertOutput(s) \/ OnStartDkg(s, m) \/ OnStartRefresh(s, m) \/ OnDkgRound(s, m)
    <2>1. \E r : Return(s, r)
      BY <1>8, Zenon DEF OnCertOutput, OnStartDkg, OnStartRefresh, OnDkgRound
    <2> QED
      BY <2>1
  <1> QED
    BY <1>5, <1>6, <1>7, <1>8 DEF ProcessCoordFrame

\* A step of a signer keeps Steady.
LEMMA SteadySigner ==
  ASSUME SystemInv, Steady, NEW s \in Signer, SignerStep(s)
  PROVE  Steady'
  <1>1. /\ signer \in [Signer -> SignerRecord] /\ toC \in [Signer -> Seq(UpFrame)]
    BY DEF SystemInv, Coherent, SignersOK
  <1>2. PICK m : m = Head(toS[s])
    OBVIOUS
  <1>3. ProcessCoordFrame(s, m) /\ peer' = peer /\ arrived' = arrived
    BY <1>2 DEF SignerStep, coordVars
  <1>4. \/ Fault[s] = "dropout" /\ Die(s)
        \/ \E r : Return(s, r)
        \/ \E r, f : /\ Reply(s, r, f) /\ f.type # "CLOSED"
                     /\ f.type = "COMMIT" => Fault[s] # "dropout"
    BY <1>1, <1>3, SignerSends
  <1>5. PICK u \in Seq(UpFrame) : u = toC[s]
    BY <1>1
  <1>6. Stays(s, arrived[s], peer[s], u)
    BY <1>5 DEF Steady
  <1>7. ASSUME NEW v, NEW S, v \in Seq(S), Range(v) \in SUBSET Range(u), NEW f,
               Fault[s] = "dropout" => f.type # "COMMIT",
               Fault[s] # "dropout" => f.type # "CLOSED", toC'[s] = Append(v, f)
        PROVE  Stays(s, arrived[s], peer[s], toC'[s])
    <2>1. PICK R : R = S \cup {f}
      OBVIOUS
    <2>2. v \in Seq(R) /\ f \in R
      BY <1>7, <2>1
    <2>3. Range(Append(v, f)) = Range(v) \cup {f}
      BY <2>2, FramesOf
    <2> QED
      BY <1>6, <1>7, <2>3 DEF Stays
  <1>8. Stays(s, arrived[s], peer[s], toC'[s])
    <2>1. CASE Fault[s] = "dropout" /\ Die(s)
      <3>1. PICK k \in 0..Len(u) : toC' = [toC EXCEPT ![s] = Append(SubSeq(@, 1, k), Closed)]
        BY <1>5, <2>1 DEF Die
      <3>2. PICK v : v = SubSeq(u, 1, k)
        OBVIOUS
      <3>3. v \in Seq(UpFrame) /\ Range(v) \in SUBSET Range(u)
        BY <3>2, FramesPrefix
      <3>4. PICK f : f = Closed
        OBVIOUS
      <3>5. toC'[s] = Append(v, f) /\ f.type # "COMMIT"
        BY <1>1, <1>5, <3>1, <3>2, <3>4 DEF Closed
      <3> QED
        BY <1>7, <2>1, <3>3, <3>5
    <2>2. CASE \E r : Return(s, r)
      BY <1>5, <1>6, <2>2 DEF Return
    <2>3. ASSUME NEW r, NEW f, Reply(s, r, f), f.type # "CLOSED",
                 f.type = "COMMIT" => Fault[s] # "dropout"
          PROVE  Stays(s, arrived[s], peer[s], toC'[s])
      <3>1. toC'[s] = Append(u, f)
        BY <1>1, <1>5, <2>3 DEF Reply
      <3> QED
        BY <1>7, <2>3, <3>1
    <2> QED
      BY <1>4, <2>1, <2>2, <2>3
  <1>9. ASSUME NEW x \in Signer, x # s PROVE toC'[x] = toC[x]
    BY <1>1, <1>4, <1>9, OthersStill
  <1> SUFFICES ASSUME NEW x \in Signer PROVE Stays(x, arrived'[x], peer'[x], toC'[x])
    BY DEF Steady
  <1>10. CASE x = s
    BY <1>3, <1>8, <1>10
  <1>11. CASE x # s
    BY <1>3, <1>9, <1>11 DEF Steady
  <1> QED
    BY <1>10, <1>11

\* No action of the coordinator but the storing of a commitment adds one.
LEMMA FormCommits ==
  ASSUME NEW p, NEW nid, TableOK(p, nid), NEW st, NEW bl, NEW ss, NEW q,
         TryForm(p, st, bl, ss, q), NEW s \in Signer
  PROVE  peer'[s].commit = p[s].commit
  <1>1. PICK e \in PeerRecord : e = p[s]
    BY DEF TableOK
  <1>2. CASE peer' = p
    BY <1>2
  <1>3. ASSUME NEW c, peer' = EnterSession(c, p) PROVE peer'[s].commit = p[s].commit
    <2>1. PICK w : w = [e EXCEPT !.phase = "IN_SESSION", !.session = nextId]
      OBVIOUS
    <2>2. w.commit = e.commit
      BY <2>1 DEF PeerRecord
    <2>3. peer'[s] = w \/ peer'[s] = e
      BY <1>1, <1>3, <2>1 DEF EnterSession
    <2> QED
      BY <1>1, <2>2, <2>3
  <1> QED
    BY <1>2, <1>3, Zenon DEF TryForm

\* A reset and a change of phase keep the table well formed.
LEMMA TableKept ==
  ASSUME NEW p, NEW nid \in Nat \ {0}, TableOK(p, nid), NEW S, NEW ph \in Phase
  PROVE  /\ TableOK(SetPhase(p, S, ph), nid) /\ TableOK(Reset(p, S, ph), nid)
         /\ \A s \in Signer : /\ SetPhase(p, S, ph)[s].commit = p[s].commit
                              /\ Reset(p, S, ph)[s].commit \in {p[s].commit, NoCommit}
  <1>1. PICK y : y = SetPhase(p, S, ph)
    OBVIOUS
  <1>2. PICK z : z = Reset(p, S, ph)
    OBVIOUS
  <1>3. ASSUME NEW s \in Signer
        PROVE  /\ y[s] \in PeerRecord /\ y[s].session = p[s].session
               /\ y[s].commit = p[s].commit /\ y[s].sig = p[s].sig
               /\ z[s] = p[s] \/ z[s] = Blank(ph)
    <2>1. PICK e \in PeerRecord : e = p[s]
      BY DEF TableOK
    <2>2. PICK w : w = [e EXCEPT !.phase = ph]
      OBVIOUS
    <2>3. w \in PeerRecord
      BY <2>2 DEF PeerRecord
    <2>4. y[s] = IF s \in S THEN w ELSE e
      BY <1>1, <2>1, <2>2 DEF SetPhase
    <2>5. z[s] = p[s] \/ z[s] = Blank(ph)
      BY <1>2 DEF Reset
    <2> QED
      BY <1>1, <2>1, <2>3, <2>4, <2>5, EntryAfter
  <1>4. y = [s \in Signer |-> y[s]] /\ z = [s \in Signer |-> z[s]]
    BY <1>1, <1>2 DEF SetPhase, Reset
  <1>5. Blank(ph) \in PeerRecord /\ Blank(ph).session = 0 /\ Blank(ph).commit = NoCommit
    BY BlankTyped
  <1>6. TableOK(y, nid)
    BY <1>3, <1>4 DEF TableOK
  <1>7. \A s \in Signer : z[s] \in PeerRecord /\ z[s].session < nid
                          /\ (z[s].commit # NoCommit => z[s].sig \in CommitSig)
                          /\ z[s].commit \in {p[s].commit, NoCommit}
    BY <1>3, <1>5 DEF TableOK
  <1>8. TableOK(z, nid)
    BY <1>4, <1>7 DEF TableOK
  <1> QED
    BY <1>1, <1>2, <1>3, <1>6, <1>7, <1>8

\* A step that adds neither frame nor commitment keeps Steady.
LEMMA SteadyKeeps ==
  ASSUME Steady,
         \A s \in Signer : /\ Range(toC'[s]) \in SUBSET Range(toC[s])
                           /\ peer'[s].commit \in {peer[s].commit, NoCommit}
                           /\ arrived'[s] = arrived[s]
  PROVE  Steady'
  <1> SUFFICES ASSUME NEW s \in Signer PROVE Stays(s, arrived'[s], peer'[s], toC'[s])
    BY DEF Steady
  <1>1. Stays(s, arrived[s], peer[s], toC[s])
    BY DEF Steady
  <1> QED
    BY <1>1 DEF Stays

\* The table after a session fails.
LEMMA CaughtCommits ==
  ASSUME NEW nid \in Nat \ {0}, NEW p, TableOK(p, nid), NEW ss, NEW k, NEW culprit,
         FailCulprit(k, culprit, p, ss), NEW s \in Signer
  PROVE  peer'[s].commit \in {p[s].commit, NoCommit}
  <1>1. PICK p1 : p1 = SetPhase(p, {culprit} \cap Connected, "BLACKLISTED")
    OBVIOUS
  <1>2. PICK I : I = (ss[k].members \ {culprit}) \cap Connected
    OBVIOUS
  <1>3. PICK p2 : p2 = Reset(p1, I, "INIT")
    OBVIOUS
  <1>4. PICK bl : bl = blacklist \cup {culprit}
    OBVIOUS
  <1>5. PICK x : x = [ss EXCEPT ![k].state = "FAILED"]
    OBVIOUS
  <1>6. PICK q : q = SendTo(toS, I, SignReq(job.tbs))
    OBVIOUS
  <1>7. PICK st : st = strikes
    OBVIOUS
  <1>8. TryForm(p2, st, bl, x, q)
    BY <1>1, <1>2, <1>3, <1>4, <1>5, <1>6, <1>7, Zenon DEF FailCulprit
  <1>9. PICK C : C = {culprit} \cap Connected
    OBVIOUS
  <1>10. "BLACKLISTED" \in Phase /\ "INIT" \in Phase
    BY DEF Phase
  <1>11. TableOK(p1, nid) /\ p1[s].commit = p[s].commit
    BY <1>1, <1>9, <1>10, TableKept
  <1>12. TableOK(p2, nid) /\ p2[s].commit \in {p1[s].commit, NoCommit}
    BY <1>3, <1>10, <1>11, TableKept
  <1>13. peer'[s].commit = p2[s].commit
    BY <1>8, <1>12, FormCommits
  <1> QED
    BY <1>11, <1>12, <1>13

\* The table after a session expires.
LEMMA ExpireCommits ==
  ASSUME SystemInv, NEW k, Expire(k), NEW s \in Signer
  PROVE  peer'[s].commit \in {peer[s].commit, NoCommit}
  <1>1. PICK C : C = Contributors(sessions[k]) \cap Connected
    OBVIOUS
  <1>2. PICK S : S = SilentMembers(sessions[k])
    OBVIOUS
  <1>3. PICK st : st = [x \in Signer |-> IF x \in S THEN strikes[x] + 1 ELSE strikes[x]]
    OBVIOUS
  <1>4. PICK O : O = Outcasts(S, st)
    OBVIOUS
  <1>5. PICK bl : bl = blacklist \cup O
    OBVIOUS
  <1>6. PICK p : p = peer
    OBVIOUS
  <1>7. PICK p1 : p1 = SetPhase(p, O, "BLACKLISTED")
    OBVIOUS
  <1>8. PICK p2 : p2 = Reset(p1, C, "INIT")
    OBVIOUS
  <1>9. PICK p3 : p3 = Reset(p2, S \ O, "SUSPECT")
    OBVIOUS
  <1>10. PICK x : x = [sessions EXCEPT ![k].state = "FAILED"]
    OBVIOUS
  <1>11. PICK q : q = SendTo(toS, (C \cup S) \ O, SignReq(job.tbs))
    OBVIOUS
  <1>12. TryForm(p3, st, bl, x, q)
    BY <1>1, <1>2, <1>3, <1>4, <1>5, <1>6, <1>7, <1>8, <1>9, <1>10, <1>11, Zenon DEF Expire
  <1>13. PICK nid : nid = nextId
    OBVIOUS
  <1>14. TableOK(p, nid) /\ nid \in Nat \ {0}
    BY <1>6, <1>13 DEF SystemInv, Coherent
  <1>15. "BLACKLISTED" \in Phase /\ "INIT" \in Phase /\ "SUSPECT" \in Phase
    BY DEF Phase
  <1>16. TableOK(p1, nid) /\ p1[s].commit = p[s].commit
    BY <1>7, <1>14, <1>15, TableKept
  <1>17. TableOK(p2, nid) /\ p2[s].commit \in {p1[s].commit, NoCommit}
    BY <1>8, <1>14, <1>15, <1>16, TableKept
  <1>18. PICK L : L = S \ O
    OBVIOUS
  <1>19. TableOK(p3, nid) /\ p3[s].commit \in {p2[s].commit, NoCommit}
    BY <1>9, <1>14, <1>15, <1>17, <1>18, TableKept
  <1>20. peer'[s].commit = p3[s].commit
    BY <1>12, <1>19, FormCommits
  <1> QED
    BY <1>6, <1>16, <1>17, <1>19, <1>20

\* A commitment is stored of a signer that is connected.
LEMMA SteadyCommit ==
  ASSUME SystemInv, Steady, NEW s \in Signer, CoordinatorStep(s),
         NEW m, m = Head(toC[s]), m.type = "COMMIT", OnCommit(s, m)
  PROVE  Steady'
  <1>1. /\ toC \in [Signer -> Seq(UpFrame)] /\ toC[s] # <<>>
        /\ toC' = [toC EXCEPT ![s] = Tail(@)] /\ s \in Connected /\ arrived' = arrived
        /\ TableOK(peer, nextId) /\ nextId \in Nat \ {0} /\ arrived \in [Signer -> Nat]
    BY DEF CoordinatorStep, SystemInv, Coherent, ListOK, OnCommit, listVars
  <1>2. PICK u \in Seq(UpFrame) : u = toC[s]
    BY <1>1
  <1>3. m \in UpFrame /\ m \in Range(u) /\ Range(Tail(u)) \in SUBSET Range(u)
    <2>1. u # <<>> /\ m = Head(u)
      BY <1>1, <1>2
    <2>2. PICK f \in UpFrame : f = Head(u)
      BY <2>1
    <2> QED
      BY <2>1, <2>2, FramesOf
  <1>4. \A x \in Signer : Range(toC'[x]) \in SUBSET Range(toC[x]) /\ arrived'[x] = arrived[x]
    BY <1>1, <1>2, <1>3
  <1>5. CASE peer' = peer
    BY <1>4, <1>5, SteadyKeeps
  <1>6. CASE TryForm(StoreCommit(s, m), strikes, blacklist, sessions, toS)
    <2>1. PICK p : p = peer
      OBVIOUS
    <2>2. PICK nid : nid = nextId
      OBVIOUS
    <2>3. TableOK(p, nid) /\ nid \in Nat \ {0} /\ p \in [Signer -> PeerRecord]
      BY <1>1, <2>1, <2>2 DEF TableOK
    <2>4. PICK e \in PeerRecord : e = p[s]
      BY <2>3
    <2>5. PICK c : c = m.commit
      OBVIOUS
    <2>6. PICK g : g = m.sig
      OBVIOUS
    <2>7. PICK z : z = [e EXCEPT !.phase = "COMMITTED", !.commit = c, !.sig = g]
      OBVIOUS
    <2>8. c \in Commitment /\ g \in CommitSig
      BY <1>3, <2>5, <2>6, UpFrameFacts
    <2>9. z \in PeerRecord /\ z.commit = c /\ z.sig = g /\ z.session = e.session
      BY <2>7, <2>8 DEF PeerRecord, Phase
    <2>10. PICK y : y = [p EXCEPT ![s] = z]
      OBVIOUS
    <2>11. y = StoreCommit(s, m)
      BY <2>1, <2>3, <2>4, <2>5, <2>6, <2>7, <2>10, Zenon DEF StoreCommit
    <2>12. TableOK(y, nid)
      BY <2>3, <2>4, <2>8, <2>9, <2>10 DEF TableOK
    <2>13. PICK st : st = strikes
      OBVIOUS
    <2>14. PICK bl : bl = blacklist
      OBVIOUS
    <2>15. PICK ss : ss = sessions
      OBVIOUS
    <2>16. PICK q : q = toS
      OBVIOUS
    <2>17. TryForm(y, st, bl, ss, q)
      BY <1>6, <2>11, <2>13, <2>14, <2>15, <2>16
    <2>18. \A x \in Signer : peer'[x].commit = y[x].commit
      BY <2>12, <2>17, FormCommits
    <2> SUFFICES ASSUME NEW x \in Signer PROVE Stays(x, arrived'[x], peer'[x], toC'[x])
      BY DEF Steady
    <2>19. Stays(x, arrived[x], peer[x], toC[x])
      BY DEF Steady
    <2>20. CASE x # s
      <3>1. peer'[x].commit = peer[x].commit
        BY <2>1, <2>3, <2>10, <2>18, <2>20
      <3> QED
        BY <1>4, <2>19, <3>1 DEF Stays
    <2>21. CASE x = s
      <3>1. Fault[s] # "dropout"
        BY <1>2, <1>3, <2>19, <2>21 DEF Stays
      <3>2. arrived[s] # 0
        BY <1>1 DEF Connected
      <3> QED
        BY <1>4, <2>19, <2>21, <3>1, <3>2 DEF Stays
    <2> QED
      BY <2>20, <2>21
  <1> QED
    BY <1>5, <1>6 DEF OnCommit, roastVars

\* The table after a share is handled.
LEMMA SteadyShare ==
  ASSUME CoordMayFail = FALSE, SystemInv, TbsInv, OnceInv, Steady,
         NEW s \in Signer, CoordinatorStep(s),
         NEW m, m = Head(toC[s]), m.type = "SIG_SHARE", OnSigShare(s, m), NEW x \in Signer
  PROVE  peer'[x].commit \in {peer[x].commit, NoCommit}
  <1>1. CASE UNCHANGED <<roastVars, certVars>>
    BY <1>1 DEF roastVars
  <1>2. PICK p : p = peer
    OBVIOUS
  <1>3. PICK nid : nid = nextId
    OBVIOUS
  <1>4. PICK y : y = SetPhase(p, {s}, "SHARED")
    OBVIOUS
  <1>5. TableOK(p, nid) /\ nid \in Nat \ {0} /\ "SHARED" \in Phase
    BY <1>2, <1>3 DEF SystemInv, Coherent, Phase
  <1>6. TableOK(y, nid) /\ y[x].commit = p[x].commit
    BY <1>4, <1>5, TableKept
  <1>7. ASSUME NEW k, NEW ss, Settles(k, y, ss) PROVE peer'[x].commit \in {p[x].commit, NoCommit}
    <2>1. CASE Filed(y, ss) \/ Won(k, y, ss)
      BY <1>6, <2>1 DEF Filed, Won
    <2>2. CASE Caught(k, y, ss)
      <3>1. PICK culprit : culprit = Culprit(ss[k])
        OBVIOUS
      <3>2. FailCulprit(k, culprit, y, ss)
        BY <2>2, <3>1 DEF Caught
      <3>3. peer'[x].commit \in {y[x].commit, NoCommit}
        BY <1>5, <1>6, <3>2, CaughtCommits
      <3> QED
        BY <1>6, <3>3
    <2> QED
      BY <1>7, <2>1, <2>2 DEF Settles
  <1>8. ASSUME NEW k \in ShareSlot(s),
               Settles(k, SetPhase(peer, {s}, "SHARED"), StoreShare(k, s, m))
        PROVE  peer'[x].commit \in {p[x].commit, NoCommit}
    <2>1. PICK ss : ss = StoreShare(k, s, m)
      OBVIOUS
    <2>2. Settles(k, y, ss)
      BY <1>2, <1>4, <1>8, <2>1
    <2> QED
      BY <1>7, <2>2
  <1>9. toC[s] # <<>>
    BY DEF CoordinatorStep
  <1> QED
    BY <1>1, <1>2, <1>8, <1>9, ShareCases

\* Steady is inductive while nobody crashes.
LEMMA SteadyNext ==
  ASSUME Crashers = {}, CoordMayFail = FALSE, SystemInv, TbsInv, OnceInv, Steady, [Next]_vars
  PROVE  Steady'
  <1>1. /\ toC \in [Signer -> Seq(UpFrame)] /\ TableOK(peer, nextId) /\ nextId \in Nat \ {0}
        /\ arrived \in [Signer -> Nat] /\ job \in Job /\ done \in BOOLEAN
    BY DEF SystemInv, Coherent, ListOK, CertsOK
  <1>2. ASSUME NEW s \in Signer, CoordinatorStep(s) PROVE Steady'
    <2>1. PICK m : m = Head(toC[s])
      OBVIOUS
    <2>2. /\ ProcessSignerFrame(s, m) /\ toC[s] # <<>> /\ toC' = [toC EXCEPT ![s] = Tail(@)]
          /\ s \in Connected
      BY <1>2, <2>1 DEF CoordinatorStep
    <2>3. PICK u \in Seq(UpFrame) : u = toC[s]
      BY <1>1
    <2>4. m \in UpFrame /\ m \in Range(u) /\ Range(Tail(u)) \in SUBSET Range(u)
      <3>1. u # <<>> /\ m = Head(u)
        BY <2>1, <2>2, <2>3
      <3>2. PICK f \in UpFrame : f = Head(u)
        BY <3>1
      <3> QED
        BY <3>1, <3>2, FramesOf
    <2>5. \A x \in Signer : Range(toC'[x]) \in SUBSET Range(toC[x])
      BY <1>1, <2>2, <2>3, <2>4
    <2>6. CASE m.type = "COMMIT" /\ OnCommit(s, m)
      BY <1>2, <2>1, <2>6, SteadyCommit
    <2>7. CASE m.type = "SIG_SHARE" /\ OnSigShare(s, m)
      <3>1. arrived' = arrived
        BY <2>7 DEF OnSigShare, listVars
      <3>2. \A x \in Signer : peer'[x].commit \in {peer[x].commit, NoCommit}
        BY <1>2, <2>1, <2>7, SteadyShare
      <3> QED
        BY <2>5, <3>1, <3>2, SteadyKeeps
    <2>8. CASE m.type = "SHARE_LOAD_FAIL" /\ OnShareLoadFail(s)
      <3>1. PICK p : p = peer
        OBVIOUS
      <3>2. PICK nid : nid = nextId
        OBVIOUS
      <3>3. TableOK(p, nid) /\ nid \in Nat \ {0} /\ "NO_KEY" \in Phase
        BY <1>1, <3>1, <3>2 DEF Phase
      <3>4. \A x \in Signer : SetPhase(p, {s}, "NO_KEY")[x].commit = p[x].commit
        BY <3>3, TableKept
      <3>5. arrived' = arrived /\ peer' = SetPhase(p, {s}, "NO_KEY")
        BY <2>8, <3>1 DEF OnShareLoadFail, listVars
      <3>6. \A x \in Signer : peer'[x].commit \in {peer[x].commit, NoCommit}
        BY <3>1, <3>4, <3>5
      <3> QED
        BY <2>5, <3>5, <3>6, SteadyKeeps
    <2>9. CASE m.type = "CLOSED" /\ OnClosed(s)
      <3>1. peer' = peer /\ arrived' = [arrived EXCEPT ![s] = 0]
        BY <2>9 DEF OnClosed
      <3>2. Fault[s] = "dropout"
        BY <2>3, <2>4, <2>9 DEF Steady, Stays
      <3> SUFFICES ASSUME NEW x \in Signer PROVE Stays(x, arrived'[x], peer'[x], toC'[x])
        BY DEF Steady
      <3>3. Stays(x, arrived[x], peer[x], toC[x])
        BY DEF Steady
      <3>4. x # s => arrived'[x] = arrived[x]
        BY <1>1, <3>1
      <3> QED
        BY <2>5, <3>1, <3>2, <3>3, <3>4 DEF Stays
    <2> QED
      BY <2>2, <2>6, <2>7, <2>8, <2>9 DEF ProcessSignerFrame
  <1>3. ASSUME NEW s \in Signer, Connect(s) PROVE Steady'
    <2>1. /\ toC' = [toC EXCEPT ![s] = <<>>] /\ peer' = Reset(peer, {s}, "INIT")
          /\ arrived' = [arrived EXCEPT ![s] = arrivals + 1]
      BY <1>3 DEF Connect, Register
    <2> SUFFICES ASSUME NEW x \in Signer PROVE Stays(x, arrived'[x], peer'[x], toC'[x])
      BY DEF Steady
    <2>2. Stays(x, arrived[x], peer[x], toC[x])
      BY DEF Steady
    <2>3. CASE x # s
      <3>1. toC'[x] = toC[x] /\ arrived'[x] = arrived[x] /\ peer'[x] = peer[x]
        BY <1>1, <2>1, <2>3 DEF Reset
      <3> QED
        BY <2>2, <3>1
    <2>4. CASE x = s
      <3>1. toC'[x] = <<>> /\ peer'[x].commit = NoCommit
        BY <1>1, <2>1, <2>4 DEF Reset, Blank
      <3>2. Range(<<>>) = {}
        BY DEF Range
      <3> QED
        BY <3>1, <3>2 DEF Stays
    <2> QED
      BY <2>3, <2>4
  <1>4. CASE Timeout
    <2>1. PICK k : Expire(k)
      BY <1>4 DEF Timeout
    <2>2. toC' = toC /\ arrived' = arrived
      BY <1>4, <2>1 DEF Timeout, Expire, listVars
    <2>3. \A x \in Signer : peer'[x].commit \in {peer[x].commit, NoCommit}
      BY <2>1, ExpireCommits
    <2> QED
      BY <2>2, <2>3, SteadyKeeps
  <1>5. CASE LoopTop \/ Finished \/ UNCHANGED vars
    <2>1. ~NextCert
      <3>1. done => ~(job.toMint > 0)
        BY DEF OnceInv
      <3> QED
        BY <3>1 DEF NextCert
    <2>2. toC' = toC /\ arrived' = arrived /\ peer' = peer
      BY <1>5, <2>1 DEF LoopTop, Exit, Finished, vars, coordVars, roastVars, listVars
    <2> QED
      BY <2>2, SteadyKeeps
  <1>6. ASSUME NEW s \in Signer PROVE ~Crash(s)
    BY DEF Crash
  <1>7. ASSUME NEW s \in Signer, SignerStep(s) PROVE Steady'
    BY <1>7, SteadySigner
  <1> QED
    BY <1>2, <1>3, <1>4, <1>5, <1>6, <1>7 DEF Next

\* A signer that registers is in no session: nobody whom the table puts in one
\* has left.
LEMMA SteadyEscrow ==
  ASSUME Crashers = {}, SystemInv, Steady, NEW s \in Signer, Connect(s)
  PROVE  peer[s].session = 0
  <1>1. arrived[s] = 0
    <2>1. s \notin Connected /\ arrived[s] \in Nat
      BY DEF Connect, Register, SystemInv, ListOK
    <2> QED
      BY <2>1 DEF Connected
  <1>2. peer[s].commit = NoCommit
    BY <1>1 DEF Steady, Stays
  <1>3. peer[s].session # 0 => peer[s].commit # NoCommit
    BY DEF SystemInv, Coherent, Link, PhaseFits
  <1> QED
    BY <1>2, <1>3

\* The coordinator has a connection to every member of a session that awaits
\* shares.
LEMMA MembersConnected ==
  ASSUME SystemInv, EscrowInv, Steady, NEW k \in DOMAIN sessions, sessions[k].state = "AWAITING",
         NEW s \in sessions[k].members
  PROVE  s \in Connected
  <1>1. s \in Signer /\ sessions[k].id # 0 /\ arrived[s] \in Nat
    <2>1. SlotOK(sessions[k], nextId) /\ nextId \in Nat /\ arrived \in [Signer -> Nat]
      BY DEF SystemInv, Coherent, SlotsOK, ListOK
    <2>2. sessions[k].members \in SUBSET Signer /\ sessions[k].id \in 1..(nextId - 1)
      BY <2>1 DEF SlotOK
    <2> QED
      BY <2>1, <2>2
  <1>2. peer[s].session = sessions[k].id
    BY DEF EscrowInv, Escrow
  <1>3. peer[s].session # 0 => peer[s].commit # NoCommit
    BY <1>1 DEF SystemInv, Coherent, Link, PhaseFits
  <1>4. arrived[s] # 0
    BY <1>1, <1>2, <1>3 DEF Steady, Stays
  <1> QED
    BY <1>1, <1>4 DEF Connected

-----------------------------------------------------------------------------
(* The price of a session.  Let G be T honest signers.  Each of the others *)
(* has MaxStrikes tokens; a failed session has used up one of them at      *)
(* least, and a session that awaits shares is made of G or holds one back. *)

\* Tokens of d that are used up: all of them once it is blacklisted.
Weight(st, bl, d) == IF d \in bl THEN MaxStrikes ELSE st[d]

\* What the signers outside of G have to spend.
Tokens(G) == (Signer \ G) \X (1..MaxStrikes)

\* What they have spent.
Used(G, st, bl) == {x \in Tokens(G) : x[2] <= Weight(st, bl, x[1])}

\* The slots whose sessions go on, and those whose sessions failed.
Awaiting(ss) == {k \in DOMAIN ss : ss[k].state = "AWAITING"}

FailedOf(ss) == {k \in DOMAIN ss : ss[k].state = "FAILED"}

\* Before the certificate is signed a slot has failed or lacks a share, and
\* then nobody in it is blacklisted.
Open(ss, bl) ==
  \A k \in DOMAIN ss :
    /\ ss[k].state \in {"AWAITING", "FAILED"}
    /\ ss[k].state = "AWAITING" => ss[k].n < T /\ ss[k].members \cap bl = {}

\* Every id is of a slot, who has MaxStrikes strikes is blacklisted, and the
\* failed sessions are paid for.
Budget(G, ss, st, bl, nid) ==
  /\ DOMAIN ss = 1..(nid - 1)
  /\ \A d \in Signer \ bl : st[d] < MaxStrikes
  /\ Cardinality(FailedOf(ss)) <= Cardinality(Used(G, st, bl))
  /\ Open(ss, bl)

\* There are MaxStrikes tokens for each of the N - T others.
LEMMA TokensCount ==
  ASSUME NEW G \in SUBSET Signer, Cardinality(G) = T
  PROVE  IsFiniteSet(Tokens(G)) /\ Cardinality(Tokens(G)) = (N - T) * MaxStrikes
  <1>1. N \in Nat /\ T \in Nat /\ 1 <= N /\ T <= N /\ MaxStrikes \in Nat /\ 1 <= MaxStrikes
    BY GroupAssumption, CoordinatorAssumption
  <1>2. IsFiniteSet(Signer) /\ Cardinality(Signer) = N
    BY <1>1, FS_Interval DEF Signer
  <1>3. Signer \cap G = G
    OBVIOUS
  <1>4. IsFiniteSet(Signer \ G) /\ Cardinality(Signer \ G) = N - T
    BY <1>2, <1>3, FS_Difference
  <1>5. IsFiniteSet(1..MaxStrikes) /\ Cardinality(1..MaxStrikes) = MaxStrikes
    BY <1>1, FS_Interval
  <1>6. PICK A : A = Signer \ G
    OBVIOUS
  <1>7. PICK B : B = 1..MaxStrikes
    OBVIOUS
  <1>8. IsFiniteSet(A) /\ IsFiniteSet(B) /\ Cardinality(A) = N - T /\ Cardinality(B) = MaxStrikes
    BY <1>4, <1>5, <1>6, <1>7
  <1>9. IsFiniteSet(A \X B) /\ Cardinality(A \X B) = Cardinality(A) * Cardinality(B)
    BY <1>8, FS_Product
  <1> QED
    BY <1>6, <1>7, <1>8, <1>9, Zenon DEF Tokens

\* A set of T signers that is not G has a member outside of G.
LEMMA Stranger ==
  ASSUME NEW G \in SUBSET Signer, Cardinality(G) = T, NEW M \in SUBSET Signer,
         Cardinality(M) = T, M # G
  PROVE  \E e \in M : e \notin G
  <1>1. IsFiniteSet(Signer)
    BY GroupAssumption, FS_Interval DEF Signer
  <1>2. IsFiniteSet(G)
    BY <1>1, FS_Subset
  <1>3. CASE M \in SUBSET G
    BY <1>2, <1>3, FS_Subset
  <1> QED
    BY <1>3

\* The sessions that await shares are at most one more than the tokens left.
LEMMA LiveFew ==
  ASSUME NEW G \in SUBSET Signer, Cardinality(G) = T,
         NEW p, NEW ss, Escrow(p, ss), NEW st \in [Signer -> Nat], NEW bl, Open(ss, bl),
         \A d \in Signer \ bl : st[d] < MaxStrikes,
         \A k \in DOMAIN ss : ss[k].members \in SUBSET Signer /\ Cardinality(ss[k].members) = T
  PROVE  /\ IsFiniteSet(Awaiting(ss))
         /\ Cardinality(Awaiting(ss)) <= Cardinality(Tokens(G) \ Used(G, st, bl)) + 1
  <1>1. PICK L : L = Awaiting(ss)
    OBVIOUS
  <1>2. PICK F : F = Tokens(G) \ Used(G, st, bl)
    OBVIOUS
  <1>3. PICK e : e = [k \in L |-> CHOOSE d \in ss[k].members : d \notin G]
    OBVIOUS
  <1>4. PICK f : f = [k \in L |-> IF ss[k].members = G THEN <<0, 0>> ELSE <<e[k], st[e[k]] + 1>>]
    OBVIOUS
  <1>5. MaxStrikes \in Nat
    BY CoordinatorAssumption
  <1>6. ASSUME NEW k \in L, ss[k].members # G
        PROVE  /\ e[k] \in ss[k].members /\ e[k] \in Signer \ G /\ e[k] \notin bl
               /\ f[k] = <<e[k], st[e[k]] + 1>> /\ f[k] \in F /\ e[k] # 0
    <2>1. k \in DOMAIN ss /\ ss[k].state = "AWAITING"
      BY <1>1 DEF Awaiting
    <2>2. \E d \in ss[k].members : d \notin G
      BY <1>6, <2>1, Stranger
    <2>3. e[k] \in ss[k].members /\ e[k] \notin G
      BY <1>3, <2>2
    <2>4. e[k] \notin bl /\ e[k] \in Signer
      BY <2>1, <2>3 DEF Open
    <2>5. PICK d : d = e[k]
      OBVIOUS
    <2>6. d \in Signer \ G /\ d \notin bl /\ st[d] \in Nat /\ st[d] + 1 \in 1..MaxStrikes
      BY <1>5, <2>3, <2>4, <2>5
    <2>7. PICK x : x = <<d, st[d] + 1>>
      OBVIOUS
    <2>8. x \in Tokens(G) /\ x[1] = d /\ x[2] = st[d] + 1
      BY <2>6, <2>7 DEF Tokens
    <2>9. x \notin Used(G, st, bl)
      BY <2>6, <2>8 DEF Used, Weight
    <2>10. d # 0
      BY <2>6 DEF Signer
    <2> QED
      BY <1>2, <1>4, <1>6, <2>3, <2>4, <2>5, <2>7, <2>8, <2>9, <2>10
  <1>7. ASSUME NEW k \in L, ss[k].members = G PROVE f[k] = <<0, 0>>
    BY <1>4, <1>7
  <1>8. PICK z : z = <<0, 0>>
    OBVIOUS
  <1>9. PICK F1 : F1 = F \cup {z}
    OBVIOUS
  <1>10. f \in [L -> F1]
    <2>1. \A k \in L : f[k] \in F1
      BY <1>6, <1>7, <1>8, <1>9
    <2> QED
      BY <1>4, <2>1
  <1>11. ASSUME NEW i \in L, NEW j \in L, i # j PROVE f[i] # f[j]
    <2>1. /\ i \in DOMAIN ss /\ ss[i].state = "AWAITING"
          /\ j \in DOMAIN ss /\ ss[j].state = "AWAITING"
      BY <1>1 DEF Awaiting
    <2>2. \A d \in ss[i].members : d \notin ss[j].members
      BY <1>11, <2>1, EscrowApart
    <2>3. CASE ss[i].members = G /\ ss[j].members = G
      <3>1. G = {}
        BY <2>2, <2>3
      <3>2. T = 0
        BY <3>1, FS_EmptySet
      <3> QED
        BY <3>2, GroupAssumption
    <2>4. CASE ss[i].members = G /\ ss[j].members # G
      BY <1>6, <1>7, <2>4
    <2>5. CASE ss[i].members # G /\ ss[j].members = G
      BY <1>6, <1>7, <2>5
    <2>6. CASE ss[i].members # G /\ ss[j].members # G
      <3>1. e[i] \in ss[i].members /\ e[j] \in ss[j].members
        BY <1>6, <2>6
      <3>2. e[i] # e[j]
        BY <2>2, <3>1
      <3> QED
        BY <1>6, <2>6, <3>2
    <2> QED
      BY <2>3, <2>4, <2>5, <2>6
  <1>12. f \in Injection(L, F1)
    <2>1. \A i, j \in L : f[i] = f[j] => i = j
      BY <1>11
    <2> QED
      BY <1>10, <2>1 DEF Injection, IsInjective
  <1>13. IsFiniteSet(Tokens(G))
    BY TokensCount
  <1>14. IsFiniteSet(F) /\ Cardinality(F) \in Nat
    BY <1>2, <1>13, FS_Difference, FS_CardinalityType
  <1>15. IsFiniteSet(F1) /\ Cardinality(F1) <= Cardinality(F) + 1
    <2>1. /\ IsFiniteSet(F \cup {z})
          /\ Cardinality(F \cup {z}) = IF z \in F THEN Cardinality(F) ELSE Cardinality(F) + 1
      BY <1>14, FS_AddElement
    <2> QED
      BY <1>14, <1>9, <2>1
  <1>16. IsFiniteSet(L) /\ Cardinality(L) <= Cardinality(F1)
    BY <1>12, <1>15, FS_Injection
  <1>17. Cardinality(F1) \in Nat /\ Cardinality(L) \in Nat
    BY <1>15, <1>16, FS_CardinalityType
  <1> QED
    BY <1>1, <1>2, <1>14, <1>15, <1>16, <1>17

\* Intervals that are equal end alike.
LEMMA IntervalEnd ==
  ASSUME NEW a \in Nat, NEW b \in Nat, 1..a = 1..b
  PROVE  a = b
  <1>1. CASE a < b
    <2>1. b \in 1..b
      BY <1>1
    <2> QED
      BY <1>1, <2>1
  <1>2. CASE b < a
    <2>1. a \in 1..a
      BY <1>2
    <2> QED
      BY <1>2, <2>1
  <1> QED
    BY <1>1, <1>2

\* While the budget is kept, the ids given out are within the bound.
LEMMA BudgetBounds ==
  ASSUME NEW G \in SUBSET Signer, Cardinality(G) = T,
         NEW p, NEW ss, NEW nid \in Nat \ {0}, SlotsOK(ss, nid), Escrow(p, ss),
         NEW st \in [Signer -> Nat], NEW bl, Budget(G, ss, st, bl, nid)
  PROVE  nid - 1 <= MaxStrikes * (N - T) + 1
  <1>1. PICK L : L = Awaiting(ss)
    OBVIOUS
  <1>2. PICK F : F = FailedOf(ss)
    OBVIOUS
  <1>3. PICK K : K = Tokens(G)
    OBVIOUS
  <1>4. PICK U : U = Used(G, st, bl)
    OBVIOUS
  <1>5. /\ Open(ss, bl) /\ DOMAIN ss = 1..(nid - 1)
        /\ \A d \in Signer \ bl : st[d] < MaxStrikes
        /\ Cardinality(F) <= Cardinality(U)
    BY <1>2, <1>4 DEF Budget
  <1>6. \A k \in DOMAIN ss : ss[k].members \in SUBSET Signer /\ Cardinality(ss[k].members) = T
    BY DEF SlotsOK, SlotOK
  <1>7. IsFiniteSet(L) /\ Cardinality(L) <= Cardinality(K \ U) + 1
    BY <1>1, <1>3, <1>4, <1>5, <1>6, LiveFew
  <1>8. IsFiniteSet(K) /\ Cardinality(K) = (N - T) * MaxStrikes
    BY <1>3, TokensCount
  <1>9. K \cap U = U /\ IsFiniteSet(U)
    <2>1. U \in SUBSET K
      BY <1>3, <1>4 DEF Used
    <2> QED
      BY <1>8, <2>1, FS_Subset
  <1>10. Cardinality(K \ U) = Cardinality(K) - Cardinality(U)
    <2>1. Cardinality(K \ U) = Cardinality(K) - Cardinality(K \cap U)
      BY <1>8, FS_Difference
    <2> QED
      BY <1>9, <2>1
  <1>11. PICK D : D = 1..(nid - 1)
    OBVIOUS
  <1>12. IsFiniteSet(D) /\ Cardinality(D) = nid - 1
    BY <1>11, FS_Interval
  <1>13. D = L \cup F /\ L \cap F = {} /\ F \in SUBSET D
    BY <1>1, <1>2, <1>5, <1>11 DEF Open, Awaiting, FailedOf
  <1>14. IsFiniteSet(F)
    BY <1>12, <1>13, FS_Subset
  <1>15. Cardinality(L \cup F) = Cardinality(L) + Cardinality(F) - Cardinality(L \cap F)
    BY <1>7, <1>14, FS_Union
  <1>16. Cardinality(L \cap F) = 0
    BY <1>13, FS_EmptySet
  <1>17. /\ Cardinality(L) \in Nat /\ Cardinality(F) \in Nat /\ Cardinality(K) \in Nat
         /\ Cardinality(U) \in Nat
    BY <1>7, <1>8, <1>9, <1>14, FS_CardinalityType
  <1>18. nid - 1 = Cardinality(L) + Cardinality(F)
    BY <1>12, <1>13, <1>15, <1>16, <1>17
  <1>19. nid - 1 <= Cardinality(K) + 1
    BY <1>5, <1>7, <1>10, <1>17, <1>18
  <1>20. (N - T) * MaxStrikes = MaxStrikes * (N - T)
    BY GroupAssumption, CoordinatorAssumption
  <1> QED
    BY <1>8, <1>19, <1>20

\* A new session spends nothing.
LEMMA BudgetForm ==
  ASSUME NEW G, NEW p, NEW st, NEW bl, NEW ss, NEW q, nextId \in Nat \ {0},
         ss \in Seq(Range(ss)), Budget(G, ss, st, bl, nextId),
         TryForm(p, st, bl, ss, q)
  PROVE  Budget(G, sessions', st, bl, nextId')
  <1>1. CASE sessions' = ss /\ nextId' = nextId
    BY <1>1
  <1>2. ASSUME NEW c \in {x \in [1..T -> Connected] : IsSelection(x, p, st, bl)},
               sessions' = Append(ss, NewSession(c, p)), nextId' = nextId + 1
        PROVE  Budget(G, sessions', st, bl, nextId')
    <2>1. PICK z : z = NewSession(c, p)
      OBVIOUS
    <2>2. z.state = "AWAITING" /\ z.n = 0 /\ z.members = Chosen(c)
      BY <2>1 DEF NewSession, Chosen
    <2>3. z.members \cap bl = {}
      <3>1. \A i \in 1..T : c[i] \notin bl
        BY DEF IsSelection, Reliable, Suspects
      <3> QED
        BY <2>2, <3>1 DEF Chosen
    <2>4. PICK x : x = Append(ss, z)
      OBVIOUS
    <2>5. PICK nid : nid = nextId
      OBVIOUS
    <2>6. nid \in Nat \ {0} /\ ss \in Seq(Range(ss)) /\ Budget(G, ss, st, bl, nid)
      BY <2>5
    <2>7. /\ DOMAIN x = DOMAIN ss \cup {Len(ss) + 1} /\ x[Len(ss) + 1] = z
          /\ \A j \in DOMAIN ss : x[j] = ss[j]
          /\ Len(ss) \in Nat /\ DOMAIN ss = 1..Len(ss)
      BY <2>4, <2>6, SlotAppended
    <2>8. DOMAIN ss = 1..(nid - 1) /\ Open(ss, bl)
      BY <2>6 DEF Budget
    <2>9. Len(ss) = nid - 1
      <3>1. nid - 1 \in Nat
        BY <2>6
      <3> QED
        BY <2>7, <2>8, <3>1, IntervalEnd
    <2>10. DOMAIN x = 1..nid
      BY <2>6, <2>7, <2>9
    <2>11. FailedOf(x) = FailedOf(ss)
      BY <2>2, <2>7 DEF FailedOf
    <2>12. Open(x, bl)
      <3>1. 0 < T
        BY GroupAssumption
      <3> QED
        BY <2>2, <2>3, <2>7, <2>8, <3>1 DEF Open
    <2>13. (nid + 1) - 1 = nid
      BY <2>6
    <2>14. Budget(G, x, st, bl, nid + 1)
      BY <2>6, <2>10, <2>11, <2>12, <2>13 DEF Budget
    <2> QED
      BY <1>2, <2>1, <2>4, <2>5, <2>14
  <1> QED
    BY <1>1, <1>2, Zenon DEF TryForm

\* A session that fails costs a signer outside of G a token.
Fails(k, G, p, ss, st, bl, st2, bl2) ==
  /\ k \in DOMAIN ss /\ ss[k].state = "AWAITING" /\ Escrow(p, ss)
  /\ st \in [Signer -> Nat] /\ st2 \in [Signer -> Nat] /\ bl \subseteq bl2
  /\ \A d \in bl2 : d \in bl \/ d \in ss[k].members
  /\ \A d \in Signer : st[d] <= st2[d] /\ (d \notin bl2 => st2[d] < MaxStrikes)
  /\ \E e \in Signer \ G : e \notin bl /\ (e \in bl2 \/ st[e] < st2[e])

\* The slots x are ss but for slot k, which has failed.
Retired(k, ss, x) ==
  /\ DOMAIN x = DOMAIN ss /\ x[k].state = "FAILED"
  /\ \A j \in DOMAIN ss : j # k => x[j] = ss[j]

\* A failed session is paid for by the token it costs.
LEMMA BudgetFail ==
  ASSUME NEW G \in SUBSET Signer, Cardinality(G) = T, NEW p, NEW ss, NEW nid \in Nat \ {0},
         NEW st, NEW bl, Budget(G, ss, st, bl, nid), NEW k, NEW st2, NEW bl2,
         Fails(k, G, p, ss, st, bl, st2, bl2), NEW x, Retired(k, ss, x)
  PROVE  Budget(G, x, st2, bl2, nid)
  <1>1. /\ DOMAIN x = DOMAIN ss /\ x[k].state = "FAILED"
        /\ \A j \in DOMAIN ss : j # k => x[j] = ss[j]
    BY DEF Retired
  <1>2. /\ DOMAIN ss = 1..(nid - 1) /\ Open(ss, bl)
        /\ \A d \in Signer \ bl : st[d] < MaxStrikes
        /\ Cardinality(FailedOf(ss)) <= Cardinality(Used(G, st, bl))
    BY DEF Budget
  <1>3. /\ k \in DOMAIN ss /\ ss[k].state = "AWAITING" /\ Escrow(p, ss) /\ bl \subseteq bl2
        /\ st \in [Signer -> Nat] /\ st2 \in [Signer -> Nat]
        /\ \A d \in bl2 : d \in bl \/ d \in ss[k].members
        /\ \A d \in Signer : st[d] <= st2[d] /\ (d \notin bl2 => st2[d] < MaxStrikes)
    BY DEF Fails
  <1>4. PICK e \in Signer \ G : e \notin bl /\ (e \in bl2 \/ st[e] < st2[e])
    BY DEF Fails
  <1>5. PICK F : F = FailedOf(ss)
    OBVIOUS
  <1>6. PICK U : U = Used(G, st, bl)
    OBVIOUS
  <1>7. PICK V : V = Used(G, st2, bl2)
    OBVIOUS
  <1>8. MaxStrikes \in Nat /\ 1 <= MaxStrikes
    BY CoordinatorAssumption
  <1>9. PICK y : y = <<e, st[e] + 1>>
    OBVIOUS
  <1>10. /\ y \in Tokens(G) /\ y[1] = e /\ y[2] = st[e] + 1
    <2>1. st[e] \in Nat /\ st[e] < MaxStrikes
      BY <1>2, <1>3, <1>4
    <2>2. st[e] + 1 \in 1..MaxStrikes
      BY <1>8, <2>1
    <2> QED
      BY <1>9, <2>2 DEF Tokens
  <1>11. y \notin U
    BY <1>3, <1>4, <1>6, <1>10 DEF Used, Weight
  <1>12. y \in V
    <2>1. st[e] \in Nat /\ st2[e] \in Nat /\ st[e] < MaxStrikes
      BY <1>2, <1>3, <1>4
    <2>2. st[e] + 1 <= Weight(st2, bl2, e)
      BY <1>4, <1>8, <2>1 DEF Weight
    <2> QED
      BY <1>7, <1>10, <2>2 DEF Used
  <1>13. ASSUME NEW w \in U PROVE w \in V
    <2>1. w \in Tokens(G) /\ w[2] <= Weight(st, bl, w[1])
      BY <1>6 DEF Used
    <2>2. w[1] \in Signer /\ w[2] \in Nat
      BY <1>8, <2>1 DEF Tokens
    <2>3. PICK d \in Signer : d = w[1]
      BY <2>2
    <2>4. Weight(st, bl, d) <= Weight(st2, bl2, d)
      <3>1. /\ st[d] \in Nat /\ st2[d] \in Nat /\ st[d] <= st2[d]
            /\ d \notin bl => st[d] < MaxStrikes
        BY <1>2, <1>3
      <3>2. d \in bl => d \in bl2
        BY <1>3
      <3> QED
        BY <1>8, <3>1, <3>2 DEF Weight
    <2>5. Weight(st, bl, d) \in Nat /\ Weight(st2, bl2, d) \in Nat
      BY <1>3, <1>8 DEF Weight
    <2> QED
      BY <1>7, <2>1, <2>2, <2>3, <2>4, <2>5 DEF Used
  <1>14. IsFiniteSet(V) /\ IsFiniteSet(U)
    <2>1. IsFiniteSet(Tokens(G))
      BY TokensCount
    <2>2. V \in SUBSET Tokens(G) /\ U \in SUBSET Tokens(G)
      BY <1>6, <1>7 DEF Used
    <2> QED
      BY <2>1, <2>2, FS_Subset
  <1>15. Cardinality(U) + 1 <= Cardinality(V)
    <2>1. PICK W : W = U \cup {y}
      OBVIOUS
    <2>2. Cardinality(W) = Cardinality(U) + 1
      BY <1>11, <1>14, <2>1, FS_AddElement
    <2>3. W \in SUBSET V
      BY <1>12, <1>13, <2>1
    <2>4. Cardinality(W) <= Cardinality(V)
      BY <1>14, <2>3, FS_Subset
    <2> QED
      BY <2>2, <2>4
  <1>16. Cardinality(FailedOf(x)) <= Cardinality(F) + 1
    <2>1. F \in SUBSET (1..(nid - 1))
      BY <1>2, <1>5 DEF FailedOf
    <2>2. IsFiniteSet(1..(nid - 1))
      BY FS_Interval
    <2>3. IsFiniteSet(F)
      BY <2>1, <2>2, FS_Subset
    <2>4. FailedOf(x) = F \cup {k} /\ k \notin F
      BY <1>1, <1>3, <1>5 DEF FailedOf
    <2>5. Cardinality(F \cup {k}) = Cardinality(F) + 1
      BY <2>3, <2>4, FS_AddElement
    <2>6. Cardinality(F) \in Nat
      BY <2>3, FS_CardinalityType
    <2> QED
      BY <2>4, <2>5, <2>6
  <1>17. Cardinality(FailedOf(x)) <= Cardinality(V)
    <2>1. Cardinality(F) \in Nat /\ Cardinality(U) \in Nat /\ Cardinality(V) \in Nat
          /\ Cardinality(FailedOf(x)) \in Nat
      <3>1. F \in SUBSET (1..(nid - 1)) /\ FailedOf(x) \in SUBSET (1..(nid - 1))
        BY <1>1, <1>2, <1>5 DEF FailedOf
      <3>2. IsFiniteSet(1..(nid - 1))
        BY FS_Interval
      <3>3. IsFiniteSet(F) /\ IsFiniteSet(FailedOf(x))
        BY <3>1, <3>2, FS_Subset
      <3> QED
        BY <1>14, <3>3, FS_CardinalityType
    <2> QED
      BY <1>2, <1>5, <1>6, <1>15, <1>16, <2>1
  <1>18. Open(x, bl2)
    <2> SUFFICES ASSUME NEW j \in DOMAIN x
                 PROVE  /\ x[j].state \in {"AWAITING", "FAILED"}
                        /\ x[j].state = "AWAITING" => x[j].n < T /\ x[j].members \cap bl2 = {}
      BY DEF Open
    <2>1. CASE j = k
      BY <1>1, <2>1
    <2>2. CASE j # k
      <3>1. x[j] = ss[j] /\ j \in DOMAIN ss
        BY <1>1, <2>2
      <3>2. CASE ss[j].state = "AWAITING"
        <4>1. \A d \in ss[k].members : d \notin ss[j].members
          BY <1>3, <2>2, <3>1, <3>2, EscrowApart
        <4>2. ss[j].n < T /\ ss[j].members \cap bl = {}
          BY <1>2, <3>1, <3>2 DEF Open
        <4>3. ss[j].members \cap bl2 = {}
          BY <1>3, <4>1, <4>2
        <4> QED
          BY <3>1, <3>2, <4>2, <4>3
      <3>3. CASE ss[j].state # "AWAITING"
        BY <1>2, <3>1, <3>3 DEF Open
      <3> QED
        BY <3>2, <3>3
    <2> QED
      BY <2>1, <2>2
  <1> QED
    BY <1>1, <1>2, <1>3, <1>7, <1>17, <1>18 DEF Budget

\* A share that is only filed costs nothing.
LEMMA BudgetStore ==
  ASSUME NEW G, NEW ss, NEW st, NEW bl, NEW nid, Budget(G, ss, st, bl, nid),
         NEW x, DOMAIN x = DOMAIN ss,
         \A j \in DOMAIN ss : /\ x[j].state = ss[j].state /\ x[j].members = ss[j].members
                              /\ x[j].n < T \/ x[j] = ss[j]
  PROVE  Budget(G, x, st, bl, nid)
  <1>1. FailedOf(x) = FailedOf(ss)
    BY DEF FailedOf
  <1>2. Open(x, bl)
    BY DEF Budget, Open
  <1> QED
    BY <1>1, <1>2 DEF Budget

-----------------------------------------------------------------------------
(* A step of the system, and the bound.                                    *)

\* The budget is kept until the certificate is signed, and the bound from then on.
BoundInv(G) ==
  /\ done => SessionBound
  /\ ~done => Budget(G, sessions, strikes, blacklist, nextId)

\* A culprit is named.
LEMMA BudgetCaught ==
  ASSUME NEW G \in SUBSET Honest, Cardinality(G) = T, SystemInv, EscrowInv,
         Budget(G, sessions, strikes, blacklist, nextId), HonestNeverPenalised',
         NEW k \in DOMAIN sessions, sessions[k].state = "AWAITING", NEW y, NEW ss,
         SlotsOK(ss, nextId), DOMAIN ss = DOMAIN sessions,
         \A j \in DOMAIN sessions : j # k => ss[j] = sessions[j],
         ss[k].members = sessions[k].members, Caught(k, y, ss)
  PROVE  Budget(G, sessions', strikes', blacklist', nextId')
  <1>1. PICK culprit : culprit = Culprit(ss[k])
    OBVIOUS
  <1>2. culprit \in ss[k].members /\ FailCulprit(k, culprit, y, ss)
    BY <1>1 DEF Caught
  <1>3. PICK I : I = (ss[k].members \ {culprit}) \cap Connected
    OBVIOUS
  <1>4. PICK p2 : p2 = Reset(SetPhase(y, {culprit} \cap Connected, "BLACKLISTED"), I, "INIT")
    OBVIOUS
  <1>5. PICK x : x = WithState(ss, k, "FAILED")
    OBVIOUS
  <1>6. PICK q : q = SendTo(toS, I, SignReq(job.tbs))
    OBVIOUS
  <1>7. PICK bl : bl = blacklist \cup {culprit}
    OBVIOUS
  <1>8. PICK st : st = strikes
    OBVIOUS
  <1>9. TryForm(p2, st, bl, x, q) /\ strikes' = st /\ blacklist' = bl
    BY <1>2, <1>3, <1>4, <1>5, <1>6, <1>7, <1>8, Zenon DEF FailCulprit, WithState
  <1>10. PICK s0 : s0 = sessions
    OBVIOUS
  <1>11. PICK bl0 : bl0 = blacklist
    OBVIOUS
  <1>12. PICK nid : nid = nextId
    OBVIOUS
  <1>13. PICK p : p = peer
    OBVIOUS
  <1>14. /\ Budget(G, s0, st, bl0, nid) /\ Escrow(p, s0) /\ nid \in Nat \ {0}
         /\ SlotsOK(s0, nid) /\ SlotsOK(ss, nid) /\ st \in [Signer -> Nat]
    BY <1>8, <1>10, <1>11, <1>12, <1>13 DEF EscrowInv, SystemInv, Coherent, ListOK
  <1>15. Retired(k, s0, x) /\ x \in Seq(Range(x))
    BY <1>5, <1>10, <1>14, StateChanged DEF Retired
  <1>16. culprit \in Signer /\ culprit \notin bl0 /\ culprit \notin G
    <2>1. s0[k].members \in SUBSET Signer /\ culprit \in s0[k].members
      BY <1>2, <1>10, <1>14 DEF SlotsOK, SlotOK
    <2>2. s0[k].members \cap bl0 = {}
      BY <1>10, <1>14 DEF Budget, Open
    <2>3. culprit \in blacklist'
      BY <1>7, <1>9
    <2>4. culprit \notin G
      BY <2>3 DEF HonestNeverPenalised
    <2> QED
      BY <2>1, <2>2, <2>4
  <1>17. \A d \in Signer : d \notin bl0 => st[d] < MaxStrikes
    BY <1>14 DEF Budget
  <1>18. Fails(k, G, p, s0, st, bl0, st, bl)
    <2>1. \A d \in Signer : st[d] \in Nat /\ st[d] <= st[d]
      BY <1>14
    <2>2. bl = bl0 \cup {culprit} /\ culprit \in s0[k].members /\ k \in DOMAIN s0
          /\ s0[k].state = "AWAITING"
      BY <1>2, <1>7, <1>10, <1>11
    <2> QED
      BY <1>14, <1>16, <1>17, <2>1, <2>2 DEF Fails
  <1>19. G \in SUBSET Signer
    BY HonestFacts
  <1>20. Budget(G, x, st, bl, nid)
    BY <1>14, <1>15, <1>18, <1>19, BudgetFail
  <1>21. Budget(G, sessions', st, bl, nextId')
    BY <1>9, <1>12, <1>14, <1>15, <1>20, BudgetForm
  <1> QED
    BY <1>9, <1>21

\* A session expires.
LEMMA BudgetExpire ==
  ASSUME NEW G \in SUBSET Honest, Cardinality(G) = T, SystemInv, EscrowInv, Steady,
         Budget(G, sessions, strikes, blacklist, nextId), HonestNeverPenalised',
         NEW k \in DOMAIN sessions, Expire(k)
  PROVE  Budget(G, sessions', strikes', blacklist', nextId')
  <1>1. PICK C : C = Contributors(sessions[k]) \cap Connected
    OBVIOUS
  <1>2. PICK S : S = SilentMembers(sessions[k])
    OBVIOUS
  <1>3. PICK st : st = [s \in Signer |-> IF s \in S THEN strikes[s] + 1 ELSE strikes[s]]
    OBVIOUS
  <1>4. PICK O : O = Outcasts(S, st)
    OBVIOUS
  <1>5. PICK bl : bl = blacklist \cup O
    OBVIOUS
  <1>6. PICK p3 : p3 = Reset(Reset(SetPhase(peer, O, "BLACKLISTED"), C, "INIT"), S \ O, "SUSPECT")
    OBVIOUS
  <1>7. PICK s0 : s0 = sessions
    OBVIOUS
  <1>8. PICK x : x = WithState(s0, k, "FAILED")
    OBVIOUS
  <1>9. PICK q : q = SendTo(toS, (C \cup S) \ O, SignReq(job.tbs))
    OBVIOUS
  <1>10. /\ TryForm(p3, st, bl, x, q) /\ s0[k].state = "AWAITING"
         /\ strikes' = st /\ blacklist' = bl
    BY <1>1, <1>2, <1>3, <1>4, <1>5, <1>6, <1>7, <1>8, <1>9, Zenon DEF Expire, WithState
  <1>11. PICK bl0 : bl0 = blacklist
    OBVIOUS
  <1>12. PICK nid : nid = nextId
    OBVIOUS
  <1>13. PICK p : p = peer
    OBVIOUS
  <1>14. PICK st0 : st0 = strikes
    OBVIOUS
  <1>15. /\ Budget(G, s0, st0, bl0, nid) /\ Escrow(p, s0) /\ nid \in Nat \ {0}
         /\ SlotsOK(s0, nid) /\ st0 \in [Signer -> Nat] /\ k \in DOMAIN s0
    BY <1>7, <1>11, <1>12, <1>13, <1>14 DEF EscrowInv, SystemInv, Coherent, ListOK
  <1>16. Retired(k, s0, x) /\ x \in Seq(Range(x))
    BY <1>8, <1>15, StateChanged DEF Retired
  <1>17. st = [s \in Signer |-> IF s \in S THEN st0[s] + 1 ELSE st0[s]]
    BY <1>3, <1>14
  <1>18. st \in [Signer -> Nat]
    BY <1>15, <1>17
  <1>19. PICK e \in s0[k].members : e \in S
    <2>1. SlotOK(s0[k], nid)
      BY <1>15 DEF SlotsOK
    <2>2. s0[k].n < T
      BY <1>10, <1>15 DEF Budget, Open
    <2>3. PICK M : M = Contributors(s0[k])
      OBVIOUS
    <2>4. Cardinality(s0[k].members) = T /\ Cardinality(M) < T
      BY <2>1, <2>2, <2>3 DEF SlotOK
    <2>5. M # s0[k].members
      BY <2>4, GroupAssumption
    <2>6. PICK d \in s0[k].members : d \notin M
      BY <2>3, <2>5 DEF Contributors
    <2>7. d \in Connected
      BY <1>7, <1>10, MembersConnected
    <2> QED
      BY <1>2, <1>7, <2>3, <2>6, <2>7 DEF SilentMembers
  <1>20. e \in Signer /\ e \notin bl0 /\ e \notin G /\ st0[e] < st[e]
    <2>1. s0[k].members \in SUBSET Signer
      BY <1>15 DEF SlotsOK, SlotOK
    <2>2. s0[k].members \cap bl0 = {}
      BY <1>10, <1>15 DEF Budget, Open
    <2>3. st0[e] \in Nat /\ st[e] = st0[e] + 1
      BY <1>15, <1>17, <1>19, <2>1
    <2>4. strikes'[e] # 0
      BY <1>10, <2>3
    <2>5. e \notin G
      BY <2>4 DEF HonestNeverPenalised
    <2> QED
      BY <1>19, <2>1, <2>2, <2>3, <2>5
  <1>21. O \in SUBSET S /\ S \in SUBSET s0[k].members /\ bl = bl0 \cup O
         /\ \A d \in S : d \notin O => ~(st[d] >= MaxStrikes)
    BY <1>2, <1>4, <1>5, <1>7, <1>11 DEF Outcasts, SilentMembers
  <1>22. ASSUME NEW d \in Signer
         PROVE  st0[d] <= st[d] /\ (d \notin bl => st[d] < MaxStrikes)
    <2>1. st0[d] \in Nat /\ st[d] \in Nat /\ MaxStrikes \in Nat
      BY <1>15, <1>18, CoordinatorAssumption
    <2>2. d \notin bl0 => st0[d] < MaxStrikes
      BY <1>15 DEF Budget
    <2>3. CASE d \in S
      BY <1>17, <1>21, <2>1, <2>3
    <2>4. CASE d \notin S
      BY <1>17, <1>21, <2>1, <2>2, <2>4
    <2> QED
      BY <2>3, <2>4
  <1>23. Fails(k, G, p, s0, st0, bl0, st, bl)
    BY <1>10, <1>15, <1>18, <1>20, <1>21, <1>22 DEF Fails
  <1>24. G \in SUBSET Signer
    BY HonestFacts
  <1>25. Budget(G, x, st, bl, nid)
    BY <1>15, <1>16, <1>23, <1>24, BudgetFail
  <1>26. Budget(G, sessions', st, bl, nextId')
    BY <1>10, <1>12, <1>15, <1>16, <1>25, BudgetForm
  <1> QED
    BY <1>10, <1>26

\* Once the certificate is signed no session is formed.
LEMMA DoneNoSession ==
  ASSUME CoordMayFail = FALSE, SystemInv, TbsInv, OnceInv, done, [Next]_vars
  PROVE  nextId' = nextId
  <1>1. ASSUME NEW s \in Signer, CoordinatorStep(s) PROVE nextId' = nextId
    <2>1. PICK m : m = Head(toC[s])
      OBVIOUS
    <2>2. toC[s] # <<>> /\ ProcessSignerFrame(s, m)
      BY <1>1, <2>1 DEF CoordinatorStep
    <2>3. CASE m.type = "SIG_SHARE" /\ OnSigShare(s, m)
      <3>1. CASE UNCHANGED <<roastVars, certVars>>
        BY <3>1 DEF roastVars
      <3>2. ASSUME NEW k, NEW y, NEW x, Settles(k, y, x) PROVE nextId' = nextId
        BY <3>2 DEF Settles, Won, Caught, Filed
      <3>3. PICK y : y = SetPhase(peer, {s}, "SHARED")
        OBVIOUS
      <3>4. ASSUME NEW k \in ShareSlot(s), Settles(k, y, StoreShare(k, s, m))
            PROVE  nextId' = nextId
        <4>1. PICK x : x = StoreShare(k, s, m)
          OBVIOUS
        <4> QED
          BY <3>2, <3>4, <4>1
      <3> QED
        BY <2>1, <2>2, <2>3, <3>1, <3>3, <3>4, ShareCases
    <2>4. CASE OnCommit(s, m)
      <3>1. CASE UNCHANGED roastVars
        BY <3>1 DEF roastVars
      <3>2. ASSUME NEW p, NEW st, NEW bl, NEW ss, NEW q, TryForm(p, st, bl, ss, q)
            PROVE  nextId' = nextId
        BY <3>2, Zenon DEF TryForm
      <3>3. CASE TryForm(StoreCommit(s, m), strikes, blacklist, sessions, toS)
        <4>1. PICK p : p = StoreCommit(s, m)
          OBVIOUS
        <4>2. PICK st : st = strikes
          OBVIOUS
        <4>3. PICK bl : bl = blacklist
          OBVIOUS
        <4>4. PICK ss : ss = sessions
          OBVIOUS
        <4>5. PICK q : q = toS
          OBVIOUS
        <4>6. TryForm(p, st, bl, ss, q)
          BY <3>3, <4>1, <4>2, <4>3, <4>4, <4>5
        <4> QED
          BY <3>2, <4>6
      <3> QED
        BY <2>4, <3>1, <3>3 DEF OnCommit
    <2> QED
      BY <2>2, <2>3, <2>4 DEF ProcessSignerFrame, OnShareLoadFail, OnClosed
  <1> QED
    BY <1>1 DEF Next, SignerStep, Connect, Register, Crash, Timeout, Expire, LoopTop,
                NextCert, Exit, Finished, vars, coordVars, roastVars

\* A commitment is stored, and a session may be formed.
LEMMA BudgetCommit ==
  ASSUME NEW G, SystemInv, Budget(G, sessions, strikes, blacklist, nextId),
         NEW s \in Signer, NEW m, OnCommit(s, m)
  PROVE  Budget(G, sessions', strikes', blacklist', nextId')
  <1>1. CASE UNCHANGED roastVars
    BY <1>1 DEF roastVars
  <1>2. CASE /\ TryForm(StoreCommit(s, m), strikes, blacklist, sessions, toS)
             /\ strikes' = strikes /\ blacklist' = blacklist
    <2>1. PICK p : p = StoreCommit(s, m)
      OBVIOUS
    <2>2. PICK st : st = strikes
      OBVIOUS
    <2>3. PICK bl : bl = blacklist
      OBVIOUS
    <2>4. PICK ss : ss = sessions
      OBVIOUS
    <2>5. PICK q : q = toS
      OBVIOUS
    <2>6. TryForm(p, st, bl, ss, q)
      BY <1>2, <2>1, <2>2, <2>3, <2>4, <2>5
    <2>7. Budget(G, ss, st, bl, nextId) /\ nextId \in Nat \ {0} /\ ss \in Seq(Range(ss))
      BY <2>2, <2>3, <2>4 DEF SystemInv, Coherent, SlotsOK
    <2>8. Budget(G, sessions', st, bl, nextId')
      BY <2>6, <2>7, BudgetForm
    <2> QED
      BY <1>2, <2>2, <2>3, <2>8
  <1> QED
    BY <1>1, <1>2 DEF OnCommit

\* A share: filed, the certificate is written, or a culprit is named.
LEMMA BoundShare ==
  ASSUME NEW G \in SUBSET Honest, Cardinality(G) = T,
         CoordMayFail = FALSE, SystemInv, TbsInv, OnceInv, EscrowInv, ~done,
         Budget(G, sessions, strikes, blacklist, nextId), HonestNeverPenalised',
         NEW s \in Signer, toC[s] # <<>>,
         NEW m, m = Head(toC[s]), m.type = "SIG_SHARE", OnSigShare(s, m)
  PROVE  /\ done' => nextId' = nextId
         /\ ~done' => Budget(G, sessions', strikes', blacklist', nextId')
  <1>1. CASE UNCHANGED <<roastVars, certVars>>
    BY <1>1 DEF roastVars, certVars
  <1>2. Coherent(signer, toC, peer, sessions, nextId, toS)
    BY DEF SystemInv
  <1>3. PICK y : y = SetPhase(peer, {s}, "SHARED")
    OBVIOUS
  <1>4. ASSUME NEW k \in ShareSlot(s), NEW x, x = StoreShare(k, s, m), Settles(k, y, x)
        PROVE  /\ done' => nextId' = nextId
               /\ ~done' => Budget(G, sessions', strikes', blacklist', nextId')
    <2>1. /\ k \in DOMAIN sessions /\ SlotsOK(x, nextId) /\ DOMAIN x = DOMAIN sessions
          /\ \A j \in DOMAIN sessions : /\ x[j].state = sessions[j].state
                                        /\ x[j].members = sessions[j].members
          /\ sessions[k].state = "AWAITING"
      BY <1>2, <1>4, ShareStored
    <2>2. \A j \in DOMAIN sessions : j # k => x[j] = sessions[j]
      BY <1>2, <1>4, StoredWhere
    <2>3. CASE (x[k].n < T \/ done) /\ Filed(y, x)
      <3>1. PICK s0 : s0 = sessions
        OBVIOUS
      <3>2. PICK st : st = strikes
        OBVIOUS
      <3>3. PICK bl : bl = blacklist
        OBVIOUS
      <3>4. PICK nid : nid = nextId
        OBVIOUS
      <3>5. /\ Budget(G, s0, st, bl, nid) /\ DOMAIN x = DOMAIN s0
            /\ \A j \in DOMAIN s0 : /\ x[j].state = s0[j].state /\ x[j].members = s0[j].members
                                    /\ (x[j].n < T \/ x[j] = s0[j])
        BY <2>1, <2>2, <2>3, <3>1, <3>2, <3>3, <3>4
      <3>6. Budget(G, x, st, bl, nid)
        BY <3>5, BudgetStore
      <3>7. sessions' = x /\ strikes' = strikes /\ blacklist' = blacklist /\ nextId' = nextId
            /\ done' = done
        BY <2>3 DEF Filed
      <3> QED
        BY <3>2, <3>3, <3>4, <3>6, <3>7
    <2>4. CASE Won(k, y, x)
      BY <2>4 DEF Won
    <2>5. CASE Caught(k, y, x)
      <3>1. x[k].members = sessions[k].members
        BY <2>1
      <3>2. Budget(G, sessions', strikes', blacklist', nextId')
        BY <2>1, <2>2, <2>5, <3>1, BudgetCaught
      <3>3. done' = done
        BY <2>5 DEF Caught, FailCulprit
      <3> QED
        BY <3>2, <3>3
    <2> QED
      BY <1>4, <2>3, <2>4, <2>5 DEF Settles
  <1>5. ASSUME NEW k \in ShareSlot(s), Settles(k, y, StoreShare(k, s, m))
        PROVE  /\ done' => nextId' = nextId
               /\ ~done' => Budget(G, sessions', strikes', blacklist', nextId')
    <2>1. PICK x : x = StoreShare(k, s, m)
      OBVIOUS
    <2> QED
      BY <1>4, <1>5, <2>1
  <1> QED
    BY <1>1, <1>3, <1>5, ShareCases

\* The invariant implies the bound.
LEMMA BoundHolds ==
  ASSUME NEW G \in SUBSET Honest, Cardinality(G) = T, SystemInv, EscrowInv, BoundInv(G)
  PROVE  SessionBound
  <1>1. CASE done
    BY <1>1 DEF BoundInv
  <1>2. CASE ~done
    <2>1. PICK ss : ss = sessions
      OBVIOUS
    <2>2. PICK st : st = strikes
      OBVIOUS
    <2>3. PICK bl : bl = blacklist
      OBVIOUS
    <2>4. PICK nid : nid = nextId
      OBVIOUS
    <2>5. PICK p : p = peer
      OBVIOUS
    <2>6. /\ Budget(G, ss, st, bl, nid) /\ Escrow(p, ss) /\ SlotsOK(ss, nid)
          /\ nid \in Nat \ {0} /\ st \in [Signer -> Nat]
      BY <1>2, <2>1, <2>2, <2>3, <2>4, <2>5
         DEF BoundInv, EscrowInv, SystemInv, Coherent, ListOK
    <2>7. G \in SUBSET Signer
      BY HonestFacts
    <2>8. nid - 1 <= MaxStrikes * (N - T) + 1
      BY <2>6, <2>7, BudgetBounds
    <2> QED
      BY <2>4, <2>8 DEF SessionBound
  <1> QED
    BY <1>1, <1>2

\* BoundInv is inductive, given that no honest signer is penalised.
LEMMA BoundInvNext ==
  ASSUME NEW G \in SUBSET Honest, Cardinality(G) = T,
         CoordMayFail = FALSE, SystemInv, TbsInv, OnceInv, EscrowInv, Steady,
         HonestNeverPenalised', BoundInv(G), [Next]_vars
  PROVE  BoundInv(G)'
  <1>1. CASE done
    <2>1. SessionBound /\ done' /\ nextId' = nextId
      BY <1>1, DoneNoPenalty, DoneNoSession DEF BoundInv
    <2> QED
      BY <2>1 DEF BoundInv, SessionBound
  <1>2. CASE ~done
    <2>1. Budget(G, sessions, strikes, blacklist, nextId)
      BY <1>2 DEF BoundInv
    <2>2. SessionBound
      BY BoundHolds
    <2>3. ASSUME done' => nextId' = nextId,
                 ~done' => Budget(G, sessions', strikes', blacklist', nextId')
          PROVE  BoundInv(G)'
      BY <2>2, <2>3 DEF BoundInv, SessionBound
    <2>4. ASSUME sessions' = sessions, strikes' = strikes, blacklist' = blacklist,
                 nextId' = nextId
          PROVE  BoundInv(G)'
      BY <2>1, <2>3, <2>4
    <2>5. ASSUME NEW s \in Signer, CoordinatorStep(s) PROVE BoundInv(G)'
      <3>1. PICK m : m = Head(toC[s])
        OBVIOUS
      <3>2. ProcessSignerFrame(s, m) /\ toC[s] # <<>>
        BY <2>5, <3>1 DEF CoordinatorStep
      <3>3. CASE m.type = "COMMIT" /\ OnCommit(s, m)
        <4>1. Budget(G, sessions', strikes', blacklist', nextId')
          BY <2>1, <3>3, BudgetCommit
        <4>2. done' = done
          BY <3>3 DEF OnCommit, certVars
        <4> QED
          BY <1>2, <2>3, <4>1, <4>2
      <3>4. CASE m.type = "SIG_SHARE" /\ OnSigShare(s, m)
        BY <1>2, <2>1, <2>3, <3>1, <3>2, <3>4, BoundShare
      <3>5. CASE OnShareLoadFail(s) \/ OnClosed(s)
        BY <2>4, <3>5 DEF OnShareLoadFail, OnClosed
      <3> QED
        BY <3>2, <3>3, <3>4, <3>5 DEF ProcessSignerFrame
    <2>6. CASE Timeout
      <3>1. PICK k \in DOMAIN sessions : Expire(k)
        BY <2>6 DEF Timeout
      <3>2. Budget(G, sessions', strikes', blacklist', nextId')
        BY <2>1, <3>1, BudgetExpire
      <3>3. done' = done
        BY <3>1 DEF Expire, certVars
      <3> QED
        BY <1>2, <2>3, <3>2, <3>3
    <2>7. ASSUME NEW s \in Signer, SignerStep(s) \/ Crash(s) \/ Connect(s) PROVE BoundInv(G)'
      BY <2>4, <2>7 DEF SignerStep, Crash, Connect, Register, coordVars
    <2>8. CASE LoopTop \/ Finished \/ UNCHANGED vars
      BY <1>2, <2>4, <2>8 DEF LoopTop, NextCert, Exit, Finished, vars, coordVars, roastVars
    <2> QED
      BY <2>5, <2>6, <2>7, <2>8 DEF Next
  <1> QED
    BY <1>1, <1>2

\* At the start nothing is spent.
LEMMA BoundInit ==
  ASSUME NEW G \in SUBSET Signer, Cardinality(G) = T, Init
  PROVE  Steady /\ EscrowInv /\ BoundInv(G)
  <1>1. /\ sessions = <<>> /\ nextId = 1 /\ done = FALSE /\ blacklist = {}
        /\ strikes = [s \in Signer |-> 0] /\ toC = [s \in Signer |-> <<>>]
        /\ peer = [s \in Signer |-> Blank("INIT")]
    BY DEF Init
  <1>2. Steady
    <2>1. Range(<<>>) = {}
      BY DEF Range
    <2>2. Blank("INIT").commit = NoCommit
      BY DEF Blank
    <2>3. \A s \in Signer : toC[s] = <<>> /\ peer[s].commit = NoCommit
      BY <1>1, <2>2
    <2> QED
      BY <2>1, <2>3 DEF Steady, Stays
  <1>3. PICK ss : ss = <<>>
    OBVIOUS
  <1>4. DOMAIN ss = {} /\ 1..(1 - 1) = {}
    BY <1>3
  <1>5. EscrowInv
    BY <1>1, <1>3, <1>4 DEF EscrowInv, Escrow
  <1>6. PICK st : st = [s \in Signer |-> 0]
    OBVIOUS
  <1>7. Cardinality(FailedOf(ss)) <= Cardinality(Used(G, st, {}))
    <2>1. FailedOf(ss) = {}
      BY <1>4 DEF FailedOf
    <2>2. Cardinality({}) = 0
      BY FS_EmptySet
    <2>3. PICK U : U = Used(G, st, {})
      OBVIOUS
    <2>4. U \in SUBSET Tokens(G)
      BY <2>3 DEF Used
    <2>5. IsFiniteSet(Tokens(G))
      BY TokensCount
    <2>6. IsFiniteSet(U)
      BY <2>4, <2>5, FS_Subset
    <2>7. Cardinality(U) \in Nat
      BY <2>6, FS_CardinalityType
    <2> QED
      BY <2>1, <2>2, <2>3, <2>7
  <1>8. \A d \in Signer \ {} : st[d] < MaxStrikes
    BY <1>6, CoordinatorAssumption
  <1>9. Open(ss, {})
    BY <1>4 DEF Open
  <1>10. Budget(G, ss, st, {}, 1)
    BY <1>4, <1>7, <1>8, <1>9 DEF Budget
  <1> QED
    BY <1>1, <1>2, <1>3, <1>5, <1>6, <1>10 DEF BoundInv

\* Of at least T honest signers T can be picked.
LEMMA HonestGroup ==
  ASSUME Cardinality(Honest) >= T
  PROVE  \E G \in SUBSET Honest : Cardinality(G) = T
  <1>1. IsFiniteSet(Signer)
    BY GroupAssumption, FS_Interval DEF Signer
  <1>2. Honest \in SUBSET Signer
    BY HonestFacts
  <1>3. IsFiniteSet(Honest)
    BY <1>1, <1>2, FS_Subset
  <1>4. PICK n : n = Cardinality(Honest)
    OBVIOUS
  <1>5. n \in Nat /\ T <= n /\ ExistsBijection(1..n, Honest)
    BY <1>3, <1>4, FS_CardinalityType, GroupAssumption
  <1>6. PICK b : b \in Bijection(1..n, Honest)
    BY <1>5 DEF ExistsBijection
  <1>7. b \in [1..n -> Honest] /\ \A i, j \in 1..n : b[i] = b[j] => i = j
    BY <1>6 DEF Bijection, Injection, IsInjective
  <1>8. PICK f : f = [i \in 1..T |-> b[i]]
    OBVIOUS
  <1>9. PICK G : G = {f[i] : i \in 1..T}
    OBVIOUS
  <1>10. 1..T \in SUBSET (1..n)
    BY <1>5, GroupAssumption
  <1>11. /\ f \in [1..T -> G] /\ G \in SUBSET Honest
         /\ \A i, j \in 1..T : f[i] = f[j] => i = j
         /\ \A g \in G : \E i \in 1..T : f[i] = g
    BY <1>7, <1>8, <1>9, <1>10
  <1>12. f \in Injection(1..T, G)
    BY <1>11 DEF Injection, IsInjective
  <1>13. f \in Surjection(1..T, G)
    BY <1>11 DEF Surjection
  <1>14. IsFiniteSet(1..T) /\ Cardinality(1..T) = T
    BY GroupAssumption, FS_Interval
  <1>15. PICK I : I = 1..T
    OBVIOUS
  <1>16. Cardinality(G) = Cardinality(I)
    <2>1. f \in Surjection(I, G) /\ f \in Injection(I, G) /\ IsFiniteSet(I)
      BY <1>12, <1>13, <1>14, <1>15
    <2> QED
      BY <2>1, FS_Surjection
  <1> QED
    BY <1>11, <1>14, <1>15, <1>16

\* The bound, for a given group G of T honest signers.
LEMMA GroupBound ==
  ASSUME PromptSigners = TRUE, ToMint = 1, CoordMayFail = FALSE, CoreMayFail = FALSE,
         ReplaceTbs = {FALSE}, Crashers = {},
         NEW G \in SUBSET Honest, Cardinality(G) = T
  PROVE  Spec => []SessionBound
  <1>1. Init => TbsInv /\ OnceInv /\ PenaltyInv
    BY PenaltyInit
  <1>2. Init => Steady /\ EscrowInv /\ BoundInv(G)
    <2>1. G \in SUBSET Signer
      BY HonestFacts
    <2> QED
      BY <2>1, BoundInit
  <1>3. SystemInv /\ TbsInv /\ [Next]_vars => TbsInv'
    BY TbsInvNext
  <1>4. SystemInv /\ TbsInv /\ OnceInv /\ [Next]_vars => OnceInv'
    BY OnceInvNext
  <1>5. SystemInv /\ TbsInv /\ OnceInv /\ PenaltyInv /\ [Next]_vars => PenaltyInv'
    BY PenaltyInvNext
  <1>6. SystemInv /\ TbsInv /\ OnceInv /\ Steady /\ [Next]_vars => Steady'
    BY SteadyNext
  <1>7. SystemInv /\ Steady /\ EscrowInv /\ [Next]_vars => EscrowInv'
    BY SteadyEscrow, EscrowInvNext
  <1>8. /\ SystemInv /\ TbsInv /\ OnceInv /\ EscrowInv /\ Steady /\ PenaltyInv'
        /\ BoundInv(G) /\ [Next]_vars
        => BoundInv(G)'
    BY BoundInvNext DEF PenaltyInv
  <1>9. SystemInv /\ EscrowInv /\ BoundInv(G) => SessionBound
    BY BoundHolds
  <1>10. Spec => []SystemInv
    BY SystemInvariant
  <1> QED
    BY <1>1, <1>2, <1>3, <1>4, <1>5, <1>6, <1>7, <1>8, <1>9, <1>10, PTL DEF Spec

\* How many sessions the others can cost.  With T honest signers at least and
\* processes that do not crash, under the conditions of the theorem above, the
\* ids that roast_try_form_session gives out for one certificate stay within
\* MaxStrikes * (N - T) + 1: every failed session has cost a signer outside of
\* the honest ones a strike or its place, whatever the others send or withhold.
THEOREM SystemSessionBound ==
  ASSUME PromptSigners = TRUE, ToMint = 1, CoordMayFail = FALSE, CoreMayFail = FALSE,
         ReplaceTbs = {FALSE}, Crashers = {}, Cardinality(Honest) >= T
  PROVE  Spec => []SessionBound
  <1>1. PICK G \in SUBSET Honest : Cardinality(G) = T
    BY HonestGroup
  <1> QED
    BY <1>1, GroupBound
=============================================================================
