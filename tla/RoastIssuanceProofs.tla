----------------------- MODULE RoastIssuanceProofs -----------------------
(***************************************************************************)
(* What a SIGN-mode run issues and how its sessions share the signers:     *)
(* the count and the serials of a --mass-mint run, the message a session   *)
(* completes for, the disjointness of ROAST's sessions, and the nonces     *)
(* behind the certificates.  The proofs build on the invariant SystemInv   *)
(* of RoastSystemProofs.                                                   *)
(***************************************************************************)
EXTENDS RoastSystemProofs

-----------------------------------------------------------------------------
(* What a step does to the certificate in hand and to those written.       *)

\* call_mint is reached only while signing is under way, and every step that
\* does not mint leaves job and certs alone, but for the next certificate.
JobSame == job' = job /\ certs' = certs /\ (done' = done \/ done = FALSE)

MintStep == /\ done = FALSE /\ done' = TRUE
            /\ \E pkg : Mint(pkg)

LEMMA AggregateJob ==
  ASSUME done \in BOOLEAN, ~done, NEW k, NEW p, NEW ss, Aggregate(k, p, ss)
  PROVE  JobSame \/ MintStep
  <1>1. CASE Succeed(k, p, ss)
    <2>1. PICK pkg : pkg = ss[k].pkg
      OBVIOUS
    <2>2. done' = TRUE /\ (Mint(pkg) \/ MintFails(pkg))
      BY <1>1, <2>1 DEF Succeed
    <2>3. CASE Mint(pkg)
      BY <2>2, <2>3 DEF MintStep
    <2>4. CASE MintFails(pkg)
      BY <2>4 DEF MintFails, JobSame
    <2> QED
      BY <2>2, <2>3, <2>4
  <1>2. CASE FailCulprit(k, Culprit(ss[k]), p, ss)
    BY <1>2 DEF FailCulprit, JobSame
  <1>3. CASE FailAll(k, p, ss)
    BY <1>3 DEF FailAll, JobSame
  <1>4. CASE job' = job /\ done' = done /\ certs' = certs
    BY <1>4 DEF JobSame
  <1> QED
    BY <1>1, <1>2, <1>3, <1>4 DEF Aggregate, certVars

LEMMA StepJob ==
  ASSUME SystemInv, [Next]_vars
  PROVE  JobSame \/ MintStep \/ NextCert
  <1>1. done \in BOOLEAN
    BY DEF SystemInv, ListOK
  <1>2. CASE UNCHANGED vars
    BY <1>2 DEF vars, coordVars, JobSame
  <1>3. ASSUME NEW s \in Signer, SignerStep(s) \/ Crash(s) PROVE JobSame
    BY <1>3 DEF SignerStep, Crash, coordVars, JobSame
  <1>4. ASSUME NEW s \in Signer, CoordinatorStep(s) PROVE JobSame \/ MintStep
    <2>1. PICK m : ProcessSignerFrame(s, m)
      BY <1>4 DEF CoordinatorStep
    <2>2. ASSUME NEW k, NEW ss, NEW p, ~done, Aggregate(k, p, ss)
          PROVE  JobSame \/ MintStep
      BY <1>1, <2>2, AggregateJob
    <2>3. CASE OnSigShare(s, m)
      <3>1. CASE UNCHANGED certVars
        BY <3>1 DEF certVars, JobSame
      <3>2. \/ UNCHANGED certVars
            \/ \E k, p, ss : ~done /\ Aggregate(k, p, ss)
        BY <2>3, Zenon DEF OnSigShare, certVars
      <3> QED
        BY <2>2, <3>1, <3>2
    <2> QED
      BY <2>1, <2>3 DEF ProcessSignerFrame, OnShareLoadFail, OnCommit, OnClosed,
                        certVars, JobSame
  <1>5. ASSUME NEW s \in Signer, Connect(s) PROVE JobSame
    BY <1>5 DEF Connect, Register, certVars, JobSame
  <1>6. CASE Timeout
    BY <1>6 DEF Timeout, Expire, certVars, JobSame
  <1>7. CASE LoopTop
    BY <1>7 DEF LoopTop, Exit, certVars, JobSame
  <1>8. CASE Finished
    BY <1>2, <1>8 DEF Finished
  <1> QED
    BY <1>2, <1>3, <1>4, <1>5, <1>6, <1>7, <1>8 DEF Next

-----------------------------------------------------------------------------
(* How many certificates are written.                                      *)

\* g_to_mint is what is left to issue, and signing goes on only while
\* something is left.
MintInv ==
  /\ Len(certs) + job.toMint = ToMint
  /\ done \/ job.toMint > 0

\* The decrement of the unsigned counter does not wrap.
LEMMA Decrement ==
  ASSUME NEW C \in Nat, NEW n \in 1..(C - 1)
  PROVE  (n + C - 1) % C = n - 1
  OBVIOUS

LEMMA MintInvNext ==
  ASSUME SystemInv, MintInv, [Next]_vars
  PROVE  MintInv'
  <1>1. /\ job \in Job /\ certs \in Seq(Certificate) /\ done \in BOOLEAN
        /\ job.toMint \in 0..(CounterMod - 1) /\ Len(certs) \in Nat
    BY DEF SystemInv, CertsOK, ListOK, Job
  <1>2. CASE JobSame
    BY <1>1, <1>2 DEF MintInv, JobSame
  <1>3. CASE MintStep
    <2>1. PICK pkg : Mint(pkg)
      BY <1>3 DEF MintStep
    <2>2. PICK j \in Job : j = job
      BY <1>1
    <2>3. job' = [j EXCEPT !.toMint = (j.toMint + CounterMod - 1) % CounterMod]
      BY <2>1, <2>2 DEF Mint
    <2>4. j.toMint \in 1..(CounterMod - 1)
      BY <1>1, <1>3, <2>2 DEF MintInv, MintStep
    <2>5. (j.toMint + CounterMod - 1) % CounterMod = j.toMint - 1
      BY <2>4, Decrement, CoordinatorAssumption
    <2>6. job'.toMint = j.toMint - 1
      BY <2>3, <2>5 DEF Job
    <2>7. Len(certs') = Len(certs) + 1
      <3>1. PICK c : certs' = Append(certs, c)
        BY <2>1 DEF Mint
      <3> QED
        BY <1>1, <3>1
    <2>8. done'
      BY <1>3 DEF MintStep
    <2> QED
      BY <1>1, <2>2, <2>4, <2>6, <2>7, <2>8 DEF MintInv
  <1>4. CASE NextCert
    <2>1. PICK j \in Job : j = job
      BY <1>1
    <2>2. PICK n : n = NextSerial
      OBVIOUS
    <2>3. \/ job' = [j EXCEPT !.serial = n, !.tbs = <<n, "frost">>, !.template = n]
          \/ job' = [j EXCEPT !.serial = n]
          \/ job' = [j EXCEPT !.serial = n, !.tbs = <<n, "ephemeral">>, !.template = n]
      BY <1>4, <2>1, <2>2 DEF NextCert, PrepareTbs
    <2>4. job'.toMint = j.toMint
      BY <2>3 DEF Job
    <2>5. certs' = certs /\ job.toMint > 0
      BY <1>4 DEF NextCert
    <2> QED
      BY <2>1, <2>4, <2>5 DEF MintInv
  <1> QED
    BY <1>2, <1>3, <1>4, StepJob

\* --mass-mint count, for every count but 0, writes at most count certificates,
\* also when cores fail and sessions fail, expire or outlive their certificate:
\* call_mint is never reached with g_to_mint at 0, where its decrement wraps.
THEOREM SystemAtMostToMint ==
  ASSUME ToMint > 0
  PROVE  Spec => []AtMostToMint
  <1>1. Init => MintInv
    BY CoordinatorAssumption DEF Init, MintInv
  <1>2. SystemInv /\ MintInv /\ [Next]_vars => MintInv'
    BY MintInvNext
  <1>3. SystemInv /\ MintInv => AtMostToMint
    <2> SUFFICES ASSUME SystemInv, MintInv PROVE AtMostToMint
      OBVIOUS
    <2>1. job.toMint \in Nat /\ Len(certs) \in Nat
      BY CoordinatorAssumption DEF SystemInv, CertsOK, Job
    <2> QED
      BY <2>1, CoordinatorAssumption DEF MintInv, AtMostToMint
  <1> QED
    BY <1>1, <1>2, <1>3, SystemInvariant, PTL DEF Spec

-----------------------------------------------------------------------------
(* The serials.                                                            *)

\* While the runs of `tbs' succeed, the body in hand is of the serial in hand,
\* which is new as long as signing goes on.
SerialInv ==
  /\ job.template = job.serial
  /\ \A i \in DOMAIN certs :
       /\ certs[i].serial <= job.serial
       /\ done \/ certs[i].serial < job.serial
  /\ DistinctSerials

LEMMA NextCertJob ==
  ASSUME CoordMayFail = FALSE, job \in Job, NextCert
  PROVE  /\ job'.serial = job.serial + 1 /\ job'.template = job'.serial
         /\ job'.tbs = <<job'.serial, "frost">> /\ sessions' = <<>>
         /\ certs' = certs
  <1>1. PICK j \in Job : j = job
    OBVIOUS
  <1>2. PICK n : n = j.serial + 1
    OBVIOUS
  <1>3. job' = [j EXCEPT !.serial = n, !.tbs = <<n, "frost">>, !.template = n]
        /\ sessions' = <<>> /\ certs' = certs
    BY <1>1, <1>2 DEF NextCert, PrepareTbs, NextSerial
  <1>4. job'.serial = n /\ job'.template = n /\ job'.tbs = <<n, "frost">>
    BY <1>3 DEF Job
  <1> QED
    BY <1>1, <1>2, <1>3, <1>4

LEMMA SerialInvNext ==
  ASSUME CoordMayFail = FALSE, SystemInv, SerialInv, [Next]_vars
  PROVE  SerialInv'
  <1>1. /\ job \in Job /\ certs \in Seq(Certificate) /\ done \in BOOLEAN
        /\ job.serial \in Nat
    BY DEF SystemInv, CertsOK, ListOK, Job
  <1>2. \A i \in DOMAIN certs : certs[i].serial \in Nat
    <2>1. \A i \in DOMAIN certs : certs[i] \in Certificate
      BY <1>1
    <2>2. \A c \in Certificate : c.serial \in Nat
      BY DEF Certificate
    <2> QED
      BY <2>1, <2>2
  <1>3. CASE JobSame
    <2>1. job' = job /\ certs' = certs
      BY <1>3 DEF JobSame
    <2>2. CASE done' = done
      BY <2>1, <2>2 DEF SerialInv, DistinctSerials
    <2>3. CASE done = FALSE
      <3>1. \A i \in DOMAIN certs : certs[i].serial < job.serial
        BY <2>3 DEF SerialInv
      <3> QED
        BY <2>1, <3>1 DEF SerialInv, DistinctSerials
    <2> QED
      BY <1>3, <2>2, <2>3 DEF JobSame
  <1>4. CASE NextCert
    <2>1. job'.serial = job.serial + 1 /\ job'.template = job'.serial /\ certs' = certs
      BY <1>1, <1>4, NextCertJob
    <2>2. \A i \in DOMAIN certs : certs[i].serial < job.serial + 1
      BY <1>1, <1>2 DEF SerialInv
    <2> QED
      BY <1>1, <1>2, <2>1, <2>2 DEF SerialInv, DistinctSerials
  <1>5. CASE MintStep
    <2>1. PICK pkg : Mint(pkg)
      BY <1>5 DEF MintStep
    <2>2. PICK j \in Job : j = job
      BY <1>1
    <2>3. PICK n : job' = [j EXCEPT !.toMint = n]
      BY <2>1, <2>2 DEF Mint
    <2>4. job'.serial = job.serial /\ job'.template = job.template
      BY <2>2, <2>3 DEF Job
    <2>5. PICK c : c = [file |-> job.serial, serial |-> job.template, pkg |-> pkg]
      OBVIOUS
    <2>6. certs' = Append(certs, c) /\ c.serial = job.serial
      BY <2>1, <2>5 DEF Mint, SerialInv
    <2>7. PICK l \in Nat : l = Len(certs)
      BY <1>1
    <2>8. /\ DOMAIN certs = 1..l /\ DOMAIN certs' = 1..(l + 1) /\ certs'[l + 1] = c
          /\ \A i \in 1..l : certs'[i] = certs[i]
      <3>1. PICK S : S = Certificate \cup {c}
        OBVIOUS
      <3>2. certs \in Seq(S) /\ c \in S
        BY <1>1, <3>1
      <3> QED
        BY <2>6, <2>7, <3>2
    <2>9. \A i \in DOMAIN certs : certs[i].serial < job.serial
      BY <1>5 DEF SerialInv, MintStep
    <2>10. done' = TRUE
      BY <1>5 DEF MintStep
    <2>11. \A i \in DOMAIN certs' : certs'[i].serial <= job'.serial
      <3> TAKE i \in DOMAIN certs'
      <3>1. CASE i = l + 1
        BY <1>1, <2>4, <2>6, <2>8, <3>1
      <3>2. CASE i \in 1..l
        BY <1>1, <1>2, <2>4, <2>8, <2>9, <3>2
      <3> QED
        BY <2>8, <3>1, <3>2
    <2>12. DistinctSerials'
      <3> SUFFICES ASSUME NEW i \in DOMAIN certs', NEW h \in DOMAIN certs', i # h
                   PROVE  certs'[i].serial # certs'[h].serial
        BY DEF DistinctSerials
      <3>1. CASE i = l + 1
        <4>1. h \in 1..l
          BY <2>8, <3>1
        <4>2. certs'[i].serial = job.serial /\ certs'[h].serial < job.serial
          BY <2>6, <2>8, <2>9, <3>1, <4>1
        <4> QED
          BY <1>1, <4>2
      <3>2. CASE h = l + 1
        <4>1. i \in 1..l
          BY <2>8, <3>2
        <4>2. certs'[h].serial = job.serial /\ certs'[i].serial < job.serial
          BY <2>6, <2>8, <2>9, <3>2, <4>1
        <4> QED
          BY <1>1, <4>2
      <3>3. CASE i \in 1..l /\ h \in 1..l
        BY <2>8, <3>3 DEF SerialInv, DistinctSerials
      <3> QED
        BY <2>8, <3>1, <3>2, <3>3
    <2>13. job'.template = job'.serial
      BY <2>4 DEF SerialInv
    <2> QED
      BY <2>10, <2>11, <2>12, <2>13 DEF SerialInv
  <1> QED
    BY <1>3, <1>4, <1>5, StepJob

\* As long as the coordinator's core runs, no two certificates of a --mass-mint
\* run carry the same serial, whatever the signers do: minting is closed from
\* one certificate until prepare_tbs has moved on to the next serial.
THEOREM SystemDistinctSerials ==
  ASSUME CoordMayFail = FALSE
  PROVE  Spec => []DistinctSerials
  <1>1. Init => SerialInv
    BY DEF Init, SerialInv, DistinctSerials
  <1>2. SystemInv /\ SerialInv /\ [Next]_vars => SerialInv'
    BY SerialInvNext
  <1>3. SerialInv => DistinctSerials
    BY DEF SerialInv
  <1> QED
    BY <1>1, <1>2, <1>3, SystemInvariant, PTL DEF Spec

-----------------------------------------------------------------------------
(* What a step does to the sessions.                                       *)

\* A package made for the certificate in hand, as it is or as --fault
\* replace-tbs alters it.
OfJob(pkg) == pkg.tbs \in {job.tbs, <<job.tbs[1], "altered">>}

\* Slots keep their packages; one that changes its state has failed, or was of
\* a message that signers were asked about; new ones are of the job in hand.
Evolves(ss, x) ==
  /\ DOMAIN ss \subseteq DOMAIN x
  /\ \A k \in DOMAIN ss :
       /\ x[k].pkg = ss[k].pkg
       /\ x[k].state \in {ss[k].state, "FAILED"} \/ ss[k].pkg.tbs \in AskedTbs
  /\ \A k \in DOMAIN x \ DOMAIN ss : OfJob(x[k].pkg)

LEMMA EvolvesSame ==
  ASSUME NEW ss PROVE Evolves(ss, ss)
  BY DEF Evolves

LEMMA EvolvesOn ==
  ASSUME NEW ss, NEW x, NEW y, Evolves(ss, x), Evolves(x, y)
  PROVE  Evolves(ss, y)
  <1>1. DOMAIN ss \subseteq DOMAIN x /\ DOMAIN x \subseteq DOMAIN y
    BY DEF Evolves
  <1>2. ASSUME NEW k \in DOMAIN ss
        PROVE  /\ y[k].pkg = ss[k].pkg
               /\ y[k].state \in {ss[k].state, "FAILED"} \/ ss[k].pkg.tbs \in AskedTbs
    <2>1. k \in DOMAIN x
      BY <1>1
    <2>2. /\ x[k].pkg = ss[k].pkg
          /\ x[k].state \in {ss[k].state, "FAILED"} \/ ss[k].pkg.tbs \in AskedTbs
      BY DEF Evolves
    <2>3. /\ y[k].pkg = x[k].pkg
          /\ y[k].state \in {x[k].state, "FAILED"} \/ x[k].pkg.tbs \in AskedTbs
      BY <2>1 DEF Evolves
    <2> QED
      BY <2>2, <2>3
  <1>3. ASSUME NEW k \in DOMAIN y \ DOMAIN ss PROVE OfJob(y[k].pkg)
    <2>1. CASE k \in DOMAIN x
      <3>1. OfJob(x[k].pkg) /\ y[k].pkg = x[k].pkg
        BY <2>1 DEF Evolves
      <3> QED
        BY <3>1
    <2>2. CASE k \notin DOMAIN x
      BY <2>2 DEF Evolves
    <2> QED
      BY <2>1, <2>2
  <1> QED
    BY <1>1, <1>2, <1>3 DEF Evolves

LEMMA SlotAppended ==
  ASSUME NEW ss, ss \in Seq(Range(ss)), NEW q, NEW x, x = Append(ss, q)
  PROVE  /\ x \in Seq(Range(x)) /\ Len(ss) \in Nat
         /\ DOMAIN x = DOMAIN ss \cup {Len(ss) + 1} /\ x[Len(ss) + 1] = q
         /\ \A j \in DOMAIN ss : x[j] = ss[j]
         /\ DOMAIN ss = 1..Len(ss)
  BY SlotAppend

LEMMA EvolvesForm ==
  ASSUME NEW p, NEW st, NEW bl, NEW ss, NEW q, ss \in Seq(Range(ss)),
         TryForm(p, st, bl, ss, q)
  PROVE  Evolves(ss, sessions')
  <1>1. CASE sessions' = ss
    BY <1>1, EvolvesSame
  <1>2. ASSUME NEW c, sessions' = Append(ss, NewSession(c, p))
        PROVE  Evolves(ss, sessions')
    <2>1. PICK z : z = NewSession(c, p)
      OBVIOUS
    <2>2. OfJob(z.pkg)
      <3>1. PICK b : b = SessionBundle(c, p)
        OBVIOUS
      <3>2. b.tbs \in {job.tbs, <<job.tbs[1], "altered">>}
        BY <3>1 DEF SessionBundle, Bundle
      <3>3. SigningPackage(b).tbs = b.tbs
        BY DEF SigningPackage
      <3>4. z.pkg = SigningPackage(b)
        BY <2>1, <3>1 DEF NewSession
      <3> QED
        BY <3>2, <3>3, <3>4 DEF OfJob
    <2>3. PICK x : x = Append(ss, z)
      OBVIOUS
    <2>4. /\ Len(ss) \in Nat
          /\ DOMAIN x = DOMAIN ss \cup {Len(ss) + 1} /\ x[Len(ss) + 1] = z
          /\ \A j \in DOMAIN ss : x[j] = ss[j]
      BY <2>3, SlotAppended
    <2>5. Evolves(ss, x)
      BY <2>2, <2>4 DEF Evolves
    <2> QED
      BY <1>2, <2>1, <2>3, <2>5
  <1> QED
    BY <1>1, <1>2, Zenon DEF TryForm

\* The slots ss with slot k in state v.
WithState(ss, k, v) == [ss EXCEPT ![k].state = v]

LEMMA StateChanged ==
  ASSUME NEW ss, NEW nid, SlotsOK(ss, nid), NEW k \in DOMAIN ss, NEW v,
         NEW x, x = WithState(ss, k, v)
  PROVE  /\ DOMAIN x = DOMAIN ss /\ x \in Seq(Range(x))
         /\ x[k].state = v /\ x[k].pkg = ss[k].pkg /\ x[k].id = ss[k].id
         /\ x[k].members = ss[k].members
         /\ \A j \in DOMAIN ss : j # k => x[j] = ss[j]
  <1>1. PICK M : M = ss[k].members
    OBVIOUS
  <1>2. PICK z \in [id : 1..(nid - 1), state : {"AWAITING", "COMPLETE", "FAILED"},
                    members : SUBSET Signer, pkg : Package,
                    shares : [M -> SentShare \cup {NoShare}], n : Nat] : z = ss[k]
    BY <1>1 DEF SlotsOK, SlotOK
  <1>3. PICK w : w = [z EXCEPT !.state = v]
    OBVIOUS
  <1>4. w.state = v /\ w.pkg = z.pkg /\ w.id = z.id /\ w.members = z.members
    BY <1>3
  <1>5. x = [ss EXCEPT ![k] = w]
    BY <1>2, <1>3, Zenon DEF WithState
  <1>6. ss \in Seq(Range(ss))
    BY DEF SlotsOK
  <1>7. /\ x \in Seq(Range(x)) /\ DOMAIN x = DOMAIN ss /\ x[k] = w
        /\ \A j \in DOMAIN ss : j # k => x[j] = ss[j]
    <2> DEFINE y == [ss EXCEPT ![k] = w]
    <2>1. /\ y \in Seq(Range(y)) /\ Len(y) = Len(ss) /\ DOMAIN y = DOMAIN ss /\ y[k] = w
          /\ \A j \in DOMAIN ss : j # k => y[j] = ss[j]
      BY <1>6, SlotUpdate
    <2> QED
      BY <1>5, <2>1, Zenon
  <1> QED
    BY <1>2, <1>4, <1>7

LEMMA EvolvesState ==
  ASSUME NEW ss, NEW k \in DOMAIN ss, NEW x, DOMAIN x = DOMAIN ss,
         x[k].state = "FAILED" \/ ss[k].pkg.tbs \in AskedTbs, x[k].pkg = ss[k].pkg,
         \A j \in DOMAIN ss : j # k => x[j] = ss[j]
  PROVE  Evolves(ss, x)
  BY DEF Evolves

\* The shares of a complete slot are of a message its members were asked about.
LEMMA WholeSlotAsked ==
  ASSUME NEW q, NEW nid, SlotOK(q, nid), Contributors(q) = q.members
  PROVE  q.pkg.tbs \in AskedTbs
  <1>1. q.members # {}
    <2>1. Cardinality(q.members) = T /\ T # 0
      BY GroupAssumption DEF SlotOK
    <2> QED
      BY <2>1, FS_EmptySet
  <1>2. PICK s \in q.members : q.shares[s] # NoShare
    BY <1>1 DEF Contributors
  <1>3. q.shares[s] \in SentShare
    BY <1>2 DEF SlotOK
  <1>4. q.shares[s].pkg = q.pkg
    BY DEF SlotOK
  <1>5. q.shares[s].pkg.tbs \in AskedTbs
    BY <1>3 DEF SentShare
  <1> QED
    BY <1>4, <1>5

LEMMA AggregateEvolves ==
  ASSUME NEW k, NEW p, NEW ss, NEW nid, SlotsOK(ss, nid), k \in DOMAIN ss,
         Aggregate(k, p, ss)
  PROVE  Evolves(ss, sessions')
  <1>1. CASE Contributors(ss[k]) = ss[k].members /\ Succeed(k, p, ss)
    <2>1. ss[k].pkg.tbs \in AskedTbs
      <3>1. SlotOK(ss[k], nid)
        BY DEF SlotsOK
      <3> QED
        BY <1>1, <3>1, WholeSlotAsked
    <2>2. PICK x : x = WithState(ss, k, "COMPLETE")
      OBVIOUS
    <2>3. /\ DOMAIN x = DOMAIN ss /\ x[k].pkg = ss[k].pkg
          /\ \A j \in DOMAIN ss : j # k => x[j] = ss[j]
      BY <2>2, StateChanged
    <2>4. Evolves(ss, x)
      BY <2>1, <2>3, EvolvesState
    <2> QED
      BY <1>1, <2>2, <2>4, Zenon DEF Succeed, WithState
  <1>2. PICK x : x = WithState(ss, k, "FAILED")
    OBVIOUS
  <1>3. Evolves(ss, x) /\ x \in Seq(Range(x))
    <2>1. /\ DOMAIN x = DOMAIN ss /\ x[k].pkg = ss[k].pkg /\ x[k].state = "FAILED"
          /\ \A j \in DOMAIN ss : j # k => x[j] = ss[j]
          /\ x \in Seq(Range(x))
      BY <1>2, StateChanged
    <2> QED
      BY <2>1, EvolvesState
  <1>4. CASE FailCulprit(k, Culprit(ss[k]), p, ss)
    <2>1. PICK p2, st, bl, q : TryForm(p2, st, bl, x, q)
      BY <1>2, <1>4, Zenon DEF FailCulprit, WithState
    <2>2. Evolves(x, sessions')
      BY <1>3, <2>1, EvolvesForm
    <2>3. PICK y : y = sessions'
      OBVIOUS
    <2> QED
      BY <1>3, <2>2, <2>3, EvolvesOn
  <1>5. CASE FailAll(k, p, ss)
    BY <1>2, <1>3, <1>5, Zenon DEF FailAll, WithState
  <1>6. CASE sessions' = ss
    BY <1>6, EvolvesSame
  <1> QED
    BY <1>1, <1>4, <1>5, <1>6, Zenon DEF Aggregate

LEMMA ShareStored ==
  ASSUME Coherent(signer, toC, peer, sessions, nextId, toS), NEW s \in Signer,
         toC[s] # <<>>, NEW m, m = Head(toC[s]), m.type = "SIG_SHARE",
         NEW k \in ShareSlot(s), NEW ss, ss = StoreShare(k, s, m)
  PROVE  /\ k \in DOMAIN sessions /\ SlotsOK(ss, nextId) /\ DOMAIN ss = DOMAIN sessions
         /\ \A j \in DOMAIN sessions :
              /\ ss[j].pkg = sessions[j].pkg /\ ss[j].state = sessions[j].state
              /\ ss[j].id = sessions[j].id /\ ss[j].members = sessions[j].members
         /\ sessions[k].state = "AWAITING"
  <1>1. k \in DOMAIN sessions /\ sessions[k].id = peer[s].session
        /\ s \in sessions[k].members /\ sessions[k].state = "AWAITING"
    BY DEF ShareSlot
  <1>2. /\ Coherent(signer, [toC EXCEPT ![s] = Tail(@)], peer, ss, nextId, toS)
        /\ DOMAIN ss = DOMAIN sessions
    BY <1>1, CoherentStoreShare, Zenon DEF StoreShare
  <1>3. SlotsOK(ss, nextId) /\ SlotsOK(sessions, nextId)
    BY <1>2 DEF Coherent
  <1>4. PICK M : M = sessions[k].members
    OBVIOUS
  <1>5. PICK z \in [id : 1..(nextId - 1), state : {"AWAITING", "COMPLETE", "FAILED"},
                    members : SUBSET Signer, pkg : Package,
                    shares : [M -> SentShare \cup {NoShare}], n : Nat] : z = sessions[k]
    BY <1>1, <1>3, <1>4 DEF SlotsOK, SlotOK
  <1>6. PICK g : g = [z.shares EXCEPT ![s] = m.share]
    OBVIOUS
  <1>7. PICK w : w = [z EXCEPT !.shares = g, !.n = z.n + 1]
    OBVIOUS
  <1>8. w.pkg = z.pkg /\ w.state = z.state /\ w.id = z.id /\ w.members = z.members
    BY <1>7
  <1>9. PICK y : y = sessions
    OBVIOUS
  <1>10. ss = [y EXCEPT ![k] = w]
    BY <1>5, <1>6, <1>7, <1>9, Zenon DEF StoreShare
  <1>11. /\ ss[k] = w /\ \A j \in DOMAIN sessions : j # k => ss[j] = sessions[j]
    <2>1. y \in Seq(Range(y)) /\ k \in DOMAIN y
      BY <1>1, <1>3, <1>9 DEF SlotsOK
    <2> DEFINE x == [y EXCEPT ![k] = w]
    <2>2. /\ x[k] = w /\ \A j \in DOMAIN y : j # k => x[j] = y[j]
      BY <2>1, SlotUpdate
    <2> QED
      BY <1>9, <1>10, <2>2, Zenon
  <1> QED
    BY <1>1, <1>2, <1>3, <1>5, <1>8, <1>11

LEMMA StepEvolves ==
  ASSUME SystemInv, [Next]_vars
  PROVE  Evolves(sessions, sessions') \/ NextCert
  <1>1. /\ Coherent(signer, toC, peer, sessions, nextId, toS)
        /\ SlotsOK(sessions, nextId) /\ sessions \in Seq(Range(sessions))
    BY DEF SystemInv, Coherent, SlotsOK
  <1>2. PICK y : y = sessions'
    OBVIOUS
  <1>3. PICK ss : ss = sessions
    OBVIOUS
  <1>4. ASSUME sessions' = sessions PROVE Evolves(sessions, sessions')
    BY <1>2, <1>3, <1>4, EvolvesSame
  <1>5. ASSUME NEW s \in Signer, CoordinatorStep(s) PROVE Evolves(sessions, sessions')
    <2>1. PICK m : m = Head(toC[s])
      OBVIOUS
    <2>2. toC[s] # <<>> /\ ProcessSignerFrame(s, m)
      BY <1>5, <2>1 DEF CoordinatorStep
    <2>3. CASE m.type = "SIG_SHARE" /\ OnSigShare(s, m)
      <3>1. ASSUME NEW k \in ShareSlot(s), NEW x, x = StoreShare(k, s, m),
                   NEW p, p = SetPhase(peer, {s}, "SHARED"),
                   \/ Aggregate(k, p, x)
                   \/ peer' = p /\ sessions' = x
            PROVE  Evolves(sessions, sessions')
        <4>1. /\ k \in DOMAIN sessions /\ SlotsOK(x, nextId)
              /\ DOMAIN x = DOMAIN sessions
              /\ \A j \in DOMAIN sessions : /\ x[j].pkg = sessions[j].pkg
                                            /\ x[j].state = sessions[j].state
          BY <1>1, <2>1, <2>2, <2>3, <3>1, ShareStored
        <4>2. Evolves(ss, x)
          BY <1>3, <4>1 DEF Evolves
        <4>3. PICK nid : nid = nextId
          OBVIOUS
        <4>4. Evolves(x, y)
          <5>1. CASE Aggregate(k, p, x)
            BY <1>2, <4>1, <4>3, <5>1, AggregateEvolves
          <5>2. CASE sessions' = x
            BY <1>2, <5>2, EvolvesSame
          <5> QED
            BY <3>1, <5>1, <5>2
        <4> QED
          BY <1>2, <1>3, <4>2, <4>4, EvolvesOn
      <3> QED
        BY <1>4, <2>3, <3>1, Zenon DEF OnSigShare, roastVars
    <2>4. CASE OnCommit(s, m)
      <3>1. ASSUME NEW p, NEW st, NEW bl, NEW q, TryForm(p, st, bl, sessions, q)
            PROVE  Evolves(sessions, sessions')
        <4>1. TryForm(p, st, bl, ss, q)
          BY <1>3, <3>1
        <4>2. ss \in Seq(Range(ss))
          BY <1>1, <1>3
        <4>3. Evolves(ss, sessions')
          BY <4>1, <4>2, EvolvesForm
        <4> QED
          BY <1>3, <4>3
      <3>2. CASE TryForm(StoreCommit(s, m), strikes, blacklist, sessions, toS)
        <4>1. PICK p : p = StoreCommit(s, m)
          OBVIOUS
        <4>2. PICK st : st = strikes
          OBVIOUS
        <4>3. PICK bl : bl = blacklist
          OBVIOUS
        <4>4. PICK q : q = toS
          OBVIOUS
        <4>5. TryForm(p, st, bl, sessions, q)
          BY <3>2, <4>1, <4>2, <4>3, <4>4
        <4> QED
          BY <3>1, <4>5
      <3> QED
        <4>1. CASE UNCHANGED roastVars
          BY <1>4, <4>1 DEF roastVars
        <4> QED
          BY <2>4, <3>2, <4>1, Zenon DEF OnCommit
    <2>5. CASE OnShareLoadFail(s) \/ OnClosed(s)
      BY <1>4, <2>5 DEF OnShareLoadFail, OnClosed
    <2> QED
      BY <2>2, <2>3, <2>4, <2>5, Zenon DEF ProcessSignerFrame
  <1>6. CASE Timeout
    <2>1. PICK k \in DOMAIN sessions : Expire(k)
      BY <1>6 DEF Timeout
    <2>2. PICK x : x = WithState(ss, k, "FAILED")
      OBVIOUS
    <2>3. PICK p, st, bl, q : TryForm(p, st, bl, x, q)
      BY <1>3, <2>1, <2>2, Zenon DEF Expire, WithState
    <2>4. PICK nid : nid = nextId
      OBVIOUS
    <2>5. /\ DOMAIN x = DOMAIN ss /\ x[k].pkg = ss[k].pkg /\ x[k].state = "FAILED"
          /\ \A j \in DOMAIN ss : j # k => x[j] = ss[j]
          /\ x \in Seq(Range(x))
      BY <1>1, <1>3, <2>2, <2>4, StateChanged
    <2>6. Evolves(ss, x)
      BY <1>3, <2>5, EvolvesState
    <2>7. Evolves(x, y)
      BY <1>2, <2>3, <2>5, EvolvesForm
    <2> QED
      BY <1>2, <1>3, <2>6, <2>7, EvolvesOn
  <1> QED
    BY <1>4, <1>5, <1>6 DEF Next, SignerStep, Connect, Register, Crash, LoopTop, Exit,
                            Finished, vars, coordVars, roastVars

-----------------------------------------------------------------------------
(* The message a session completes for.                                    *)

\* The slots in use are of the certificate in hand.
TbsInv == \A k \in DOMAIN sessions : OfJob(sessions[k].pkg)

LEMMA SameTbs ==
  ASSUME SystemInv, JobSame \/ MintStep
  PROVE  job'.tbs = job.tbs
  <1>1. CASE JobSame
    BY <1>1 DEF JobSame
  <1>2. CASE MintStep
    <2>1. PICK j \in Job : j = job
      BY DEF SystemInv, CertsOK
    <2>2. PICK n : job' = [j EXCEPT !.toMint = n]
      BY <1>2, <2>1 DEF MintStep, Mint
    <2> QED
      BY <2>1, <2>2 DEF Job
  <1> QED
    BY <1>1, <1>2

LEMMA TbsInvNext ==
  ASSUME CoordMayFail = FALSE, SystemInv, TbsInv, [Next]_vars
  PROVE  TbsInv'
  <1>1. CASE NextCert
    <2>1. sessions' = <<>>
      BY <1>1, NextCertJob DEF SystemInv, CertsOK
    <2> QED
      BY <2>1 DEF TbsInv
  <1>2. CASE ~NextCert
    <2>1. job'.tbs = job.tbs
      BY <1>2, SameTbs, StepJob
    <2>2. Evolves(sessions, sessions')
      BY <1>2, StepEvolves
    <2> SUFFICES ASSUME NEW k \in DOMAIN sessions'
                 PROVE  sessions'[k].pkg.tbs \in {job'.tbs, <<job'.tbs[1], "altered">>}
      BY DEF TbsInv, OfJob
    <2>3. OfJob(sessions'[k].pkg)
      <3>1. CASE k \in DOMAIN sessions
        <4>1. OfJob(sessions[k].pkg) /\ sessions'[k].pkg = sessions[k].pkg
          BY <2>2, <3>1 DEF TbsInv, Evolves
        <4> QED
          BY <4>1
      <3>2. CASE k \notin DOMAIN sessions
        BY <2>2, <3>2 DEF Evolves
      <3> QED
        BY <3>1, <3>2
    <2> QED
      BY <2>1, <2>3 DEF OfJob
  <1> QED
    BY <1>1, <1>2

\* As long as the coordinator's core runs, a session completes only for the
\* message of the certificate in hand: prepare_tbs clears the sessions, and one
\* whose bundle --fault replace-tbs altered gets no share.
THEOREM SystemSignsCurrentTbs ==
  ASSUME CoordMayFail = FALSE
  PROVE  Spec => SignsCurrentTbs
  <1>1. Init => TbsInv
    BY DEF Init, TbsInv
  <1>2. SystemInv /\ TbsInv /\ [Next]_vars => TbsInv'
    BY TbsInvNext
  <1> DEFINE A == \A k \in DOMAIN sessions \cap DOMAIN sessions' :
                    Live(k) /\ sessions'[k].state = "COMPLETE" =>
                      sessions[k].pkg.tbs = job.tbs
  <1>3. SystemInv /\ TbsInv /\ [Next]_vars => A
    <2> SUFFICES ASSUME SystemInv, TbsInv, [Next]_vars,
                        NEW k \in DOMAIN sessions \cap DOMAIN sessions',
                        Live(k), sessions'[k].state = "COMPLETE"
                 PROVE  sessions[k].pkg.tbs = job.tbs
      OBVIOUS
    <2>1. CASE NextCert
      <3>1. sessions' = <<>>
        BY <2>1, NextCertJob DEF SystemInv, CertsOK
      <3> QED
        BY <3>1
    <2>2. CASE Evolves(sessions, sessions')
      <3>1. sessions[k].pkg.tbs \in AskedTbs
        BY <2>2 DEF Evolves, Live
      <3>2. sessions[k].pkg.tbs \in {job.tbs, <<job.tbs[1], "altered">>}
        BY DEF TbsInv, OfJob
      <3>3. <<job.tbs[1], "altered">> \notin AskedTbs
        BY DEF AskedTbs
      <3> QED
        BY <3>1, <3>2, <3>3
    <2> QED
      BY <2>1, <2>2, StepEvolves
  <1>4. Spec => []SystemInv
    BY SystemInvariant
  <1> QED
    BY <1>1, <1>2, <1>3, <1>4, PTL DEF Spec, SignsCurrentTbs
-----------------------------------------------------------------------------
(* ROAST's escrow.                                                         *)

\* Nobody whom the table puts in a session registers again.
NoMemberReturns ==
  [][\A s \in Signer : Connect(s) => peer[s].session = 0]_vars

\* Sessions have ids of their own, and the table puts the members of each one
\* that awaits shares in that session.
Escrow(p, ss) ==
  /\ \A i, j \in DOMAIN ss : i # j => ss[i].id # ss[j].id
  /\ \A k \in DOMAIN ss : ss[k].state = "AWAITING" =>
       \A s \in ss[k].members : p[s].session = ss[k].id

EscrowInv == Escrow(peer, sessions)

LEMMA EscrowKeeps ==
  ASSUME NEW p, NEW ss, NEW p2, NEW x, Escrow(p, ss), DOMAIN x = DOMAIN ss,
         \A j \in DOMAIN ss :
           /\ x[j].id = ss[j].id /\ x[j].members = ss[j].members
           /\ x[j].state = "AWAITING" =>
                /\ ss[j].state = "AWAITING"
                /\ \A s \in ss[j].members : p2[s].session = p[s].session
  PROVE  Escrow(p2, x)
  BY DEF Escrow

\* Of two sessions that await shares none has a member of the other.
LEMMA EscrowApart ==
  ASSUME NEW p, NEW ss, Escrow(p, ss), NEW i \in DOMAIN ss, NEW j \in DOMAIN ss, i # j,
         ss[i].state = "AWAITING", ss[j].state = "AWAITING",
         NEW s \in ss[i].members
  PROVE  s \notin ss[j].members
  BY DEF Escrow

\* The table after a reset or a change of phase.
LEMMA TableSession ==
  ASSUME NEW nid, NEW p, TableOK(p, nid), NEW S, NEW ph, NEW s \in Signer
  PROVE  /\ SetPhase(p, S, ph)[s].session = p[s].session
         /\ s \notin S => Reset(p, S, ph)[s] = p[s]
  <1>1. PICK e \in PeerRecord : e = p[s]
    BY DEF TableOK
  <1>2. [e EXCEPT !.phase = ph].session = e.session
    BY DEF PeerRecord
  <1>3. SetPhase(p, S, ph)[s] = IF s \in S THEN [e EXCEPT !.phase = ph] ELSE e
    BY <1>1 DEF SetPhase
  <1>4. SetPhase(p, S, ph)[s].session = p[s].session
    BY <1>1, <1>2, <1>3
  <1> QED
    BY <1>4 DEF Reset

\* A new session takes signers that are in none.
LEMMA EscrowForm ==
  ASSUME NEW sg, NEW up, NEW p, NEW st, NEW bl, NEW ss, NEW q,
         Coherent(sg, up, p, ss, nextId, q), arrived \in [Signer -> Nat],
         Escrow(p, ss), TryForm(p, st, bl, ss, q)
  PROVE  Escrow(peer', sessions')
  <1>1. CASE peer' = p /\ sessions' = ss
    BY <1>1
  <1>2. ASSUME NEW c \in {x \in [1..T -> Connected] : IsSelection(x, p, st, bl)},
               peer' = EnterSession(c, p), sessions' = Append(ss, NewSession(c, p))
        PROVE  Escrow(peer', sessions')
    <2>1. c \in [1..T -> Connected] /\ IsSelection(c, p, st, bl)
      OBVIOUS
    <2>2. \A s \in Signer : /\ p[s].phase = "SUSPECT" => p[s].commit = NoCommit
                            /\ p[s].phase = "COMMITTED" => p[s].session = 0
      BY DEF Coherent, Link, PhaseFits
    <2>3. \A s \in Chosen(c) : s \in Signer /\ p[s].session = 0
      BY <2>1, <2>2, SelectionFacts
    <2>4. PICK z : z = NewSession(c, p)
      OBVIOUS
    <2>5. z.id = nextId /\ z.members = Chosen(c)
      BY <2>4 DEF NewSession, Chosen
    <2>6. PICK x : x = Append(ss, z)
      OBVIOUS
    <2>7. /\ SlotsOK(ss, nextId) /\ nextId \in Nat \ {0} /\ TableOK(p, nextId)
          /\ \A k \in DOMAIN ss : SlotOK(ss[k], nextId)
      BY DEF Coherent, SlotsOK
    <2>8. \A k \in DOMAIN ss :
            /\ ss[k].id # 0 /\ ss[k].id # nextId /\ ss[k].members \in SUBSET Signer
      <3> TAKE k \in DOMAIN ss
      <3>1. ss[k].id \in 1..(nextId - 1) /\ ss[k].members \in SUBSET Signer
        BY <2>7 DEF SlotOK
      <3> QED
        BY <2>7, <3>1
    <2>9. /\ DOMAIN x = DOMAIN ss \cup {Len(ss) + 1} /\ x[Len(ss) + 1] = z
          /\ \A j \in DOMAIN ss : x[j] = ss[j]
          /\ Len(ss) \in Nat /\ DOMAIN ss = 1..Len(ss)
      BY <2>6, <2>7, SlotAppended DEF SlotsOK
    <2>10. PICK y : y = EnterSession(c, p)
      OBVIOUS
    <2>11. \A s \in Signer : y[s].session = IF s \in Chosen(c) THEN nextId ELSE p[s].session
      <3> TAKE s \in Signer
      <3>1. PICK e \in PeerRecord : e = p[s]
        BY <2>7 DEF TableOK
      <3>2. [e EXCEPT !.phase = "IN_SESSION", !.session = nextId].session = nextId
        BY DEF PeerRecord
      <3>3. y[s] = IF s \in Chosen(c)
                     THEN [e EXCEPT !.phase = "IN_SESSION", !.session = nextId] ELSE e
        BY <2>10, <3>1 DEF EnterSession, Chosen
      <3> QED
        BY <3>1, <3>2, <3>3
    <2>12. ASSUME NEW k \in DOMAIN x, x[k].state = "AWAITING", NEW s \in x[k].members
           PROVE  y[s].session = x[k].id
      <3>1. CASE k \in DOMAIN ss
        <4>1. p[s].session = ss[k].id /\ ss[k].id # 0 /\ s \in Signer /\ x[k] = ss[k]
          BY <2>8, <2>9, <2>12, <3>1 DEF Escrow
        <4>2. s \notin Chosen(c)
          BY <2>3, <4>1
        <4> QED
          BY <2>11, <4>1, <4>2
      <3>2. CASE k = Len(ss) + 1
        BY <2>3, <2>5, <2>9, <2>11, <2>12, <3>2
      <3> QED
        BY <2>9, <3>1, <3>2
    <2>13. \A i, j \in DOMAIN x : i # j => x[i].id # x[j].id
      BY <2>5, <2>8, <2>9 DEF Escrow
    <2>14. Escrow(y, x)
      BY <2>12, <2>13 DEF Escrow
    <2> QED
      BY <1>2, <2>4, <2>6, <2>10, <2>14
  <1> QED
    BY <1>1, <1>2, Zenon DEF TryForm
\* A session that awaits shares fails, and only its members leave it.
LEMMA EscrowFail ==
  ASSUME NEW p, NEW ss, NEW nid, SlotsOK(ss, nid), Escrow(p, ss),
         NEW k \in DOMAIN ss, ss[k].state = "AWAITING",
         NEW p2, \A s \in Signer \ ss[k].members : p2[s].session = p[s].session,
         NEW x, x = WithState(ss, k, "FAILED")
  PROVE  Escrow(p2, x)
  <1>1. /\ DOMAIN x = DOMAIN ss
        /\ x[k].state = "FAILED" /\ x[k].id = ss[k].id /\ x[k].members = ss[k].members
        /\ \A j \in DOMAIN ss : j # k => x[j] = ss[j]
    BY StateChanged
  <1>2. ASSUME NEW j \in DOMAIN ss
        PROVE  /\ x[j].id = ss[j].id /\ x[j].members = ss[j].members
               /\ x[j].state = "AWAITING" =>
                    /\ ss[j].state = "AWAITING"
                    /\ \A s \in ss[j].members : p2[s].session = p[s].session
    <2>1. CASE j = k
      BY <1>1, <2>1
    <2>2. CASE j # k
      <3>1. x[j] = ss[j]
        BY <1>1, <2>2
      <3>2. ASSUME ss[j].state = "AWAITING", NEW s \in ss[j].members
            PROVE  p2[s].session = p[s].session
        <4>1. s \in Signer
          BY DEF SlotsOK, SlotOK
        <4>2. s \notin ss[k].members
          BY <2>2, <3>2, EscrowApart
        <4> QED
          BY <4>1, <4>2
      <3> QED
        BY <3>1, <3>2
    <2> QED
      BY <2>1, <2>2
  <1> QED
    BY <1>1, <1>2, EscrowKeeps

LEMMA FailCulpritEscrow ==
  ASSUME NEW sg, NEW up, NEW p, NEW ss, Coherent(sg, up, p, ss, nextId, toS),
         arrived \in [Signer -> Nat], job \in Job, Escrow(p, ss),
         NEW k \in DOMAIN ss, ss[k].state = "AWAITING",
         NEW culprit, FailCulprit(k, culprit, p, ss)
  PROVE  EscrowInv'
  <1>1. PICK I : I = (ss[k].members \ {culprit}) \cap Connected
    OBVIOUS
  <1>2. PICK S : S = {culprit} \cap Connected
    OBVIOUS
  <1>3. PICK p1 : p1 = SetPhase(p, S, "BLACKLISTED")
    OBVIOUS
  <1>4. PICK p2 : p2 = Reset(p1, I, "INIT")
    OBVIOUS
  <1>5. PICK x : x = WithState(ss, k, "FAILED")
    OBVIOUS
  <1>6. PICK q : q = SendTo(toS, I, SignReq(job.tbs))
    OBVIOUS
  <1>7. PICK bl : bl = blacklist \cup {culprit}
    OBVIOUS
  <1>8. PICK st : st = strikes
    OBVIOUS
  <1>9. TryForm(p2, st, bl, x, q)
    BY <1>1, <1>2, <1>3, <1>4, <1>5, <1>6, <1>7, <1>8, Zenon DEF FailCulprit, WithState
  <1>10. Coherent(sg, up, p1, ss, nextId, toS)
    BY <1>3, CoherentPhase
  <1>11. Coherent(sg, up, p2, ss, nextId, toS)
    BY <1>4, <1>10, CoherentReset
  <1>12. Coherent(sg, up, p2, x, nextId, toS)
    <2>1. PICK y : y = [ss EXCEPT ![k].state = "FAILED"]
      OBVIOUS
    <2>2. Coherent(sg, up, p2, y, nextId, toS)
      BY <1>11, <2>1, CoherentState, Zenon
    <2>3. x = y
      BY <1>5, <2>1, Zenon DEF WithState
    <2> QED
      BY <2>2, <2>3
  <1>13. Coherent(sg, up, p2, x, nextId, q)
    <2>1. PICK f : f = SignReq(job.tbs)
      OBVIOUS
    <2>2. f \in DownFrame /\ f.type # "RELAY_COMMIT"
      BY <2>1, RequestTyped
    <2> QED
      BY <1>6, <1>12, <2>1, <2>2, CoherentSend
  <1>14. \A s \in Signer \ ss[k].members : p2[s].session = p[s].session
    <2> TAKE s \in Signer \ ss[k].members
    <2>1. TableOK(p, nextId) /\ TableOK(p1, nextId) /\ nextId \in Nat \ {0}
      BY <1>10 DEF Coherent
    <2>2. p1[s].session = p[s].session /\ s \notin I
      BY <1>1, <1>3, <2>1, TableSession
    <2>3. p2[s] = p1[s]
      BY <1>4, <2>1, <2>2, TableSession
    <2> QED
      BY <2>2, <2>3
  <1>15. Escrow(p2, x)
    <2>1. SlotsOK(ss, nextId)
      BY DEF Coherent
    <2>2. PICK nid : nid = nextId
      OBVIOUS
    <2> QED
      BY <1>5, <1>14, <2>1, <2>2, EscrowFail
  <1>16. Escrow(peer', sessions')
    BY <1>9, <1>13, <1>15, EscrowForm
  <1> QED
    BY <1>16 DEF EscrowInv

\* All shares are in when the count says so: T members, and T shares counted.
LEMMA FullSlot ==
  ASSUME NEW q, NEW nid, SlotOK(q, nid), q.n >= T
  PROVE  Contributors(q) = q.members
  <1>1. q.members \in SUBSET Signer /\ Cardinality(q.members) = T
        /\ q.n = Cardinality(Contributors(q))
    BY DEF SlotOK
  <1>2. IsFiniteSet(q.members)
    <2>1. IsFiniteSet(Signer)
      BY GroupAssumption, FS_Interval DEF Signer
    <2> QED
      BY <1>1, <2>1, FS_Subset
  <1>3. Contributors(q) \in SUBSET q.members
    BY DEF Contributors
  <1>4. /\ Cardinality(Contributors(q)) <= Cardinality(q.members)
        /\ Cardinality(q.members) = Cardinality(Contributors(q)) =>
             q.members = Contributors(q)
    BY <1>2, <1>3, FS_Subset
  <1>5. Cardinality(q.members) \in Nat /\ Cardinality(Contributors(q)) \in Nat
    BY <1>2, <1>3, FS_Subset, FS_CardinalityType
  <1> QED
    BY <1>1, <1>4, <1>5

LEMMA AggregateEscrow ==
  ASSUME CoordMayFail = FALSE,
         NEW sg, NEW up, NEW p, NEW ss, Coherent(sg, up, p, ss, nextId, toS),
         arrived \in [Signer -> Nat], job \in Job, Escrow(p, ss),
         NEW k \in DOMAIN ss, ss[k].state = "AWAITING", ss[k].n >= T,
         Aggregate(k, p, ss)
  PROVE  EscrowInv'
  <1>1. SlotsOK(ss, nextId) /\ SlotOK(ss[k], nextId)
    BY DEF Coherent, SlotsOK
  <1>2. PICK nid : nid = nextId
    OBVIOUS
  <1>3. Contributors(ss[k]) = ss[k].members
    BY <1>1, <1>2, FullSlot
  <1>4. CASE Succeed(k, p, ss)
    <2>1. PICK x : x = WithState(ss, k, "COMPLETE")
      OBVIOUS
    <2>2. peer' = p /\ sessions' = x
      BY <1>4, <2>1, Zenon DEF Succeed, WithState
    <2>3. /\ DOMAIN x = DOMAIN ss
          /\ x[k].state = "COMPLETE" /\ x[k].id = ss[k].id /\ x[k].members = ss[k].members
          /\ \A j \in DOMAIN ss : j # k => x[j] = ss[j]
      BY <1>1, <1>2, <2>1, StateChanged
    <2>4. \A j \in DOMAIN ss :
            /\ x[j].id = ss[j].id /\ x[j].members = ss[j].members
            /\ x[j].state = "AWAITING" => ss[j].state = "AWAITING"
      BY <2>3
    <2>5. Escrow(p, x)
      BY <2>3, <2>4, EscrowKeeps
    <2> QED
      BY <2>2, <2>5 DEF EscrowInv
  <1>5. CASE FailCulprit(k, Culprit(ss[k]), p, ss)
    <2>1. PICK c : c = Culprit(ss[k])
      OBVIOUS
    <2> QED
      BY <1>5, <2>1, FailCulpritEscrow
  <1> QED
    BY <1>3, <1>4, <1>5 DEF Aggregate
LEMMA CommitEscrow ==
  ASSUME NEW s \in Signer, CoordinatorStep(s), SystemInv, EscrowInv,
         NEW m, m = Head(toC[s]), m.type = "COMMIT", OnCommit(s, m)
  PROVE  EscrowInv'
  <1>1. CASE peer' = peer /\ sessions' = sessions
    BY <1>1 DEF EscrowInv
  <1>2. CASE /\ peer[s].phase \in {"INIT", "SUSPECT"}
             /\ TryForm(StoreCommit(s, m), strikes, blacklist, sessions, toS)
    <2>1. PICK u : u = [toC EXCEPT ![s] = Tail(@)]
      OBVIOUS
    <2>2. toC[s] # <<>> /\ Coherent(signer, toC, peer, sessions, nextId, toS)
          /\ arrived \in [Signer -> 0..arrivals] /\ arrivals \in Nat
      BY DEF CoordinatorStep, SystemInv, ListOK
    <2>3. Coherent(signer, u, peer, sessions, nextId, toS)
      BY <2>1, <2>2, CoherentDrop
    <2>4. PICK p : p = StoreCommit(s, m)
      OBVIOUS
    <2>5. Coherent(signer, u, p, sessions, nextId, toS)
      BY <1>2, <2>1, <2>2, <2>3, <2>4, CoherentStoreCommit, Zenon DEF StoreCommit
    <2>6. \A r \in Signer : p[r].session = peer[r].session
      <3>1. TableOK(peer, nextId)
        BY <2>2 DEF Coherent
      <3>2. PICK y : y = peer
        OBVIOUS
      <3>3. y \in [Signer -> PeerRecord]
        BY <3>1, <3>2 DEF TableOK
      <3>4. PICK e \in PeerRecord : e = y[s]
        BY <3>3
      <3>5. PICK c : c = m.commit
        OBVIOUS
      <3>6. PICK g : g = m.sig
        OBVIOUS
      <3>7. PICK z : z = [e EXCEPT !.phase = "COMMITTED", !.commit = c, !.sig = g]
        OBVIOUS
      <3>8. z.session = e.session
        BY <3>7 DEF PeerRecord
      <3>9. p = [y EXCEPT ![s] = z]
        BY <2>4, <3>2, <3>3, <3>4, <3>5, <3>6, <3>7, Zenon DEF StoreCommit
      <3> QED
        BY <3>2, <3>3, <3>4, <3>8, <3>9
    <2>7. PICK ss : ss = sessions
      OBVIOUS
    <2>8. Escrow(p, ss)
      <3>1. \A j \in DOMAIN ss : ss[j].members \in SUBSET Signer
        BY <2>2, <2>7 DEF Coherent, SlotsOK, SlotOK
      <3>2. PICK p0 : p0 = peer
        OBVIOUS
      <3>3. Escrow(p0, ss)
        BY <2>7, <3>2 DEF EscrowInv
      <3> QED
        BY <2>6, <3>1, <3>2, <3>3, EscrowKeeps
    <2>9. PICK st : st = strikes
      OBVIOUS
    <2>10. PICK bl : bl = blacklist
      OBVIOUS
    <2>11. PICK q : q = toS
      OBVIOUS
    <2>12. PICK sg : sg = signer
      OBVIOUS
    <2>13. Coherent(sg, u, p, ss, nextId, q) /\ TryForm(p, st, bl, ss, q)
      BY <1>2, <2>4, <2>5, <2>7, <2>9, <2>10, <2>11, <2>12
    <2>14. Escrow(peer', sessions')
      BY <2>2, <2>8, <2>13, EscrowForm
    <2> QED
      BY <2>14 DEF EscrowInv
  <1> QED
    BY <1>1, <1>2 DEF OnCommit, roastVars

LEMMA ShareEscrow ==
  ASSUME CoordMayFail = FALSE, NEW s \in Signer, CoordinatorStep(s), SystemInv, EscrowInv,
         NEW m, m = Head(toC[s]), m.type = "SIG_SHARE", OnSigShare(s, m)
  PROVE  EscrowInv'
  <1>1. /\ toC[s] # <<>> /\ Coherent(signer, toC, peer, sessions, nextId, toS)
        /\ arrived \in [Signer -> 0..arrivals] /\ arrivals \in Nat
    BY DEF CoordinatorStep, SystemInv, ListOK
  <1>2. ASSUME peer' = peer, sessions' = sessions PROVE EscrowInv'
    BY <1>2 DEF EscrowInv
  <1>3. ASSUME NEW k \in ShareSlot(s), NEW ss, ss = StoreShare(k, s, m),
               NEW p, p = SetPhase(peer, {s}, "SHARED"),
               \/ ss[k].n >= T /\ Aggregate(k, p, ss)
               \/ peer' = p /\ sessions' = ss
        PROVE  EscrowInv'
    <2>1. /\ k \in DOMAIN sessions /\ SlotsOK(ss, nextId) /\ DOMAIN ss = DOMAIN sessions
          /\ \A j \in DOMAIN sessions :
               /\ ss[j].state = sessions[j].state
               /\ ss[j].id = sessions[j].id /\ ss[j].members = sessions[j].members
          /\ sessions[k].state = "AWAITING"
      BY <1>1, <1>3, ShareStored
    <2>2. PICK p0 : p0 = peer
      OBVIOUS
    <2>3. PICK s0 : s0 = sessions
      OBVIOUS
    <2>4. Escrow(p0, s0)
      BY <2>2, <2>3 DEF EscrowInv
    <2>5. \A r \in Signer : p[r].session = p0[r].session
      <3>1. PICK nid : nid = nextId
        OBVIOUS
      <3>2. TableOK(p0, nid)
        BY <1>1, <2>2, <3>1 DEF Coherent
      <3>3. p = SetPhase(p0, {s}, "SHARED")
        BY <1>3, <2>2
      <3> QED
        BY <3>2, <3>3, TableSession
    <2>6. \A j \in DOMAIN s0 : s0[j].members \in SUBSET Signer
      BY <1>1, <2>3 DEF Coherent, SlotsOK, SlotOK
    <2>7. Escrow(p, ss)
      BY <2>1, <2>3, <2>4, <2>5, <2>6, EscrowKeeps
    <2>8. CASE ss[k].n >= T /\ Aggregate(k, p, ss)
      <3>1. PICK u : u = [toC EXCEPT ![s] = Tail(@)]
        OBVIOUS
      <3>2. k \in DOMAIN sessions /\ sessions[k].id = peer[s].session
            /\ s \in sessions[k].members
        BY <1>3 DEF ShareSlot
      <3>3. Coherent(signer, u, peer, sessions, nextId, toS)
        BY <1>1, <3>1, CoherentDrop
      <3>4. Coherent(signer, u, peer, ss, nextId, toS)
        BY <1>1, <1>3, <3>1, <3>2, <3>3, CoherentStoreShare, Zenon DEF StoreShare
      <3>5. Coherent(signer, u, p, ss, nextId, toS)
        BY <1>3, <3>4, CoherentPhase
      <3>6. PICK sg : sg = signer
        OBVIOUS
      <3>7. Coherent(sg, u, p, ss, nextId, toS) /\ ss[k].state = "AWAITING"
            /\ k \in DOMAIN ss /\ arrived \in [Signer -> Nat]
        BY <1>1, <2>1, <3>5, <3>6
      <3>8. job \in Job
        BY DEF SystemInv, CertsOK
      <3> QED
        BY <2>7, <2>8, <3>7, <3>8, AggregateEscrow
    <2>9. CASE peer' = p /\ sessions' = ss
      BY <2>7, <2>9 DEF EscrowInv
    <2> QED
      BY <1>3, <2>8, <2>9
  <1>4. CASE UNCHANGED roastVars
    BY <1>2, <1>4 DEF roastVars
  <1> QED
    BY <1>3, <1>4, Zenon DEF OnSigShare
\* roast_expire_sessions puts only members of the expired session back.
LEMMA ExpireEscrow ==
  ASSUME SystemInv, EscrowInv, NEW k \in DOMAIN sessions, Expire(k)
  PROVE  EscrowInv'
  <1>1. PICK C : C = Contributors(sessions[k]) \cap Connected
    OBVIOUS
  <1>2. PICK S : S = SilentMembers(sessions[k])
    OBVIOUS
  <1>3. PICK st : st = [s \in Signer |-> IF s \in S THEN strikes[s] + 1 ELSE strikes[s]]
    OBVIOUS
  <1>4. PICK O : O = Outcasts(S, st)
    OBVIOUS
  <1>5. PICK bl : bl = blacklist \cup O
    OBVIOUS
  <1>6. PICK p1 : p1 = SetPhase(peer, O, "BLACKLISTED")
    OBVIOUS
  <1>7. PICK p2 : p2 = Reset(p1, C, "INIT")
    OBVIOUS
  <1>8. PICK p3 : p3 = Reset(p2, S \ O, "SUSPECT")
    OBVIOUS
  <1>9. PICK ss : ss = sessions
    OBVIOUS
  <1>10. PICK x : x = WithState(ss, k, "FAILED")
    OBVIOUS
  <1>11. PICK f : f = SignReq(job.tbs)
    OBVIOUS
  <1>12. PICK q : q = SendTo(toS, (C \cup S) \ O, f)
    OBVIOUS
  <1>13. PICK sg : sg = signer
    OBVIOUS
  <1>14. PICK up : up = toC
    OBVIOUS
  <1>15. TryForm(p3, st, bl, x, q) /\ ss[k].state = "AWAITING"
    BY <1>1, <1>2, <1>3, <1>4, <1>5, <1>6, <1>7, <1>8, <1>9, <1>10, <1>11, <1>12, Zenon
       DEF Expire, WithState
  <1>16. /\ Coherent(sg, up, peer, ss, nextId, toS)
         /\ arrived \in [Signer -> Nat] /\ job \in Job
    BY <1>9, <1>13, <1>14 DEF SystemInv, CertsOK, ListOK
  <1>17. Coherent(sg, up, p1, ss, nextId, toS)
    BY <1>6, <1>16, CoherentPhase
  <1>18. Coherent(sg, up, p2, ss, nextId, toS)
    BY <1>7, <1>17, CoherentReset
  <1>19. Coherent(sg, up, p3, ss, nextId, toS)
    BY <1>8, <1>18, CoherentReset
  <1>20. Coherent(sg, up, p3, x, nextId, toS)
    <2>1. PICK y : y = [ss EXCEPT ![k].state = "FAILED"]
      OBVIOUS
    <2>2. k \in DOMAIN ss
      BY <1>9
    <2>3. Coherent(sg, up, p3, y, nextId, toS)
      BY <1>19, <2>1, <2>2, CoherentState, Zenon
    <2>4. x = y
      BY <1>10, <2>1, Zenon DEF WithState
    <2> QED
      BY <2>3, <2>4
  <1>21. Coherent(sg, up, p3, x, nextId, q)
    <2>1. f \in DownFrame /\ f.type # "RELAY_COMMIT"
      BY <1>11, <1>16, RequestTyped
    <2> QED
      BY <1>12, <1>20, <2>1, CoherentSend
  <1>22. PICK p0 : p0 = peer
    OBVIOUS
  <1>23. \A s \in Signer \ ss[k].members : p3[s].session = p0[s].session
    <2> TAKE s \in Signer \ ss[k].members
    <2>1. PICK nid : nid = nextId
      OBVIOUS
    <2>2. TableOK(p0, nid) /\ TableOK(p1, nid) /\ TableOK(p2, nid)
      BY <1>16, <1>17, <1>18, <1>22, <2>1 DEF Coherent
    <2>3. s \notin C /\ s \notin S
      BY <1>1, <1>2, <1>9 DEF Contributors, SilentMembers
    <2>4. p1 = SetPhase(p0, O, "BLACKLISTED")
      BY <1>6, <1>22
    <2>5. p1[s].session = p0[s].session
      BY <2>2, <2>4, TableSession
    <2>6. p2[s] = p1[s]
      BY <1>7, <2>2, <2>3, TableSession
    <2>7. p3[s] = p2[s]
      BY <1>8, <2>2, <2>3, TableSession
    <2> QED
      BY <2>5, <2>6, <2>7
  <1>24. Escrow(p3, x)
    <2>1. PICK nid : nid = nextId
      OBVIOUS
    <2>2. SlotsOK(ss, nid) /\ Escrow(p0, ss) /\ k \in DOMAIN ss
      BY <1>9, <1>16, <1>22, <2>1 DEF Coherent, EscrowInv
    <2> QED
      BY <1>10, <1>15, <1>23, <2>2, EscrowFail
  <1>25. Escrow(peer', sessions')
    BY <1>15, <1>16, <1>21, <1>24, EscrowForm
  <1> QED
    BY <1>25 DEF EscrowInv

LEMMA EscrowInvNext ==
  ASSUME CoordMayFail = FALSE, SystemInv, EscrowInv, [Next]_vars,
         \A s \in Signer : Connect(s) => peer[s].session = 0
  PROVE  EscrowInv'
  <1>1. ASSUME peer' = peer, sessions' = sessions PROVE EscrowInv'
    BY <1>1 DEF EscrowInv
  <1>2. ASSUME NEW s \in Signer, CoordinatorStep(s) PROVE EscrowInv'
    <2>1. PICK m : m = Head(toC[s])
      OBVIOUS
    <2>2. ProcessSignerFrame(s, m)
      BY <1>2, <2>1 DEF CoordinatorStep
    <2>3. CASE m.type = "COMMIT" /\ OnCommit(s, m)
      BY <1>2, <2>1, <2>3, CommitEscrow
    <2>4. CASE m.type = "SIG_SHARE" /\ OnSigShare(s, m)
      BY <1>2, <2>1, <2>4, ShareEscrow
    <2>5. CASE OnClosed(s)
      BY <1>1, <2>5 DEF OnClosed
    <2>6. CASE OnShareLoadFail(s)
      <3>1. PICK p0 : p0 = peer
        OBVIOUS
      <3>2. PICK p : p = SetPhase(p0, {s}, "NO_KEY")
        OBVIOUS
      <3>3. PICK ss : ss = sessions
        OBVIOUS
      <3>4. PICK nid : nid = nextId
        OBVIOUS
      <3>5. TableOK(p0, nid) /\ SlotsOK(ss, nid) /\ Escrow(p0, ss)
        BY <3>1, <3>3, <3>4 DEF SystemInv, Coherent, EscrowInv
      <3>6. \A r \in Signer : p[r].session = p0[r].session
        BY <3>2, <3>5, TableSession
      <3>7. \A j \in DOMAIN ss : ss[j].members \in SUBSET Signer
        BY <3>5 DEF SlotsOK, SlotOK
      <3>8. Escrow(p, ss)
        BY <3>5, <3>6, <3>7, EscrowKeeps
      <3>9. peer' = p /\ sessions' = ss
        BY <2>6, <3>1, <3>2, <3>3 DEF OnShareLoadFail
      <3> QED
        BY <3>8, <3>9 DEF EscrowInv
    <2> QED
      BY <2>2, <2>3, <2>4, <2>5, <2>6, Zenon DEF ProcessSignerFrame
  <1>3. ASSUME NEW s \in Signer, Connect(s) PROVE EscrowInv'
    <2>1. PICK p0 : p0 = peer
      OBVIOUS
    <2>2. PICK p : p = Reset(p0, {s}, "INIT")
      OBVIOUS
    <2>3. PICK ss : ss = sessions
      OBVIOUS
    <2>4. PICK nid : nid = nextId
      OBVIOUS
    <2>5. TableOK(p0, nid) /\ SlotsOK(ss, nid) /\ Escrow(p0, ss) /\ p0[s].session = 0
      BY <1>3, <2>1, <2>3, <2>4 DEF SystemInv, Coherent, EscrowInv
    <2>6. peer' = p /\ sessions' = ss
      BY <1>3, <2>1, <2>2, <2>3 DEF Connect, Register
    <2>7. ASSUME NEW j \in DOMAIN ss, ss[j].state = "AWAITING", NEW r \in ss[j].members
          PROVE  p[r].session = p0[r].session
      <3>1. r \in Signer /\ ss[j].id \in 1..(nid - 1)
        BY <2>5 DEF SlotsOK, SlotOK
      <3>2. ss[j].id # 0 /\ p0[r].session = ss[j].id
        <4>1. nid \in Nat
          BY <2>4 DEF SystemInv, Coherent
        <4> QED
          BY <2>5, <2>7, <3>1, <4>1 DEF Escrow
      <3>3. r # s
        BY <2>5, <3>2
      <3> QED
        BY <2>2, <2>5, <3>1, <3>3, TableSession
    <2>8. Escrow(p, ss)
      BY <2>5, <2>7, EscrowKeeps
    <2> QED
      BY <2>6, <2>8 DEF EscrowInv
  <1>4. CASE Timeout
    BY <1>4, ExpireEscrow DEF Timeout
  <1>5. CASE NextCert
    <2>1. sessions' = <<>>
      BY <1>5, NextCertJob DEF SystemInv, CertsOK
    <2> QED
      BY <2>1 DEF EscrowInv, Escrow
  <1>6. CASE Exit \/ Finished \/ UNCHANGED vars
    BY <1>1, <1>6 DEF Exit, Finished, vars, coordVars, roastVars
  <1>7. ASSUME NEW s \in Signer, SignerStep(s) \/ Crash(s) PROVE EscrowInv'
    BY <1>1, <1>7 DEF SignerStep, Crash, coordVars
  <1> QED
    BY <1>2, <1>3, <1>4, <1>5, <1>6, <1>7, Zenon DEF Next, LoopTop

\* ROAST's escrow: a signer is in at most one session that awaits shares,
\* whether a commit, an expiry or an identifiable abort formed it, and however
\* many sessions are open.  The core of the coordinator runs (a session whose
\* shares it cannot check frees the signers of all the others), and no signer
\* comes back while the table has it in a session.
THEOREM SystemDisjointSessions ==
  ASSUME CoordMayFail = FALSE
  PROVE  Spec /\ NoMemberReturns => []DisjointSessions
  <1>1. Init => EscrowInv
    BY DEF Init, EscrowInv, Escrow
  <1>2. /\ SystemInv /\ EscrowInv /\ [Next]_vars
        /\ [\A s \in Signer : Connect(s) => peer[s].session = 0]_vars
        => EscrowInv'
    <2> SUFFICES ASSUME SystemInv, EscrowInv, [Next]_vars,
                        [\A s \in Signer : Connect(s) => peer[s].session = 0]_vars
                 PROVE  EscrowInv'
      OBVIOUS
    <2>1. CASE UNCHANGED vars
      BY <2>1 DEF vars, coordVars, EscrowInv
    <2>2. CASE \A s \in Signer : Connect(s) => peer[s].session = 0
      BY <2>2, EscrowInvNext
    <2> QED
      BY <2>1, <2>2
  <1>3. EscrowInv => DisjointSessions
    <2> SUFFICES ASSUME EscrowInv, NEW i \in DOMAIN sessions, NEW j \in DOMAIN sessions,
                        i # j, Live(i), Live(j)
                 PROVE  sessions[i].members \cap sessions[j].members = {}
      BY DEF DisjointSessions
    <2> QED
      BY DEF EscrowInv, Escrow, Live
  <1> QED
    BY <1>1, <1>2, <1>3, SystemInvariant, PTL DEF Spec, NoMemberReturns

LEMMA StepArrivals ==
  ASSUME [Next]_vars
  PROVE  arrivals' = arrivals \/ arrivals' = arrivals + 1
  <1>1. ASSUME NEW s \in Signer, CoordinatorStep(s) PROVE arrivals' = arrivals
    <2>1. PICK m : ProcessSignerFrame(s, m)
      BY <1>1 DEF CoordinatorStep
    <2>2. CASE OnSigShare(s, m)
      BY <2>2 DEF OnSigShare, listVars
    <2>3. CASE OnCommit(s, m)
      BY <2>3 DEF OnCommit, listVars
    <2> QED
      BY <2>1, <2>2, <2>3 DEF ProcessSignerFrame, OnShareLoadFail, OnClosed, listVars
  <1>2. ASSUME NEW s \in Signer, Connect(s) PROVE arrivals' = arrivals + 1
    BY <1>2 DEF Connect, Register
  <1>3. ASSUME NEW s \in Signer, SignerStep(s) \/ Crash(s) PROVE arrivals' = arrivals
    BY <1>3 DEF SignerStep, Crash, coordVars
  <1>4. CASE Timeout \/ LoopTop
    BY <1>4 DEF Timeout, LoopTop, Expire, NextCert, Exit, listVars
  <1>5. CASE Finished \/ UNCHANGED vars
    BY <1>5 DEF Finished, vars, coordVars
  <1> QED
    BY <1>1, <1>2, <1>3, <1>4, <1>5, Zenon DEF Next

\* In particular while only the signers of Roster register, each of them once.
THEOREM SystemDisjointSessionsOnce ==
  ASSUME CoordMayFail = FALSE, MaxArrivals <= Len(Roster)
  PROVE  Spec => []DisjointSessions
  <1> DEFINE All == arrivals \in Nat /\ arrivals >= Len(Roster)
  <1>1. Len(Roster) \in Nat /\ MaxArrivals \in Nat
    BY SystemAssumption
  <1>2. Init => All
    BY <1>1 DEF Init
  <1>3. All /\ [Next]_vars => All'
    <2> SUFFICES ASSUME All, [Next]_vars PROVE All'
      OBVIOUS
    <2>1. arrivals' = arrivals \/ arrivals' = arrivals + 1
      BY StepArrivals
    <2> QED
      BY <1>1, <2>1
  <1>4. All => [\A s \in Signer : Connect(s) => peer[s].session = 0]_vars
    BY <1>1 DEF Connect
  <1> QED
    BY <1>2, <1>3, <1>4, SystemDisjointSessions, PTL DEF Spec, NoMemberReturns

-----------------------------------------------------------------------------
(* Nonces: what a signer draws, sends a share of and gives up for good.    *)

\* The draws of a signer with globals r that become x: they go on, and nonces
\* in memory were there before or are of a new draw.
Later(r, x) ==
  /\ r.drawn <= x.drawn
  /\ x.nonces # NoCommit => r.nonces # NoCommit \/ r.drawn < x.drawn

\* Signer s moves on, and the shares it sends are made with the nonces it had.
Moves(s) ==
  /\ \A d \in Signer \ {s} : signer'[d] = signer[d] /\ toC'[d] = toC[d]
  /\ Later(signer[s], signer'[s])
  /\ \A f \in Shares(Range(toC'[s])) :
       \/ f \in Shares(Range(toC[s]))
       \/ signer[s].nonces # NoCommit /\ f.share.nonce = signer[s].nonces

LEMMA LaterOn ==
  ASSUME NEW r \in SignerRecord, NEW x \in SignerRecord, NEW y \in SignerRecord,
         Later(r, x), Later(x, y)
  PROVE  Later(r, y)
  <1>1. r.drawn \in Nat /\ x.drawn \in Nat /\ y.drawn \in Nat
    BY DEF SignerRecord
  <1> QED
    BY <1>1 DEF Later

LEMMA LaterSame ==
  ASSUME NEW r \in SignerRecord, NEW x, x.drawn = r.drawn,
         x.nonces = r.nonces \/ x.nonces = NoCommit
  PROVE  Later(r, x)
  <1>1. r.drawn \in Nat
    BY DEF SignerRecord
  <1> QED
    BY <1>1 DEF Later

LEMMA DrawLater ==
  ASSUME NEW s \in Signer, NEW r \in SignerRecord, NEW ok
  PROVE  /\ TryDraw(s, r, ok) \in SignerRecord /\ Later(r, TryDraw(s, r, ok))
         /\ Precompute(s, r, ok) \in SignerRecord /\ Later(r, Precompute(s, r, ok))
  <1>1. r.drawn \in Nat
    BY DEF SignerRecord
  <1>2. PICK d : d = TryDraw(s, r, ok)
    OBVIOUS
  <1>3. d \in SignerRecord /\ Later(r, d)
    <2>1. CASE d = DrawNonces(s, r)
      BY <1>1, <2>1, DrawFacts DEF Later
    <2>2. CASE d = ZeroNonces(r)
      BY <2>2, ZeroFacts, LaterSame
    <2> QED
      BY <1>2, <2>1, <2>2 DEF TryDraw
  <1>4. PICK b \in BOOLEAN : b = (r.key /\ ok)
    <2>1. (r.key /\ ok) \in BOOLEAN
      OBVIOUS
    <2> QED
      BY <2>1
  <1>5. PICK x : x = [d EXCEPT !.pre = b]
    OBVIOUS
  <1>6. x \in SignerRecord /\ x.drawn = d.drawn /\ x.nonces = d.nonces
    BY <1>3, <1>5 DEF SignerRecord
  <1>7. Later(r, x)
    BY <1>3, <1>6 DEF Later
  <1>8. Precompute(s, r, ok) = x \/ Precompute(s, r, ok) = r
    BY <1>2, <1>4, <1>5 DEF Precompute
  <1>9. Later(r, r)
    BY LaterSame
  <1> QED
    BY <1>2, <1>3, <1>6, <1>7, <1>8, <1>9

\* A handler leaves the globals r and the precomputation runs.
LEMMA PassLater ==
  ASSUME signer \in [Signer -> SignerRecord], NEW s \in Signer,
         NEW r \in SignerRecord, Later(signer[s], r), EndOfPass(s, r)
  PROVE  /\ Later(signer[s], signer'[s])
         /\ \A d \in Signer \ {s} : signer'[d] = signer[d]
  <1>1. PICK ok \in CoreOutcome : signer' = [signer EXCEPT ![s] = Precompute(s, r, ok)]
    BY DEF EndOfPass
  <1>2. PICK x : x = Precompute(s, r, ok)
    OBVIOUS
  <1>3. signer' = [signer EXCEPT ![s] = x]
    BY <1>1, <1>2
  <1>4. x \in SignerRecord /\ Later(r, x)
    BY <1>2, DrawLater
  <1>5. PICK y \in SignerRecord : y = signer[s]
    OBVIOUS
  <1>6. Later(y, x)
    BY <1>4, <1>5, LaterOn
  <1> QED
    BY <1>3, <1>5, <1>6

LEMMA ReturnMoves ==
  ASSUME signer \in [Signer -> SignerRecord], NEW s \in Signer,
         NEW r \in SignerRecord, Later(signer[s], r), Return(s, r)
  PROVE  Moves(s)
  <1>1. EndOfPass(s, r) /\ toC' = toC
    BY DEF Return
  <1>2. /\ Later(signer[s], signer'[s])
        /\ \A d \in Signer \ {s} : signer'[d] = signer[d]
    BY <1>1, PassLater
  <1> QED
    BY <1>1, <1>2 DEF Moves

LEMMA ReplyMoves ==
  ASSUME signer \in [Signer -> SignerRecord], toC \in [Signer -> Seq(UpFrame)],
         NEW s \in Signer, NEW r \in SignerRecord, Later(signer[s], r),
         NEW f, Reply(s, r, f),
         f.type = "SIG_SHARE" =>
           signer[s].nonces # NoCommit /\ f.share.nonce = signer[s].nonces
  PROVE  Moves(s)
  <1>1. EndOfPass(s, r) /\ toC' = [toC EXCEPT ![s] = Append(@, f)]
    BY DEF Reply
  <1>2. /\ Later(signer[s], signer'[s])
        /\ \A d \in Signer \ {s} : signer'[d] = signer[d]
    BY <1>1, PassLater
  <1>3. PICK q : q = toC[s]
    OBVIOUS
  <1>4. Range(Append(q, f)) = Range(q) \cup {f}
    <2>1. PICK S : S = UpFrame \cup {f}
      OBVIOUS
    <2>2. UpFrame \subseteq S /\ f \in S /\ q \in Seq(UpFrame)
      BY <1>3, <2>1
    <2>3. q \in Seq(S)
      BY <2>2
    <2> QED
      BY <2>2, <2>3, FramesOf
  <1>5. PICK u : u = Append(q, f)
    OBVIOUS
  <1>6. toC' = [toC EXCEPT ![s] = u]
    BY <1>1, <1>3, <1>5
  <1>7. toC'[s] = u /\ \A d \in Signer \ {s} : toC'[d] = toC[d]
    BY <1>6
  <1>8. ASSUME NEW g \in Shares(Range(toC'[s]))
        PROVE  \/ g \in Shares(Range(toC[s]))
               \/ signer[s].nonces # NoCommit /\ g.share.nonce = signer[s].nonces
    <2>1. g \in Range(q) \cup {f} /\ g.type = "SIG_SHARE"
      BY <1>4, <1>5, <1>7, <1>8 DEF Shares
    <2>2. CASE g \in Range(q)
      BY <1>3, <2>1, <2>2 DEF Shares
    <2>3. CASE g = f
      BY <2>1, <2>3
    <2> QED
      BY <2>1, <2>2, <2>3
  <1> QED
    BY <1>2, <1>7, <1>8 DEF Moves

LEMMA DieMoves ==
  ASSUME signer \in [Signer -> SignerRecord], toC \in [Signer -> Seq(UpFrame)],
         NEW s \in Signer, Die(s)
  PROVE  Moves(s)
  <1>1. PICK g \in SignerRecord : g = signer[s]
    OBVIOUS
  <1>2. g.drawn \in Nat
    BY DEF SignerRecord
  <1>3. PICK r : r = [FreshSigner(g.drawn) EXCEPT !.up = FALSE]
    OBVIOUS
  <1>4. r.nonces = NoCommit /\ r.drawn = g.drawn
    BY <1>2, <1>3, FreshFacts
  <1>5. Later(g, r)
    BY <1>4, LaterSame
  <1>6. signer' = [signer EXCEPT ![s] = r]
    BY <1>1, <1>3 DEF Die
  <1>7. PICK q \in Seq(UpFrame) : q = toC[s]
    OBVIOUS
  <1>8. PICK k \in 0..Len(q) : toC' = [toC EXCEPT ![s] = Append(SubSeq(q, 1, k), Closed)]
    BY <1>7 DEF Die
  <1>9. PICK v \in Seq(UpFrame) : v = SubSeq(q, 1, k)
    BY FramesPrefix
  <1>10. PICK u : u = Append(v, Closed)
    OBVIOUS
  <1>11. Range(u) \subseteq Range(q) \cup {Closed}
    <2>1. Range(v) \in SUBSET Range(q)
      BY <1>9, FramesPrefix
    <2>2. Closed \in UpFrame
      BY DEF UpFrame
    <2> QED
      BY <1>10, <2>1, <2>2, FramesOf
  <1>12. Shares(Range(u)) \subseteq Shares(Range(q))
    BY <1>11 DEF Shares, Closed
  <1>13. toC'[s] = u /\ \A d \in Signer \ {s} : toC'[d] = toC[d]
    BY <1>8, <1>9, <1>10
  <1>14. signer'[s] = r /\ \A d \in Signer \ {s} : signer'[d] = signer[d]
    BY <1>6
  <1> QED
    BY <1>1, <1>5, <1>7, <1>12, <1>13, <1>14 DEF Moves

LEMMA OfferMoves ==
  ASSUME signer \in [Signer -> SignerRecord], toC \in [Signer -> Seq(UpFrame)],
         NEW s \in Signer, NEW r \in SignerRecord, Later(signer[s], r), Offer(s, r)
  PROVE  Moves(s)
  <1>1. PICK f : f = Commit(r.commit, Attestation(s, r.tbs, r.commit))
    OBVIOUS
  <1>2. f.type = "COMMIT"
    BY <1>1 DEF Commit
  <1>3. PICK y : y = [r EXCEPT !.pre = FALSE]
    OBVIOUS
  <1>4. y \in SignerRecord /\ y.nonces = r.nonces /\ y.drawn = r.drawn
    BY <1>3 DEF SignerRecord
  <1>5. Later(signer[s], y)
    BY <1>4 DEF Later
  <1>6. Reply(s, y, f)
    BY <1>1, <1>3, Zenon DEF Offer
  <1> QED
    BY <1>2, <1>4, <1>5, <1>6, ReplyMoves

LEMMA SignReqMoves ==
  ASSUME signer \in [Signer -> SignerRecord], toC \in [Signer -> Seq(UpFrame)],
         NEW s \in Signer, NEW m, m.tbs \in AskedTbs, OnSignReq(s, m)
  PROVE  Moves(s)
  <1>1. PICK g \in SignerRecord : g = signer[s]
    OBVIOUS
  <1>2. PICK r : r = [g EXCEPT !.key = TRUE, !.tbs = m.tbs, !.state = "SIGNING"]
    OBVIOUS
  <1>3. r \in SignerRecord /\ r.nonces = g.nonces /\ r.drawn = g.drawn
    <2>1. m.tbs \in Tbs /\ "SIGNING" \in SignerState
      BY DEF AskedTbs, Tbs, SignerState
    <2> QED
      BY <1>2, <2>1 DEF SignerRecord
  <1>4. Later(g, g) /\ Later(g, r)
    BY <1>3, LaterSame
  <1>5. CASE Die(s)
    BY <1>5, DieMoves
  <1>6. CASE Return(s, g)
    BY <1>1, <1>4, <1>6, ReturnMoves
  <1>7. CASE Reply(s, g, ShareLoadFail)
    <2>1. PICK f : f = ShareLoadFail
      OBVIOUS
    <2>2. f.type # "SIG_SHARE" /\ Reply(s, g, f)
      BY <1>7, <2>1 DEF ShareLoadFail
    <2> QED
      BY <1>1, <1>4, <2>2, ReplyMoves
  <1>8. CASE Offer(s, r)
    BY <1>1, <1>3, <1>4, <1>8, OfferMoves
  <1>9. ASSUME NEW ok, Offer(s, TryDraw(s, r, ok)) \/ Return(s, TryDraw(s, r, ok))
        PROVE  Moves(s)
    <2>1. PICK d \in SignerRecord : d = TryDraw(s, r, ok)
      BY <1>3, DrawLater
    <2>2. Later(r, d)
      BY <1>3, <2>1, DrawLater
    <2>3. Later(g, d)
      BY <1>3, <1>4, <2>2, LaterOn
    <2>4. CASE Offer(s, d)
      BY <1>1, <2>3, <2>4, OfferMoves
    <2>5. CASE Return(s, d)
      BY <1>1, <2>3, <2>5, ReturnMoves
    <2> QED
      BY <1>9, <2>1, <2>4, <2>5
  <1>10. \/ Die(s) \/ Return(s, g) \/ Reply(s, g, ShareLoadFail)
         \/ Offer(s, r)
         \/ \E ok \in CoreOutcome :
              Offer(s, TryDraw(s, r, ok)) \/ Return(s, TryDraw(s, r, ok))
    BY <1>1, <1>2, Zenon DEF OnSignReq
  <1> QED
    BY <1>5, <1>6, <1>7, <1>8, <1>9, <1>10

LEMMA SignerMoves ==
  ASSUME Coherent(signer, toC, peer, sessions, nextId, toS), NEW s \in Signer,
         SignerStep(s) \/ Crash(s)
  PROVE  Moves(s)
  <1>1. signer \in [Signer -> SignerRecord] /\ toC \in [Signer -> Seq(UpFrame)]
    BY DEF Coherent, SignersOK
  <1>2. PICK g \in SignerRecord : g = signer[s]
    BY <1>1
  <1>3. g.tbs \in AskedTbs \cup {NoTbs} /\ Later(g, g)
    BY <1>2, LaterSame DEF Coherent, SignersOK
  <1>4. CASE Crash(s)
    BY <1>1, <1>4, DieMoves DEF Crash
  <1>5. CASE SignerStep(s)
    <2>1. PICK m : m = Head(toS[s])
      OBVIOUS
    <2>2. toS[s] # <<>> /\ ProcessCoordFrame(s, m)
      BY <1>5, <2>1 DEF SignerStep
    <2>3. m \in DownFrame
      <3>1. toS[s] \in Seq(DownFrame)
        BY DEF Coherent
      <3> QED
        BY <2>1, <2>2, <3>1
    <2>4. /\ m.type = "SIGN_REQ" => m.tbs \in AskedTbs
          /\ m.type \in {"HELLO_ACK", "SIGN_REQ", "RELAY_COMMIT", "CERT_OUTPUT"}
      BY <2>3, DownFrameFacts
    <2>5. CASE OnHelloAck(s, m)
      <3>1. PICK a \in BOOLEAN : a = (m.mode = "S")
        OBVIOUS
      <3>2. PICK b \in BOOLEAN : b = (g.key \/ (m.mode \in {"S", "R"} /\ s \in KeyHolder))
        OBVIOUS
      <3>3. PICK x : x = [g EXCEPT !.signMode = a, !.key = b]
        OBVIOUS
      <3>4. x \in SignerRecord /\ x.nonces = g.nonces /\ x.drawn = g.drawn
        BY <3>3 DEF SignerRecord
      <3>5. Later(g, x)
        BY <3>4, LaterSame
      <3>6. Reply(s, x, ShareLoadFail) \/ Return(s, x)
        BY <1>2, <2>5, <3>1, <3>2, <3>3, Zenon DEF OnHelloAck
      <3>7. CASE Return(s, x)
        BY <1>1, <1>2, <3>4, <3>5, <3>7, ReturnMoves
      <3>8. CASE Reply(s, x, ShareLoadFail)
        <4>1. PICK f : f = ShareLoadFail
          OBVIOUS
        <4>2. f.type # "SIG_SHARE" /\ Reply(s, x, f)
          BY <3>8, <4>1 DEF ShareLoadFail
        <4> QED
          BY <1>1, <1>2, <3>4, <3>5, <4>2, ReplyMoves
      <3> QED
        BY <3>6, <3>7, <3>8
    <2>6. CASE m.type = "SIGN_REQ" /\ OnSignReq(s, m)
      BY <1>1, <2>4, <2>6, SignReqMoves
    <2>7. CASE m.type = "RELAY_COMMIT" /\ OnRelayCommit(s, m)
      <3>1. CASE Return(s, g)
        BY <1>1, <1>2, <1>3, <3>1, ReturnMoves
      <3>2. PICK f : f = SigShare(Share(s, g.nonces, SigningPackage(m.bundle),
                                        Fault[s] # "bad_share"))
        OBVIOUS
      <3>3. PICK x : x = [ZeroNonces(g) EXCEPT !.state = "COMPLETE"]
        OBVIOUS
      <3>4. CASE CanSign(s, g, SigningPackage(m.bundle)) /\ Reply(s, x, f)
        <4>1. g.nonces # NoCommit
          BY <3>4 DEF CanSign
        <4>2. f.share.nonce = g.nonces
          BY <3>2 DEF SigShare, Share
        <4>3. PICK z \in SignerRecord : z = ZeroNonces(g)
          BY ZeroFacts
        <4>4. z.nonces = NoCommit /\ z.drawn = g.drawn
          BY <4>3, ZeroFacts
        <4>5. x \in SignerRecord /\ x.nonces = NoCommit /\ x.drawn = g.drawn
          <5>1. x = [z EXCEPT !.state = "COMPLETE"] /\ "COMPLETE" \in SignerState
            BY <3>3, <4>3 DEF SignerState
          <5> QED
            BY <4>4, <5>1 DEF SignerRecord
        <4>6. Later(g, x)
          BY <4>5, LaterSame
        <4> QED
          BY <1>1, <1>2, <3>4, <4>1, <4>2, <4>5, <4>6, ReplyMoves
      <3> QED
        BY <1>2, <2>7, <3>1, <3>2, <3>3, <3>4, Zenon DEF OnRelayCommit
    <2>8. CASE OnCertOutput(s)
      BY <1>1, <1>2, <1>3, <2>8, ReturnMoves DEF OnCertOutput
    <2> QED
      BY <2>2, <2>4, <2>5, <2>6, <2>7, <2>8 DEF ProcessCoordFrame
  <1> QED
    BY <1>4, <1>5

-----------------------------------------------------------------------------
(* Nonces: no two certificates share one.                                  *)

\* A package lists one commitment of each owner.
OneEach(pkg) == \A e, f \in pkg.commits : e[1] = f[1] => e = f

\* The nonces of the shares filed in a slot that awaits more.
Gathered(q) ==
  IF q.state = "AWAITING"
    THEN {<<s, q.shares[s].nonce>> : s \in Contributors(q)} ELSE {}

\* The nonce e is used up: its owner, with globals r and frames U under way, has
\* gone on to a later draw or holds none, and no share made with e is coming.
Gone(e, r, U) ==
  /\ e[2][2] <= r.drawn
  /\ r.nonces # NoCommit => e[2][2] < r.drawn
  /\ \A f \in Shares(U) : f.share.nonce # e[2]

AllGone(E, sg, up) ==
  \A e \in E : e \in Signer \X Commitment /\ Gone(e, sg[e[1]], Range(up[e[1]]))

\* What is filed and what is in certificates cs is used up, and no nonce is
\* filed twice, certified twice, or filed and certified.
Fresh(sg, up, ss, cs) ==
  /\ \A k \in DOMAIN ss : OneEach(ss[k].pkg) /\ AllGone(Gathered(ss[k]), sg, up)
  /\ \A i \in DOMAIN cs : AllGone(cs[i].pkg.commits, sg, up)
  /\ \A j, k \in DOMAIN ss : j # k => Gathered(ss[j]) \cap Gathered(ss[k]) = {}
  /\ \A k \in DOMAIN ss : \A i \in DOMAIN cs : Gathered(ss[k]) \cap cs[i].pkg.commits = {}
  /\ \A i, j \in DOMAIN cs : i # j => cs[i].pkg.commits \cap cs[j].pkg.commits = {}

FreshInv == Fresh(signer, toC, sessions, certs)

\* What a signer has used up stays so.
LEMMA FreshSigners ==
  ASSUME NEW sg, NEW up, NEW ss, NEW cs, Fresh(sg, up, ss, cs), NEW x, NEW v,
         \A e \in Signer \X Commitment :
           Gone(e, sg[e[1]], Range(up[e[1]])) => Gone(e, x[e[1]], Range(v[e[1]]))
  PROVE  Fresh(x, v, ss, cs)
  <1>1. \A E : AllGone(E, sg, up) => AllGone(E, x, v)
    BY DEF AllGone
  <1> QED
    BY <1>1 DEF Fresh

LEMMA GoneStays ==
  ASSUME NEW s \in Signer, NEW r \in SignerRecord, NEW x \in SignerRecord, Later(r, x),
         NoncesLast(s, r), NEW U, NEW V,
         \A f \in Shares(V) : \/ f \in Shares(U)
                              \/ r.nonces # NoCommit /\ f.share.nonce = r.nonces,
         NEW e \in Signer \X Commitment, Gone(e, r, U)
  PROVE  Gone(e, x, V)
  <1>1. r.drawn \in Nat /\ x.drawn \in Nat
    BY DEF SignerRecord
  <1>2. e[2][2] \in Nat
    BY DEF Commitment
  <1>3. e[2][2] <= x.drawn /\ (x.nonces # NoCommit => e[2][2] < x.drawn)
    BY <1>1, <1>2 DEF Gone, Later
  <1>4. ASSUME NEW f \in Shares(V) PROVE f.share.nonce # e[2]
    <2>1. CASE f \in Shares(U)
      BY <2>1 DEF Gone
    <2>2. CASE r.nonces # NoCommit /\ f.share.nonce = r.nonces
      <3>1. r.nonces = <<s, r.drawn>> /\ e[2][2] < r.drawn
        BY <2>2 DEF Gone, NoncesLast
      <3>2. r.nonces[2] = r.drawn
        BY <3>1
      <3> QED
        BY <1>1, <1>2, <2>2, <3>1, <3>2
    <2> QED
      BY <1>4, <2>1, <2>2
  <1> QED
    BY <1>3, <1>4 DEF Gone

LEMMA MovesFresh ==
  ASSUME SystemInv, FreshInv, NEW s \in Signer, SignerStep(s) \/ Crash(s),
         signer' \in [Signer -> SignerRecord]
  PROVE  FreshInv'
  <1>1. Coherent(signer, toC, peer, sessions, nextId, toS)
    BY DEF SystemInv
  <1>2. Moves(s)
    BY <1>1, SignerMoves
  <1>3. sessions' = sessions /\ certs' = certs
    BY DEF SignerStep, Crash, coordVars
  <1>4. ASSUME NEW e \in Signer \X Commitment, Gone(e, signer[e[1]], Range(toC[e[1]]))
        PROVE  Gone(e, signer'[e[1]], Range(toC'[e[1]]))
    <2>1. CASE e[1] # s
      <3>1. signer'[e[1]] = signer[e[1]] /\ toC'[e[1]] = toC[e[1]]
        BY <1>2, <2>1 DEF Moves
      <3> QED
        BY <1>4, <3>1
    <2>2. CASE e[1] = s
      <3>1. PICK r \in SignerRecord : r = signer[s]
        BY <1>1, CoherentFacts
      <3>2. PICK x \in SignerRecord : x = signer'[s]
        OBVIOUS
      <3>3. NoncesLast(s, r)
        BY <1>1, <3>1, CoherentFacts DEF Link
      <3>4. PICK U : U = Range(toC[s])
        OBVIOUS
      <3>5. PICK V : V = Range(toC'[s])
        OBVIOUS
      <3>6. Later(r, x) /\ Gone(e, r, U)
            /\ \A f \in Shares(V) : \/ f \in Shares(U)
                                    \/ r.nonces # NoCommit /\ f.share.nonce = r.nonces
        BY <1>2, <1>4, <2>2, <3>1, <3>2, <3>4, <3>5 DEF Moves
      <3>7. Gone(e, x, V)
        BY <3>3, <3>6, GoneStays
      <3> QED
        BY <2>2, <3>2, <3>5, <3>7
    <2> QED
      BY <2>1, <2>2
  <1>5. PICK sg : sg = signer
    OBVIOUS
  <1>6. PICK up : up = toC
    OBVIOUS
  <1>7. PICK x : x = signer'
    OBVIOUS
  <1>8. PICK v : v = toC'
    OBVIOUS
  <1>9. PICK ss : ss = sessions
    OBVIOUS
  <1>10. PICK cs : cs = certs
    OBVIOUS
  <1>11. Fresh(sg, up, ss, cs)
    BY <1>5, <1>6, <1>9, <1>10 DEF FreshInv
  <1>12. \A e \in Signer \X Commitment :
           Gone(e, sg[e[1]], Range(up[e[1]])) => Gone(e, x[e[1]], Range(v[e[1]]))
    BY <1>4, <1>5, <1>6, <1>7, <1>8
  <1>13. Fresh(x, v, ss, cs)
    BY <1>11, <1>12, FreshSigners
  <1> QED
    BY <1>3, <1>7, <1>8, <1>9, <1>10, <1>13 DEF FreshInv

\* A process that starts holds no nonces, and frames lost or taken off the
\* stream bring no share.
LEMMA GoneWithout ==
  ASSUME NEW e \in Signer \X Commitment, NEW r, NEW x, x.drawn = r.drawn,
         x.nonces = r.nonces \/ x.nonces = NoCommit,
         NEW U, NEW V \in SUBSET U, Gone(e, r, U)
  PROVE  Gone(e, x, V)
  BY DEF Gone, Shares

LEMMA ConnectFresh ==
  ASSUME SystemInv, FreshInv, NEW s \in Signer, Connect(s)
  PROVE  FreshInv'
  <1>1. signer \in [Signer -> SignerRecord] /\ toC \in [Signer -> Seq(UpFrame)]
    BY DEF SystemInv, Coherent, SignersOK
  <1>2. sessions' = sessions /\ certs' = certs
    BY DEF Connect, Register, certVars
  <1>3. PICK r \in SignerRecord : r = signer[s]
    BY <1>1
  <1>4. PICK y : y = FreshSigner(r.drawn)
    OBVIOUS
  <1>5. y.nonces = NoCommit /\ y.drawn = r.drawn
    <2>1. r.drawn \in Nat
      BY DEF SignerRecord
    <2> QED
      BY <1>4, <2>1, FreshFacts
  <1>6. PICK x : x = [signer EXCEPT ![s] = y]
    OBVIOUS
  <1>7. PICK v : v = [toC EXCEPT ![s] = <<>>]
    OBVIOUS
  <1>8. signer' = x /\ toC' = v
    BY <1>3, <1>4, <1>6, <1>7 DEF Connect
  <1>9. ASSUME NEW e \in Signer \X Commitment, Gone(e, signer[e[1]], Range(toC[e[1]]))
        PROVE  Gone(e, x[e[1]], Range(v[e[1]]))
    <2>1. CASE e[1] # s
      <3>1. x[e[1]] = signer[e[1]] /\ v[e[1]] = toC[e[1]]
        BY <1>1, <1>6, <1>7, <2>1
      <3> QED
        BY <1>9, <3>1
    <2>2. CASE e[1] = s
      <3>1. x[s] = y /\ v[s] = <<>> /\ Range(<<>>) = {}
        BY <1>1, <1>6, <1>7 DEF Range
      <3>2. PICK U : U = Range(toC[s])
        OBVIOUS
      <3>3. Gone(e, r, U)
        BY <1>3, <1>9, <2>2, <3>2
      <3>4. Gone(e, y, {})
        BY <1>5, <3>3, GoneWithout
      <3> QED
        BY <2>2, <3>1, <3>4
    <2> QED
      BY <2>1, <2>2
  <1>10. PICK sg : sg = signer
    OBVIOUS
  <1>11. PICK up : up = toC
    OBVIOUS
  <1>12. PICK ss : ss = sessions
    OBVIOUS
  <1>13. PICK cs : cs = certs
    OBVIOUS
  <1>14. Fresh(sg, up, ss, cs)
    BY <1>10, <1>11, <1>12, <1>13 DEF FreshInv
  <1>15. Fresh(x, v, ss, cs)
    BY <1>9, <1>10, <1>11, <1>14, FreshSigners
  <1> QED
    BY <1>2, <1>8, <1>12, <1>13, <1>15 DEF FreshInv

\* A frame of s is taken off the stream.
LEMMA DropFresh ==
  ASSUME NEW sg, NEW up \in [Signer -> Seq(UpFrame)], NEW ss, NEW cs,
         Fresh(sg, up, ss, cs), NEW s \in Signer, up[s] # <<>>,
         NEW v, v = [up EXCEPT ![s] = Tail(@)]
  PROVE  Fresh(sg, v, ss, cs)
  <1>1. ASSUME NEW e \in Signer \X Commitment, Gone(e, sg[e[1]], Range(up[e[1]]))
        PROVE  Gone(e, sg[e[1]], Range(v[e[1]]))
    <2>1. CASE e[1] # s
      <3>1. v[e[1]] = up[e[1]]
        BY <2>1
      <3> QED
        BY <1>1, <3>1
    <2>2. CASE e[1] = s
      <3>1. PICK q \in Seq(UpFrame) : q = up[s]
        OBVIOUS
      <3>2. Closed \in UpFrame /\ q # <<>>
        BY <3>1 DEF UpFrame
      <3>3. Range(Tail(q)) \in SUBSET Range(q)
        BY <3>2, FramesOf
      <3>4. PICK U : U = Range(q)
        OBVIOUS
      <3>5. PICK V : V = Range(Tail(q))
        OBVIOUS
      <3>6. PICK r : r = sg[s]
        OBVIOUS
      <3>7. Gone(e, r, V)
        <4>1. Gone(e, r, U) /\ V \in SUBSET U
          BY <1>1, <2>2, <3>1, <3>3, <3>4, <3>5, <3>6
        <4> QED
          BY <4>1, GoneWithout
      <3>8. v[s] = Tail(q)
        BY <3>1
      <3> QED
        BY <2>2, <3>5, <3>6, <3>7, <3>8
    <2> QED
      BY <2>1, <2>2
  <1> QED
    BY <1>1, FreshSigners

\* Slots x in which nothing is filed that was not filed in ss.
Shrinks(ss, x) ==
  \A k \in DOMAIN x :
    /\ OneEach(x[k].pkg)
    /\ Gathered(x[k]) = {} \/ (k \in DOMAIN ss /\ Gathered(x[k]) \subseteq Gathered(ss[k]))

LEMMA ShrinksFresh ==
  ASSUME NEW sg, NEW up, NEW ss, NEW cs, Fresh(sg, up, ss, cs), NEW x, Shrinks(ss, x)
  PROVE  Fresh(sg, up, x, cs)
  <1>1. \A k \in DOMAIN x : OneEach(x[k].pkg) /\ AllGone(Gathered(x[k]), sg, up)
    BY DEF Fresh, Shrinks, AllGone
  <1>2. \A j, k \in DOMAIN x : j # k => Gathered(x[j]) \cap Gathered(x[k]) = {}
    <2> SUFFICES ASSUME NEW j \in DOMAIN x, NEW k \in DOMAIN x, j # k,
                        NEW e \in Gathered(x[j]), e \in Gathered(x[k])
                 PROVE  FALSE
      OBVIOUS
    <2>1. j \in DOMAIN ss /\ e \in Gathered(ss[j]) /\ k \in DOMAIN ss /\ e \in Gathered(ss[k])
      BY DEF Shrinks
    <2> QED
      BY <2>1 DEF Fresh
  <1>3. \A k \in DOMAIN x : \A i \in DOMAIN cs : Gathered(x[k]) \cap cs[i].pkg.commits = {}
    <2> SUFFICES ASSUME NEW k \in DOMAIN x, NEW i \in DOMAIN cs,
                        NEW e \in Gathered(x[k]), e \in cs[i].pkg.commits
                 PROVE  FALSE
      OBVIOUS
    <2>1. k \in DOMAIN ss /\ e \in Gathered(ss[k])
      BY DEF Shrinks
    <2> QED
      BY <2>1 DEF Fresh
  <1> QED
    BY <1>1, <1>2, <1>3 DEF Fresh

\* Nothing is filed in a new session.
LEMMA NewSessionEmpty ==
  ASSUME NEW c, NEW p, NEW z, z = NewSession(c, p)
  PROVE  OneEach(z.pkg) /\ Gathered(z) = {}
  <1>1. PICK b : b = SessionBundle(c, p)
    OBVIOUS
  <1>2. z.pkg = SigningPackage(b) /\ z.state = "AWAITING"
        /\ z.shares = [s \in z.members |-> NoShare]
    BY <1>1 DEF NewSession
  <1>3. PICK en : en = [i \in 1..T |-> Entry(c[i], p[c[i]].commit, p[c[i]].sig)]
    OBVIOUS
  <1>4. b.entries = en
    BY <1>1, <1>3 DEF SessionBundle, Bundle
  <1>5. \A i \in 1..T : en[i].id = c[i] /\ en[i].commit = p[c[i]].commit
    BY <1>3 DEF Entry
  <1>6. DOMAIN en = 1..T
    BY <1>3
  <1>7. SigningPackage(b).commits = {<<en[i].id, en[i].commit>> : i \in 1..T}
    BY <1>4, <1>6 DEF SigningPackage
  <1>8. \A e \in SigningPackage(b).commits : e[2] = p[e[1]].commit /\ e = <<e[1], e[2]>>
    BY <1>5, <1>7
  <1>9. OneEach(z.pkg)
    <2> SUFFICES ASSUME NEW e \in z.pkg.commits, NEW f \in z.pkg.commits, e[1] = f[1]
                 PROVE  e = f
      BY DEF OneEach
    <2>1. /\ e[2] = p[e[1]].commit /\ e = <<e[1], e[2]>>
          /\ f[2] = p[f[1]].commit /\ f = <<f[1], f[2]>>
      BY <1>2, <1>8
    <2> QED
      BY <2>1
  <1>10. Contributors(z) = {}
    BY <1>2 DEF Contributors
  <1> QED
    BY <1>9, <1>10 DEF Gathered

LEMMA FormShrinks ==
  ASSUME NEW p, NEW st, NEW bl, NEW ss, NEW q, ss \in Seq(Range(ss)),
         \A k \in DOMAIN ss : OneEach(ss[k].pkg), TryForm(p, st, bl, ss, q)
  PROVE  Shrinks(ss, sessions')
  <1>1. CASE sessions' = ss
    BY <1>1 DEF Shrinks
  <1>2. ASSUME NEW c, sessions' = Append(ss, NewSession(c, p))
        PROVE  Shrinks(ss, sessions')
    <2>1. PICK z : z = NewSession(c, p)
      OBVIOUS
    <2>2. OneEach(z.pkg) /\ Gathered(z) = {}
      BY <2>1, NewSessionEmpty
    <2>3. PICK x : x = Append(ss, z)
      OBVIOUS
    <2>4. /\ Len(ss) \in Nat
          /\ DOMAIN x = DOMAIN ss \cup {Len(ss) + 1} /\ x[Len(ss) + 1] = z
          /\ \A j \in DOMAIN ss : x[j] = ss[j]
      BY <2>3, SlotAppended
    <2>5. Shrinks(ss, x)
      BY <2>2, <2>4 DEF Shrinks
    <2> QED
      BY <1>2, <2>1, <2>3, <2>5
  <1> QED
    BY <1>1, <1>2, Zenon DEF TryForm

\* Table x is ss but for the slot k, which is closed.
Closes(ss, x, k) ==
  /\ Shrinks(ss, x) /\ x \in Seq(Range(x)) /\ Gathered(x[k]) = {}
  /\ DOMAIN x = DOMAIN ss /\ \A j \in DOMAIN ss : j # k => x[j] = ss[j]
  /\ \A j \in DOMAIN x : OneEach(x[j].pkg)

\* A session that is closed has nothing filed.
LEMMA CloseShrinks ==
  ASSUME NEW ss, NEW nid, SlotsOK(ss, nid), NEW k \in DOMAIN ss,
         \A j \in DOMAIN ss : OneEach(ss[j].pkg), NEW v, v # "AWAITING",
         NEW x, x = WithState(ss, k, v)
  PROVE  Closes(ss, x, k)
  <1>1. /\ DOMAIN x = DOMAIN ss /\ x \in Seq(Range(x))
        /\ x[k].state = v /\ x[k].pkg = ss[k].pkg
        /\ \A j \in DOMAIN ss : j # k => x[j] = ss[j]
    BY StateChanged
  <1>2. Gathered(x[k]) = {}
    BY <1>1 DEF Gathered
  <1>3. \A j \in DOMAIN x : OneEach(x[j].pkg)
    BY <1>1
  <1> QED
    BY <1>1, <1>2, <1>3 DEF Closes, Shrinks

\* A nonce that is used up, and neither filed nor certified, is filed.
LEMMA FileFresh ==
  ASSUME NEW sg, NEW up, NEW ss, NEW cs, Fresh(sg, up, ss, cs), NEW k \in DOMAIN ss,
         NEW x, DOMAIN x = DOMAIN ss, \A j \in DOMAIN ss : j # k => x[j] = ss[j],
         x[k].pkg = ss[k].pkg, NEW e \in Signer \X Commitment,
         Gathered(x[k]) \subseteq Gathered(ss[k]) \cup {e},
         Gone(e, sg[e[1]], Range(up[e[1]])),
         \A j \in DOMAIN ss : e \notin Gathered(ss[j]),
         \A i \in DOMAIN cs : e \notin cs[i].pkg.commits
  PROVE  Fresh(sg, up, x, cs)
  <1>1. \A j \in DOMAIN ss : Gathered(x[j]) \subseteq Gathered(ss[j]) \cup {e}
    OBVIOUS
  <1>2. ASSUME NEW j \in DOMAIN x PROVE OneEach(x[j].pkg) /\ AllGone(Gathered(x[j]), sg, up)
    <2>1. OneEach(ss[j].pkg) /\ AllGone(Gathered(ss[j]), sg, up)
      BY DEF Fresh
    <2>2. x[j].pkg = ss[j].pkg
      OBVIOUS
    <2> QED
      BY <1>1, <2>1, <2>2 DEF AllGone
  <1>3. \A i, j \in DOMAIN x : i # j => Gathered(x[i]) \cap Gathered(x[j]) = {}
    <2> SUFFICES ASSUME NEW i \in DOMAIN x, NEW j \in DOMAIN x, i # j,
                        NEW h \in Gathered(x[i]), h \in Gathered(x[j])
                 PROVE  FALSE
      OBVIOUS
    <2>1. CASE i # k
      <3>1. h \in Gathered(ss[i]) /\ h # e
        BY <2>1
      <3>2. h \in Gathered(ss[j])
        BY <1>1, <3>1
      <3> QED
        BY <3>1, <3>2 DEF Fresh
    <2>2. CASE j # k
      <3>1. h \in Gathered(ss[j]) /\ h # e
        BY <2>2
      <3>2. h \in Gathered(ss[i])
        BY <1>1, <3>1
      <3> QED
        BY <3>1, <3>2 DEF Fresh
    <2> QED
      BY <2>1, <2>2
  <1>4. \A j \in DOMAIN x : \A i \in DOMAIN cs : Gathered(x[j]) \cap cs[i].pkg.commits = {}
    BY <1>1 DEF Fresh
  <1> QED
    BY <1>2, <1>3, <1>4 DEF Fresh

\* What is filed in slot k is certified and the slot closed.
LEMMA CertifyFresh ==
  ASSUME NEW sg, NEW up, NEW ss, NEW cs, NEW S, cs \in Seq(S), Fresh(sg, up, ss, cs),
         NEW k \in DOMAIN ss, ss[k].pkg.commits \subseteq Gathered(ss[k]),
         NEW x, DOMAIN x = DOMAIN ss, \A j \in DOMAIN ss : j # k => x[j] = ss[j],
         Gathered(x[k]) = {}, OneEach(x[k].pkg),
         NEW c, c.pkg = ss[k].pkg, NEW cy, cy = Append(cs, c)
  PROVE  Fresh(sg, up, x, cy)
  <1>1. PICK l \in Nat : l = Len(cs)
    OBVIOUS
  <1>2. /\ DOMAIN cs = 1..l /\ DOMAIN cy = 1..(l + 1) /\ cy[l + 1] = c
        /\ \A i \in 1..l : cy[i] = cs[i]
    <2>1. PICK R : R = S \cup {c}
      OBVIOUS
    <2>2. cs \in Seq(R) /\ c \in R
      <3>1. S \subseteq R /\ c \in R
        BY <2>1
      <3> QED
        BY <3>1
    <2> QED
      BY <1>1, <2>2
  <1>3. \A i \in DOMAIN cy : i = l + 1 \/ (i \in DOMAIN cs /\ cy[i] = cs[i])
    BY <1>2
  <1>4. Shrinks(ss, x)
    <2>1. \A j \in DOMAIN ss : OneEach(ss[j].pkg)
      BY DEF Fresh
    <2> QED
      BY <2>1 DEF Shrinks
  <1>5. Fresh(sg, up, x, cs)
    BY <1>4, ShrinksFresh
  <1>6. ASSUME NEW i \in DOMAIN cy PROVE AllGone(cy[i].pkg.commits, sg, up)
    <2>1. CASE i = l + 1
      <3>1. AllGone(Gathered(ss[k]), sg, up)
        BY DEF Fresh
      <3>2. cy[i].pkg.commits \subseteq Gathered(ss[k])
        BY <1>2, <2>1
      <3> QED
        BY <3>1, <3>2 DEF AllGone
    <2>2. CASE i \in DOMAIN cs /\ cy[i] = cs[i]
      BY <1>5, <2>2 DEF Fresh
    <2> QED
      BY <1>3, <2>1, <2>2
  <1>7. ASSUME NEW j \in DOMAIN x, NEW i \in DOMAIN cy
        PROVE  Gathered(x[j]) \cap cy[i].pkg.commits = {}
    <2>1. CASE i = l + 1
      <3>1. cy[i].pkg.commits \subseteq Gathered(ss[k])
        BY <1>2, <2>1
      <3>2. Gathered(x[j]) = {} \/ (j # k /\ Gathered(x[j]) = Gathered(ss[j]))
        OBVIOUS
      <3>3. j # k => Gathered(ss[j]) \cap Gathered(ss[k]) = {}
        BY DEF Fresh
      <3> QED
        BY <3>1, <3>2, <3>3
    <2>2. CASE i \in DOMAIN cs /\ cy[i] = cs[i]
      BY <1>5, <2>2 DEF Fresh
    <2> QED
      BY <1>3, <2>1, <2>2
  <1>8. ASSUME NEW i \in DOMAIN cy, NEW j \in DOMAIN cy, i # j
        PROVE  cy[i].pkg.commits \cap cy[j].pkg.commits = {}
    <2>1. ASSUME NEW h \in DOMAIN cs
          PROVE  cy[l + 1].pkg.commits \cap cs[h].pkg.commits = {}
      <3>1. Gathered(ss[k]) \cap cs[h].pkg.commits = {}
        BY DEF Fresh
      <3> QED
        BY <1>2, <3>1
    <2>2. CASE i = l + 1
      BY <1>3, <1>8, <2>1, <2>2
    <2>3. CASE j = l + 1
      BY <1>3, <1>8, <2>1, <2>3
    <2>4. CASE i \in DOMAIN cs /\ j \in DOMAIN cs /\ cy[i] = cs[i] /\ cy[j] = cs[j]
      BY <1>8, <2>4 DEF Fresh
    <2> QED
      BY <1>3, <2>2, <2>3, <2>4
  <1>9. \A j \in DOMAIN x : OneEach(x[j].pkg) /\ AllGone(Gathered(x[j]), sg, up)
    BY <1>5 DEF Fresh
  <1>10. \A i, j \in DOMAIN x : i # j => Gathered(x[i]) \cap Gathered(x[j]) = {}
    BY <1>5 DEF Fresh
  <1> QED
    BY <1>6, <1>7, <1>8, <1>9, <1>10 DEF Fresh

\* When all shares of a slot verify, they use every commitment of its package.
LEMMA GoodSlotFiled ==
  ASSUME NEW q, NEW nid, SlotOK(q, nid), OneEach(q.pkg), q.state = "AWAITING",
         Contributors(q) = q.members, \A s \in q.members : ValidShare(q, s)
  PROVE  q.pkg.commits \subseteq Gathered(q)
  <1> SUFFICES ASSUME NEW e \in q.pkg.commits PROVE e \in Gathered(q)
    OBVIOUS
  <1>1. PICK s : s = e[1]
    OBVIOUS
  <1>2. s \in q.members
    BY <1>1 DEF SlotOK, Owners
  <1>3. PICK h : h = <<s, q.shares[s].nonce>>
    OBVIOUS
  <1>4. h \in q.pkg.commits /\ h[1] = s
    BY <1>2, <1>3 DEF ValidShare
  <1>5. e = h
    BY <1>1, <1>4 DEF OneEach
  <1> QED
    BY <1>2, <1>3, <1>5 DEF Gathered

LEMMA AggregateFresh ==
  ASSUME NEW sg, NEW up, NEW k, NEW p, NEW ss, NEW nid, SlotsOK(ss, nid),
         k \in DOMAIN ss, ss[k].state = "AWAITING", certs \in Seq(Certificate),
         Fresh(sg, up, ss, certs), Aggregate(k, p, ss)
  PROVE  Fresh(sg, up, sessions', certs')
  <1>1. PICK cs : cs = certs
    OBVIOUS
  <1>2. \A j \in DOMAIN ss : OneEach(ss[j].pkg)
    BY DEF Fresh
  <1>3. Fresh(sg, up, ss, cs)
    BY <1>1
  <1>4. ASSUME NEW x, Shrinks(ss, x) PROVE Fresh(sg, up, x, cs)
    BY <1>3, <1>4, ShrinksFresh
  <1>5. CASE /\ Contributors(ss[k]) = ss[k].members
             /\ \A s \in ss[k].members : ValidShare(ss[k], s)
             /\ Succeed(k, p, ss)
    <2>1. PICK x : x = WithState(ss, k, "COMPLETE")
      OBVIOUS
    <2>2. sessions' = x
      BY <1>5, <2>1, Zenon DEF Succeed, WithState
    <2>3. "COMPLETE" # "AWAITING"
      OBVIOUS
    <2>4. /\ Shrinks(ss, x) /\ x \in Seq(Range(x)) /\ Gathered(x[k]) = {}
          /\ DOMAIN x = DOMAIN ss /\ \A j \in DOMAIN ss : j # k => x[j] = ss[j]
          /\ \A j \in DOMAIN x : OneEach(x[j].pkg)
      <3>1. Closes(ss, x, k)
        BY <1>2, <2>1, <2>3, CloseShrinks
      <3> QED
        BY <3>1 DEF Closes
    <2>5. PICK pkg : pkg = ss[k].pkg
      OBVIOUS
    <2>6. Mint(pkg) \/ MintFails(pkg)
      BY <1>5, <2>5 DEF Succeed
    <2>7. CASE Mint(pkg)
      <3>1. PICK c : c = [file |-> job.serial, serial |-> job.template, pkg |-> pkg]
        OBVIOUS
      <3>2. certs' = Append(cs, c) /\ c.pkg = ss[k].pkg
        BY <1>1, <2>5, <2>7, <3>1 DEF Mint
      <3>3. ss[k].pkg.commits \subseteq Gathered(ss[k])
        <4>1. PICK q : q = ss[k]
          OBVIOUS
        <4>2. SlotOK(q, nid) /\ OneEach(q.pkg) /\ q.state = "AWAITING"
              /\ Contributors(q) = q.members /\ \A s \in q.members : ValidShare(q, s)
          BY <1>2, <1>5, <4>1 DEF SlotsOK
        <4> QED
          BY <4>1, <4>2, GoodSlotFiled
      <3>4. PICK cy : cy = Append(cs, c)
        OBVIOUS
      <3>5. PICK S : S = Certificate
        OBVIOUS
      <3>6. cs \in Seq(S) /\ OneEach(x[k].pkg)
        BY <1>1, <2>4, <3>5
      <3>7. Fresh(sg, up, x, cy)
        BY <1>3, <2>4, <3>2, <3>3, <3>4, <3>6, CertifyFresh
      <3> QED
        BY <2>2, <3>2, <3>4, <3>7
    <2>8. CASE MintFails(pkg)
      <3>1. certs' = cs
        BY <1>1, <2>8 DEF MintFails
      <3>2. Fresh(sg, up, x, cs)
        BY <1>4, <2>4
      <3> QED
        BY <2>2, <3>1, <3>2
    <2> QED
      BY <2>6, <2>7, <2>8
  <1>6. PICK x : x = WithState(ss, k, "FAILED")
    OBVIOUS
  <1>7. /\ Shrinks(ss, x) /\ x \in Seq(Range(x))
        /\ \A j \in DOMAIN x : OneEach(x[j].pkg)
    <2>1. "FAILED" # "AWAITING"
      OBVIOUS
    <2>2. Closes(ss, x, k)
      BY <1>2, <1>6, <2>1, CloseShrinks
    <2> QED
      BY <2>2 DEF Closes
  <1>8. Fresh(sg, up, x, cs)
    BY <1>4, <1>7
  <1>9. PICK y : y = sessions'
    OBVIOUS
  <1>10. CASE FailCulprit(k, Culprit(ss[k]), p, ss)
    <2>1. PICK p2, st, bl, q : TryForm(p2, st, bl, x, q)
      BY <1>6, <1>10, Zenon DEF FailCulprit, WithState
    <2>2. Shrinks(x, y)
      BY <1>7, <1>9, <2>1, FormShrinks
    <2>3. Fresh(sg, up, y, cs)
      BY <1>8, <2>2, ShrinksFresh
    <2>4. certs' = cs
      BY <1>1, <1>10 DEF FailCulprit
    <2> QED
      BY <1>9, <2>3, <2>4
  <1>11. CASE FailAll(k, p, ss)
    <2>1. sessions' = x
      BY <1>6, <1>11, Zenon DEF FailAll, WithState
    <2>2. certs' = cs
      BY <1>1, <1>11 DEF FailAll
    <2> QED
      BY <1>8, <2>1, <2>2
  <1>12. CASE sessions' = ss /\ certs' = certs
    BY <1>12
  <1> QED
    BY <1>5, <1>10, <1>11, <1>12, Zenon DEF Aggregate, certVars

\* The share at the head of the stream is filed under its nonce.
LEMMA ShareFresh ==
  ASSUME SystemInv, FreshInv, NEW s \in Signer, toC[s] # <<>>,
         NEW m, m = Head(toC[s]), m.type = "SIG_SHARE", NEW u,
         u = [toC EXCEPT ![s] = Tail(@)], NEW k \in ShareSlot(s),
         NEW x, x = StoreShare(k, s, m)
  PROVE  /\ Fresh(signer, u, x, certs) /\ SlotsOK(x, nextId)
         /\ k \in DOMAIN x /\ x[k].state = "AWAITING"
  <1>1. Coherent(signer, toC, peer, sessions, nextId, toS)
    BY DEF SystemInv
  <1>2. /\ k \in DOMAIN sessions /\ SlotsOK(x, nextId) /\ DOMAIN x = DOMAIN sessions
        /\ x[k].state = "AWAITING" /\ sessions[k].state = "AWAITING"
    BY <1>1, ShareStored
  <1>3. SlotsOK(sessions, nextId)
    BY <1>1 DEF Coherent
  <1>4. PICK M : M = sessions[k].members
    OBVIOUS
  <1>5. PICK z \in [id : 1..(nextId - 1), state : {"AWAITING", "COMPLETE", "FAILED"},
                    members : SUBSET Signer, pkg : Package,
                    shares : [M -> SentShare \cup {NoShare}], n : Nat] : z = sessions[k]
    BY <1>2, <1>3, <1>4 DEF SlotsOK, SlotOK
  <1>6. PICK g : g = [z.shares EXCEPT ![s] = m.share]
    OBVIOUS
  <1>7. PICK w : w = [z EXCEPT !.shares = g, !.n = z.n + 1]
    OBVIOUS
  <1>8. w.pkg = z.pkg /\ w.state = z.state /\ w.members = z.members /\ w.shares = g
    BY <1>7
  <1>9. PICK ss : ss = sessions
    OBVIOUS
  <1>10. x[k] = w /\ \A j \in DOMAIN ss : j # k => x[j] = ss[j]
    <2>1. x = [ss EXCEPT ![k] = w]
      BY <1>5, <1>6, <1>7, <1>9, Zenon DEF StoreShare
    <2>2. ss \in Seq(Range(ss)) /\ k \in DOMAIN ss
      BY <1>2, <1>3, <1>9 DEF SlotsOK
    <2> DEFINE y == [ss EXCEPT ![k] = w]
    <2>3. /\ y[k] = w /\ \A j \in DOMAIN ss : j # k => y[j] = ss[j]
      BY <2>2, SlotUpdate
    <2> QED
      BY <2>1, <2>3, Zenon
  <1>11. PICK c : c = m.share.nonce
    OBVIOUS
  <1>12. PICK e : e = <<s, c>>
    OBVIOUS
  <1>13. Gathered(w) \subseteq Gathered(z) \cup {e}
    <2> SUFFICES ASSUME NEW r \in Contributors(w)
                 PROVE  <<r, w.shares[r].nonce>> \in Gathered(z) \cup {e}
      BY DEF Gathered
    <2>1. r \in z.members /\ g[r] # NoShare
      BY <1>8 DEF Contributors
    <2>2. M = z.members
      BY <1>4, <1>5
    <2>3. CASE r = s
      <3>1. g[r] = m.share
        BY <1>5, <1>6, <2>1, <2>2, <2>3
      <3> QED
        BY <1>8, <1>11, <1>12, <2>3, <3>1
    <2>4. CASE r # s
      <3>1. g[r] = z.shares[r]
        BY <1>5, <1>6, <2>1, <2>2, <2>4
      <3>2. r \in Contributors(z)
        BY <2>1, <3>1 DEF Contributors
      <3>3. z.state = "AWAITING"
        BY <1>2, <1>5
      <3> QED
        BY <1>8, <3>1, <3>2, <3>3 DEF Gathered
    <2> QED
      BY <2>3, <2>4
  <1>14. PICK q \in Seq(UpFrame) : q = toC[s]
    BY <1>1, CoherentFacts
  <1>15. m \in UpFrame /\ m \in Shares(Range(q)) /\ Shares(Range(Tail(q))) = {}
    <2>1. Closed \in UpFrame /\ q # <<>> /\ m = Head(q)
      BY <1>14 DEF UpFrame
    <2>2. m \in Range(q) /\ Range(q) \in SUBSET UpFrame
      BY <2>1, FramesOf
    <2>3. Ordered(q)
      BY <1>1, <1>14, CoherentFacts
    <2>4. Shares(Range(Tail(q))) = {}
      BY <2>1, <2>3, OrderedTail
    <2> QED
      BY <2>2, <2>4 DEF Shares
  <1>16. c \in Commitment
    BY <1>11, <1>15, UpFrameFacts
  <1>17. e \in Signer \X Commitment /\ e[1] = s /\ e[2] = c
    BY <1>12, <1>16
  <1>18. PICK sg : sg = signer
    OBVIOUS
  <1>19. PICK cs : cs = certs
    OBVIOUS
  <1>20. u \in [Signer -> Seq(UpFrame)] /\ u[s] = Tail(q)
    <2>1. toC \in [Signer -> Seq(UpFrame)]
      BY <1>1 DEF Coherent
    <2>2. Tail(q) \in Seq(UpFrame)
      BY <1>14
    <2> QED
      BY <1>14, <2>1, <2>2
  <1>21. Gone(e, sg[s], Range(u[s]))
    <2>1. PICK r : r = sg[s]
      OBVIOUS
    <2>2. SentOwn(s, r, Range(q))
      BY <1>1, <1>14, <1>18, <2>1, CoherentFacts DEF Link
    <2>3. c[2] <= r.drawn /\ (r.nonces # NoCommit => c[2] < r.drawn)
      BY <1>11, <1>15, <2>2 DEF SentOwn
    <2>4. Shares(Range(u[s])) = {}
      BY <1>15, <1>20
    <2> QED
      BY <1>17, <2>1, <2>3, <2>4 DEF Gone
  <1>22. PICK up \in [Signer -> Seq(UpFrame)] : up = toC
    BY <1>1 DEF Coherent
  <1>23. Fresh(sg, up, ss, cs)
    BY <1>9, <1>18, <1>19, <1>22 DEF FreshInv
  <1>24. Fresh(sg, u, ss, cs)
    <2>1. up[s] # <<>> /\ u = [up EXCEPT ![s] = Tail(@)]
      BY <1>22
    <2> QED
      BY <1>23, <2>1, DropFresh
  <1>25. ASSUME NEW E, AllGone(E, sg, up) PROVE e \notin E
    <2>1. ASSUME e \in E PROVE FALSE
      <3>1. Gone(e, sg[s], Range(q))
        BY <1>14, <1>17, <1>22, <1>25, <2>1 DEF AllGone
      <3> QED
        BY <1>11, <1>15, <1>17, <3>1 DEF Gone
    <2> QED
      BY <2>1
  <1>26. \A j \in DOMAIN ss : e \notin Gathered(ss[j])
    BY <1>23, <1>25 DEF Fresh
  <1>27. \A i \in DOMAIN cs : e \notin cs[i].pkg.commits
    BY <1>23, <1>25 DEF Fresh
  <1>28. /\ k \in DOMAIN ss /\ DOMAIN x = DOMAIN ss /\ x[k].pkg = ss[k].pkg
         /\ Gathered(x[k]) \subseteq Gathered(ss[k]) \cup {e}
    BY <1>2, <1>5, <1>8, <1>9, <1>10, <1>13
  <1>29. Gone(e, sg[e[1]], Range(u[e[1]]))
    BY <1>17, <1>21
  <1>30. Fresh(sg, u, x, cs)
    <2>1. PICK v : v = u
      OBVIOUS
    <2>2. PICK y : y = x
      OBVIOUS
    <2>3. Fresh(sg, v, ss, cs) /\ Gone(e, sg[e[1]], Range(v[e[1]]))
      BY <1>24, <1>29, <2>1
    <2>4. /\ k \in DOMAIN ss /\ DOMAIN y = DOMAIN ss
          /\ \A j \in DOMAIN ss : j # k => y[j] = ss[j]
          /\ y[k].pkg = ss[k].pkg /\ Gathered(y[k]) \subseteq Gathered(ss[k]) \cup {e}
      BY <1>10, <1>28, <2>2
    <2>5. Fresh(sg, v, y, cs)
      BY <1>17, <1>26, <1>27, <2>3, <2>4, FileFresh
    <2> QED
      BY <2>1, <2>2, <2>5
  <1> QED
    BY <1>2, <1>18, <1>19, <1>30

LEMMA CoordinatorFresh ==
  ASSUME SystemInv, FreshInv, NEW s \in Signer, CoordinatorStep(s)
  PROVE  FreshInv'
  <1>1. /\ Coherent(signer, toC, peer, sessions, nextId, toS)
        /\ SlotsOK(sessions, nextId) /\ sessions \in Seq(Range(sessions))
        /\ certs \in Seq(Certificate)
    BY DEF SystemInv, Coherent, SlotsOK, CertsOK
  <1>2. PICK m : m = Head(toC[s])
    OBVIOUS
  <1>3. PICK u : u = [toC EXCEPT ![s] = Tail(@)]
    OBVIOUS
  <1>4. /\ toC[s] # <<>> /\ ProcessSignerFrame(s, m) /\ toC' = u /\ signer' = signer
    BY <1>2, <1>3 DEF CoordinatorStep
  <1>5. PICK sg : sg = signer
    OBVIOUS
  <1>6. PICK ss : ss = sessions
    OBVIOUS
  <1>7. PICK cs : cs = certs
    OBVIOUS
  <1>8. Fresh(sg, u, ss, cs)
    <2>1. PICK up \in [Signer -> Seq(UpFrame)] : up = toC
      BY <1>1 DEF Coherent
    <2>2. Fresh(sg, up, ss, cs) /\ up[s] # <<>> /\ u = [up EXCEPT ![s] = Tail(@)]
      BY <1>3, <1>4, <1>5, <1>6, <1>7, <2>1 DEF FreshInv
    <2> QED
      BY <2>2, DropFresh
  <1>9. ASSUME NEW y, Fresh(sg, u, y, cs), sessions' = y, certs' = certs PROVE FreshInv'
    BY <1>4, <1>5, <1>7, <1>9 DEF FreshInv
  <1>10. CASE sessions' = sessions /\ certs' = certs
    BY <1>6, <1>8, <1>9, <1>10
  <1>11. CASE m.type = "SIG_SHARE" /\ OnSigShare(s, m)
    <2>1. ASSUME NEW k \in ShareSlot(s), NEW x, x = StoreShare(k, s, m), NEW p,
                 \/ Aggregate(k, p, x)
                 \/ sessions' = x /\ certs' = certs
          PROVE  FreshInv'
      <3>1. /\ Fresh(signer, u, x, certs) /\ SlotsOK(x, nextId)
            /\ k \in DOMAIN x /\ x[k].state = "AWAITING"
        BY <1>2, <1>3, <1>4, <1>11, <2>1, ShareFresh
      <3>2. CASE Aggregate(k, p, x)
        <4>1. PICK nid : nid = nextId
          OBVIOUS
        <4>2. Fresh(sg, u, x, certs) /\ SlotsOK(x, nid)
          BY <1>5, <3>1, <4>1
        <4>3. Fresh(sg, u, sessions', certs')
          BY <1>1, <3>1, <3>2, <4>2, AggregateFresh
        <4> QED
          BY <1>4, <1>5, <4>3 DEF FreshInv
      <3>3. CASE sessions' = x /\ certs' = certs
        BY <1>5, <1>7, <1>9, <3>1, <3>3
      <3> QED
        BY <2>1, <3>2, <3>3
    <2> QED
      BY <1>10, <1>11, <2>1, Zenon DEF OnSigShare, roastVars, certVars
  <1>12. CASE OnCommit(s, m)
    <2>1. certs' = certs
      BY <1>12 DEF OnCommit, certVars
    <2>2. CASE TryForm(StoreCommit(s, m), strikes, blacklist, sessions, toS)
      <3>1. PICK p : p = StoreCommit(s, m)
        OBVIOUS
      <3>2. PICK st : st = strikes
        OBVIOUS
      <3>3. PICK bl : bl = blacklist
        OBVIOUS
      <3>4. PICK q : q = toS
        OBVIOUS
      <3>5. TryForm(p, st, bl, ss, q) /\ ss \in Seq(Range(ss))
        BY <1>1, <1>6, <2>2, <3>1, <3>2, <3>3, <3>4
      <3>6. \A k \in DOMAIN ss : OneEach(ss[k].pkg)
        BY <1>8 DEF Fresh
      <3>7. PICK y : y = sessions'
        OBVIOUS
      <3>8. Shrinks(ss, y)
        BY <3>5, <3>6, <3>7, FormShrinks
      <3>9. Fresh(sg, u, y, cs)
        BY <1>8, <3>8, ShrinksFresh
      <3> QED
        BY <1>9, <2>1, <3>7, <3>9
    <2>3. CASE UNCHANGED roastVars
      BY <1>10, <2>1, <2>3 DEF roastVars
    <2> QED
      BY <1>12, <2>2, <2>3, Zenon DEF OnCommit
  <1>13. CASE OnShareLoadFail(s) \/ OnClosed(s)
    BY <1>10, <1>13 DEF OnShareLoadFail, OnClosed, certVars
  <1> QED
    BY <1>4, <1>11, <1>12, <1>13, Zenon DEF ProcessSignerFrame

LEMMA TimeoutFresh ==
  ASSUME SystemInv, FreshInv, Timeout
  PROVE  FreshInv'
  <1>1. PICK k \in DOMAIN sessions : Expire(k)
    BY DEF Timeout
  <1>2. PICK ss : ss = sessions
    OBVIOUS
  <1>3. PICK x : x = WithState(ss, k, "FAILED")
    OBVIOUS
  <1>4. PICK p, st, bl, q : TryForm(p, st, bl, x, q)
    BY <1>1, <1>2, <1>3, Zenon DEF Expire, WithState
  <1>5. PICK nid : nid = nextId
    OBVIOUS
  <1>6. SlotsOK(ss, nid) /\ k \in DOMAIN ss
    BY <1>2, <1>5 DEF SystemInv, Coherent
  <1>7. PICK sg : sg = signer
    OBVIOUS
  <1>8. PICK up : up = toC
    OBVIOUS
  <1>9. PICK cs : cs = certs
    OBVIOUS
  <1>10. Fresh(sg, up, ss, cs)
    BY <1>2, <1>7, <1>8, <1>9 DEF FreshInv
  <1>11. \A j \in DOMAIN ss : OneEach(ss[j].pkg)
    BY <1>10 DEF Fresh
  <1>12. /\ Shrinks(ss, x) /\ x \in Seq(Range(x))
         /\ \A j \in DOMAIN x : OneEach(x[j].pkg)
    <2>1. "FAILED" # "AWAITING"
      OBVIOUS
    <2>2. Closes(ss, x, k)
      BY <1>3, <1>6, <1>11, <2>1, CloseShrinks
    <2> QED
      BY <2>2 DEF Closes
  <1>13. PICK y : y = sessions'
    OBVIOUS
  <1>14. Shrinks(x, y)
    BY <1>4, <1>12, <1>13, FormShrinks
  <1>15. Fresh(sg, up, x, cs)
    BY <1>10, <1>12, ShrinksFresh
  <1>16. Fresh(sg, up, y, cs)
    BY <1>14, <1>15, ShrinksFresh
  <1>17. signer' = sg /\ toC' = up /\ certs' = cs
    BY <1>1, <1>7, <1>8, <1>9 DEF Timeout, Expire, certVars
  <1> QED
    BY <1>13, <1>16, <1>17 DEF FreshInv

LEMMA FreshInvNext ==
  ASSUME SystemInv, FreshInv, [Next]_vars, SystemInv'
  PROVE  FreshInv'
  <1>1. ASSUME signer' = signer, toC' = toC, certs' = certs,
               sessions' = sessions \/ sessions' = <<>>
        PROVE  FreshInv'
    <2>1. CASE sessions' = sessions
      BY <1>1, <2>1 DEF FreshInv
    <2>2. CASE sessions' = <<>>
      BY <1>1, <2>2 DEF FreshInv, Fresh
    <2> QED
      BY <1>1, <2>1, <2>2
  <1>2. ASSUME NEW s \in Signer, SignerStep(s) \/ Crash(s) PROVE FreshInv'
    <2>1. signer' \in [Signer -> SignerRecord]
      BY DEF SystemInv, Coherent, SignersOK
    <2> QED
      BY <1>2, <2>1, MovesFresh
  <1>3. ASSUME NEW s \in Signer, CoordinatorStep(s) PROVE FreshInv'
    BY <1>3, CoordinatorFresh
  <1>4. ASSUME NEW s \in Signer, Connect(s) PROVE FreshInv'
    BY <1>4, ConnectFresh
  <1>5. CASE Timeout
    BY <1>5, TimeoutFresh
  <1>6. CASE LoopTop
    <2>1. CASE NextCert
      BY <1>1, <1>6, <2>1 DEF LoopTop, NextCert, PrepareTbs
    <2>2. CASE Exit
      BY <1>1, <1>6, <2>2 DEF LoopTop, Exit, roastVars, certVars
    <2> QED
      BY <1>6, <2>1, <2>2 DEF LoopTop
  <1>7. CASE Finished \/ UNCHANGED vars
    BY <1>1, <1>7 DEF Finished, vars, coordVars
  <1> QED
    BY <1>2, <1>3, <1>4, <1>5, <1>6, <1>7, Zenon DEF Next

\* No nonce of a signer stands behind two certificates, whatever the faults,
\* crashes and failing cores: a share is made with nonces that are destroyed as
\* it is sent, it is filed in one slot only, and a slot is certified once.
THEOREM SystemCertificatesFresh == Spec => []CertificatesFresh
  <1>1. Init => FreshInv
    BY DEF Init, FreshInv, Fresh
  <1>2. SystemInv /\ FreshInv /\ [Next]_vars /\ SystemInv' => FreshInv'
    BY FreshInvNext
  <1>3. FreshInv => CertificatesFresh
    BY DEF FreshInv, Fresh, CertificatesFresh
  <1> QED
    BY <1>1, <1>2, <1>3, SystemInvariant, PTL DEF Spec
=============================================================================
