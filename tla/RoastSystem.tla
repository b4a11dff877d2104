---------------------------- MODULE RoastSystem ----------------------------
(***************************************************************************)
(* The coordinator and the signers of a SIGN-mode run, over TLS: one FIFO  *)
(* channel in each direction per connection, lost with the connection.     *)
(***************************************************************************)
EXTENDS FrostSigner, RoastCoordinator

CONSTANTS Roster,          \* signers registered at the start, first to last
          MaxArrivals,     \* bound on registrations
          Crashers,        \* signers whose process may die at any time
          PromptSigners    \* do running signers answer within the timeout?

ASSUME SystemAssumption ==
  /\ Roster \in Seq(Signer)
  /\ \A i, j \in DOMAIN Roster : i # j => Roster[i] # Roster[j]
  /\ MaxArrivals \in Nat
  /\ Crashers \subseteq Signer
  /\ PromptSigners \in BOOLEAN

coordVars == <<peer, arrived, arrivals, strikes, blacklist, sessions, nextId,
               job, done, roastFail, running, certs>>
vars == <<signer, toC, toS, coordVars>>

Enrolled == {Roster[i] : i \in DOMAIN Roster}

\* main has prepared the first tbs; the signers of Roster have registered.
Init ==
  /\ job \in [serial : {1}, tbs : {<<1, "frost">>}, template : {1},
              toMint : {ToMint}, replace : ReplaceTbs]
  /\ arrived = [s \in Signer |->
       IF s \in Enrolled THEN CHOOSE i \in DOMAIN Roster : Roster[i] = s ELSE 0]
  /\ arrivals = Len(Roster)
  /\ peer = [s \in Signer |-> Blank("INIT")]
  /\ strikes = [s \in Signer |-> 0]
  /\ blacklist = {}
  /\ sessions = <<>>
  /\ nextId = 1
  /\ done = FALSE /\ roastFail = FALSE /\ running = TRUE
  /\ certs = <<>>
  /\ toS = [s \in Signer |-> IF s \in Enrolled
              THEN <<HelloAck("S"), SignReq(job.tbs)>> ELSE <<>>]
  /\ signer = [s \in Signer |-> [FreshSigner(0) EXCEPT !.up = s \in Enrolled]]
  /\ toC = [s \in Signer |-> <<>>]

-----------------------------------------------------------------------------

\* Signer s handles the next frame; a process that ends loses its input.
SignerStep(s) ==
  /\ signer[s].up
  /\ toS[s] # <<>>
  /\ ProcessCoordFrame(s, Head(toS[s]))
  /\ toS' = [toS EXCEPT ![s] = IF signer'[s].up THEN Tail(@) ELSE <<>>]
  /\ UNCHANGED coordVars

\* The coordinator handles the next frame from s.
CoordinatorStep(s) ==
  /\ running
  /\ s \in Connected
  /\ toC[s] # <<>>
  /\ ProcessSignerFrame(s, Head(toC[s]))
  /\ toC' = [toC EXCEPT ![s] = Tail(@)]
  /\ UNCHANGED signer

\* A signer process starts, connects and is registered.
Connect(s) ==
  /\ running
  /\ arrivals < MaxArrivals
  /\ ~signer[s].up
  /\ Register(s)
  /\ signer' = [signer EXCEPT ![s] = FreshSigner(signer[s].drawn)]
  /\ toC' = [toC EXCEPT ![s] = <<>>]

Crash(s) ==
  /\ s \in Crashers
  /\ signer[s].up
  /\ Die(s)
  /\ toS' = [toS EXCEPT ![s] = <<>>]
  /\ UNCHANGED coordVars

\* Nothing is under way but what the coordinator is waiting for.
Quiet == \A s \in Signer : /\ toC[s] = <<>>
                           /\ signer[s].up => toS[s] = <<>>

Timeout ==
  /\ running
  /\ PromptSigners => Quiet
  /\ \E k \in DOMAIN sessions : Expire(k)
  /\ UNCHANGED <<signer, toC>>

LoopTop ==
  /\ running
  /\ NextCert \/ Exit
  /\ UNCHANGED <<signer, toC>>

\* The coordinator has left and the signers have read all it sent.
Finished ==
  /\ ~running
  /\ \A s \in Signer : signer[s].up => toS[s] = <<>>
  /\ UNCHANGED vars

Next ==
  \/ \E s \in Signer : SignerStep(s) \/ CoordinatorStep(s) \/ Connect(s) \/ Crash(s)
  \/ Timeout \/ LoopTop \/ Finished

Spec == Init /\ [][Next]_vars

\* The event loops serve every ready descriptor, deadlines pass, and the top
\* of the loop is visited; nobody has to start a signer.
Fairness ==
  /\ \A s \in Signer : WF_vars(SignerStep(s)) /\ WF_vars(CoordinatorStep(s))
  /\ WF_vars(Timeout) /\ WF_vars(LoopTop)

FairSpec == Spec /\ Fairness

-----------------------------------------------------------------------------
(* Properties.                                                             *)

\* Signers without a fault that hold a key and whose process never dies.
Honest == {s \in Signer : Fault[s] = "none" /\ s \in KeyHolder \ Crashers}

Live(k) == sessions[k].state = "AWAITING"

SessionRecord(q) ==
  /\ q.id \in 1..(nextId - 1)
  /\ q.state \in {"AWAITING", "COMPLETE", "FAILED"}
  /\ q.members \subseteq Signer /\ Cardinality(q.members) = T
  /\ DOMAIN q.shares = q.members
  /\ q.n \in Nat

\* The globals of both programs are well formed: in particular every used slot
\* of g_sessions holds T distinct members and an id given out before.
TypeOK ==
  /\ signer \in [Signer -> SignerRecord]
  /\ peer \in [Signer -> [phase : Phase, commit : Commitment \cup {NoCommit},
                          sig : [by : Signer, tbs : Tbs, commit : Commitment]
                                  \cup {NoSig},
                          session : Nat]]
  /\ arrived \in [Signer -> 0..arrivals]
  /\ strikes \in [Signer -> Nat]
  /\ blacklist \subseteq Signer
  /\ nextId \in Nat \ {0}
  /\ Len(sessions) <= MaxSessions
  /\ \A k \in DOMAIN sessions : SessionRecord(sessions[k])
  /\ job.serial \in Nat \ {0}
  /\ job.tbs \in Tbs
  /\ job.toMint \in 0..(CounterMod - 1)
  /\ {done, roastFail, running} \subseteq BOOLEAN

\* ROAST's escrow: while nobody reconnects, a signer is in at most one session
\* that still awaits shares, although commits, expiries and identifiable
\* aborts each form sessions from the same table.
DisjointSessions ==
  \A i, j \in DOMAIN sessions :
    i # j /\ Live(i) /\ Live(j) => sessions[i].members \cap sessions[j].members = {}

\* n_shares, which decides when to aggregate, is the number of slots filled:
\* SIG_SHARE increments it without looking whether the slot already was.
ShareCountExact ==
  \A k \in DOMAIN sessions : sessions[k].n = Cardinality(Contributors(sessions[k]))

\* A SIG_SHARE frame names no session; the coordinator files it under the
\* session it last put the sender in.  The share was always made for that
\* session's package, never for one that expired or was cleared meanwhile.
SharesOfTheirSession ==
  \A k \in DOMAIN sessions : \A s \in Contributors(sessions[k]) :
    sessions[k].shares[s].pkg = sessions[k].pkg

\* A session completes only for the message of the certificate in hand, also
\* when it was formed before prepare_tbs moved on to the next one.
SignsCurrentTbs ==
  [][\A k \in DOMAIN sessions \cap DOMAIN sessions' :
       Live(k) /\ sessions'[k].state = "COMPLETE" => sessions[k].pkg.tbs = job.tbs]_vars

\* No nonce of a signer stands behind two of the signatures handed out, which
\* would give its key share away: also when prepare_tbs failed and sessions of
\* one certificate go on under the next, when commitments of an expired session
\* are still under way, and when signers crash and come back.
CertificatesFresh ==
  \A i, j \in DOMAIN certs :
    i # j => certs[i].pkg.commits \cap certs[j].pkg.commits = {}

\* A coordinator that swaps the message after soliciting commitments (--fault
\* replace-tbs) gets no share for the message it swapped in.
RefusesReplacedTbs ==
  \A s \in Signer : \A i \in DOMAIN toC[s] :
    toC[s][i].type = "SIG_SHARE" => toC[s][i].share.pkg.tbs[2] # "altered"

\* Strikes and the blacklist hit only those who earned them: a prompt signer
\* without a fault is never struck by an expiry nor named a culprit.
HonestNeverPenalised ==
  \A s \in Honest : strikes[s] = 0 /\ s \notin blacklist

\* With at least T honest prompt signers, each of the others spoils at most
\* FROST_MAX_STRIKES sessions of a certificate.
SessionBound == nextId - 1 <= MaxStrikes * (N - T) + 1

\* The README's bound: termination within n - t + 1 sessions.
SessionBoundDoc == nextId - 1 <= N - T + 1

\* The certificates of a --mass-mint run carry distinct serials.
DistinctSerials ==
  \A i, j \in DOMAIN certs : i # j => certs[i].serial # certs[j].serial

\* --mass-mint count issues no more than count certificates.
AtMostToMint == Len(certs) <= ToMint

\* ROAST is robust: T honest prompt signers suffice, whatever the others do,
\* and every certificate asked for is eventually written.
Issues == <>(Len(certs) = ToMint)

\* The coordinator eventually leaves its event loop, having issued everything
\* or having failed.
Ends == <>~running
=============================================================================
