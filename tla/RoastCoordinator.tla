-------------------------- MODULE RoastCoordinator --------------------------
(***************************************************************************)
(* The coordinator of frost_coordinator.c in SIGN mode: the table of       *)
(* connected signers, the ROAST sessions, strikes and the blacklist, and   *)
(* the certificate being signed.                                           *)
(*                                                                         *)
(* The coordinator is one thread: each action is one frame, one expired    *)
(* session or one visit to the top of the event loop, run to completion.   *)
(* Actions take the frame as a parameter and write toS, the coordinator's  *)
(* output.  Where the code calls roast_try_form_session as the last thing  *)
(* it does, the action ends in TryForm, given the values left by the lines *)
(* before the call.                                                        *)
(***************************************************************************)
EXTENDS FrostCommon

CONSTANTS MaxSessions,    \* ROAST_MAX_SESSIONS
          MaxStrikes,     \* FROST_MAX_STRIKES
          ToMint,         \* --mass-mint: certificates to issue
          CounterMod,     \* 2^w for the unsigned counter g_to_mint
          MaxSerial,      \* bound on the serials tried
          CoordMayFail,   \* may a core run of the coordinator fail?
          ReplaceTbs      \* is --fault replace-tbs given? the possible answers

ASSUME CoordinatorAssumption ==
  /\ MaxSessions \in Nat \ {0}
  /\ MaxStrikes \in Nat \ {0}
  /\ CounterMod \in Nat \ {0}
  /\ ToMint \in Nat /\ ToMint < CounterMod
  /\ MaxSerial \in Nat \ {0}
  /\ CoordMayFail \in BOOLEAN
  /\ ReplaceTbs \subseteq BOOLEAN

VARIABLES
  peer,       \* peer[s]: sign_phase, commit, commit_sig, session_id of s
  arrived,    \* arrived[s]: when s registered, 0 if it is not connected
  arrivals,   \* registrations so far
  strikes,    \* g_strikes
  blacklist,  \* g_blacklist
  sessions,   \* g_sessions: the slots in use, in slot order
  nextId,     \* g_next_session_id
  job,        \* g_serial, g_tbs, g_dummy_cert, g_to_mint, --fault replace-tbs
  done,       \* g_signing_done
  roastFail,  \* g_roast_fail
  running,    \* is the event loop still running?
  certs,      \* certificate files written, oldest first
  toS         \* toS[s]: frames queued for s and not yet handled by it

\* What a frame handler can change of the ROAST state, and the rest.
roastVars == <<peer, strikes, blacklist, sessions, nextId, toS>>
certVars  == <<job, done, roastFail, certs>>
listVars  == <<arrived, arrivals>>

Phase == {"INIT", "NO_KEY", "COMMITTED", "IN_SESSION", "SHARED",
          "BLACKLISTED", "SUSPECT"}

Connected == {s \in Signer : arrived[s] > 0}

\* LIST_INSERT_HEAD: the signer that registered last is met first.
Ahead(s, r) == arrived[s] > arrived[r]

NoSig == Attestation(0, NoTbs, NoCommit)

\* A table entry reset to a given phase: no commitment, no session.
Blank(phase) ==
  [phase |-> phase, commit |-> NoCommit, sig |-> NoSig, session |-> 0]

NoShare == Share(0, NoCommit, [tbs |-> NoTbs, commits |-> {}], FALSE)

\* Mutant: a reset that forgets commit_len = 0.
ResetKeepsCommit(p, S, phase) ==
  [s \in Signer |-> IF s \in S
     THEN [Blank(phase) EXCEPT !.commit = p[s].commit, !.sig = p[s].sig]
     ELSE p[s]]

\* p with every signer of S blank in the given phase.
Reset(p, S, phase) ==
  [s \in Signer |-> IF s \in S THEN Blank(phase) ELSE p[s]]

SetPhase(p, S, phase) ==
  [s \in Signer |-> IF s \in S THEN [p[s] EXCEPT !.phase = phase] ELSE p[s]]

\* q with the frame f appended for every signer of S.
SendTo(q, S, f) ==
  [s \in Signer |-> IF s \in S THEN Append(q[s], f) ELSE q[s]]

\* Signers that SIGN_REQ is broadcast to.
Usable(p, bl) == {s \in Connected \ bl : p[s].phase # "NO_KEY"}

\* Mutant: signers busy in another session are not counted.
NoEligibleRemainBusyIgnored(p, bl) ==
  Cardinality({s \in Usable(p, bl) : p[s].phase # "IN_SESSION"}) < T

\* roast_do_no_eligible_remain.
NoEligibleRemain(p, bl) == Cardinality(Usable(p, bl)) < T

-----------------------------------------------------------------------------
(* Forming a session: roast_try_form_session.                              *)

\* Pass 1 takes committed signers without strikes, pass 2 the struck ones.
Reliable(p, st, bl) ==
  {s \in Connected \ bl : /\ p[s].phase = "COMMITTED"
                          /\ p[s].commit # NoCommit
                          /\ st[s] = 0}

Suspects(p, st, bl) ==
  {s \in Connected \ bl : /\ p[s].phase \in {"COMMITTED", "SUSPECT"}
                          /\ p[s].commit # NoCommit
                          /\ st[s] > 0}

\* s is taken before r: by pass, then by position in the list.
Preferred(s, r, st) ==
  \/ st[s] = 0 /\ st[r] > 0
  \/ (st[s] = 0 <=> st[r] = 0) /\ Ahead(s, r)

\* c is the array chosen[]: the T most preferred candidates, in order.
IsSelection(c, p, st, bl) ==
  LET E == Reliable(p, st, bl) \cup Suspects(p, st, bl)
  IN  /\ \A i \in 1..T : c[i] \in E
      /\ \A i, j \in 1..T : i < j => Preferred(c[i], c[j], st)
      /\ \A r \in E : \A i \in 1..T :
           (\A j \in 1..T : c[j] # r) => Preferred(c[i], r, st)

\* The authenticated commit bundle for the chosen signers.
SessionBundle(c, p) ==
  Bundle(IF job.replace THEN <<job.tbs[1], "altered">> ELSE job.tbs,
         [i \in 1..T |-> Entry(c[i], p[c[i]].commit, p[c[i]].sig)])

NewSession(c, p) ==
  LET members == {c[i] : i \in 1..T}
  IN  [id |-> nextId, state |-> "AWAITING", members |-> members,
       pkg |-> SigningPackage(SessionBundle(c, p)),
       shares |-> [s \in members |-> NoShare], n |-> 0]

\* Mutant: the members keep the phase COMMITTED.
EnterSessionStaysCommitted(c, p) ==
  [s \in Signer |-> IF \E i \in 1..T : c[i] = s
                      THEN [p[s] EXCEPT !.session = nextId] ELSE p[s]]

\* The chosen signers enter the new session.
EnterSession(c, p) ==
  [s \in Signer |-> IF \E i \in 1..T : c[i] = s
                      THEN [p[s] EXCEPT !.phase = "IN_SESSION",
                                        !.session = nextId]
                      ELSE p[s]]

\* Mutant: the search for a free slot always finds one.
NoSlotIgnored(ss) == FALSE

\* roast_alloc finds no empty slot; slots are emptied by prepare_tbs only.
NoSlot(ss) == Len(ss) = MaxSessions

\* Form one session from table p, strikes st, blacklist bl, slots ss and
\* output queues q, if there are enough candidates and a free slot; the run
\* of `assemble' may fail, and then nothing changes.
TryForm(p, st, bl, ss, q) ==
  LET Nothing == peer' = p /\ sessions' = ss /\ nextId' = nextId /\ toS' = q
      choices == {c \in [1..T -> Connected] : IsSelection(c, p, st, bl)}
  IN  \/ /\ done \/ NoSlot(ss) \/ choices = {}
         /\ Nothing
      \/ /\ ~done /\ ~NoSlot(ss)
         /\ \E c \in choices :
              /\ peer' = EnterSession(c, p)
              /\ sessions' = Append(ss, NewSession(c, p))
              /\ nextId' = nextId + 1
              /\ toS' = SendTo(q, {c[i] : i \in 1..T},
                               RelayCommit(SessionBundle(c, p)))
      \/ /\ ~done /\ ~NoSlot(ss) /\ choices # {}
         /\ CoordMayFail
         /\ Nothing

-----------------------------------------------------------------------------
(* Aggregation: roast_try_aggregate.                                       *)

\* A share that passes verification against the session's package.
ValidShare(sess, s) ==
  LET c == sess.shares[s].nonce
  IN  /\ <<s, c>> \in sess.pkg.commits
      /\ sess.shares[s] = Share(s, c, sess.pkg, TRUE)

Contributors(sess) == {s \in sess.members : sess.shares[s] # NoShare}

\* The core reports the first invalid share, in the order of the ids.
Culprit(sess) ==
  CHOOSE s \in sess.members :
    /\ ~ValidShare(sess, s)
    /\ \A r \in sess.members : ~ValidShare(sess, r) => s <= r

\* Identifiable abort: roast_fail_culprit on slot k.
FailCulprit(k, culprit, p, ss) ==
  LET innocent == (ss[k].members \ {culprit}) \cap Connected
      p1 == SetPhase(p, {culprit} \cap Connected, "BLACKLISTED")
      bl == blacklist \cup {culprit}
  IN  /\ blacklist' = bl
      /\ TryForm(Reset(p1, innocent, "INIT"), strikes, bl,
                 [ss EXCEPT ![k].state = "FAILED"],
                 SendTo(toS, innocent, SignReq(job.tbs)))
      /\ roastFail' = NoEligibleRemain(peer', bl)
      /\ UNCHANGED <<strikes, job, done, certs>>

\* No culprit named: blacklist the whole session, ask everyone left again.
FailAll(k, p, ss) ==
  LET bl   == blacklist \cup ss[k].members
      p1   == SetPhase(p, ss[k].members \cap Connected, "BLACKLISTED")
      left == Usable(p1, bl)
  IN  /\ blacklist' = bl
      /\ sessions' = [ss EXCEPT ![k].state = "FAILED"]
      /\ done' = NoEligibleRemain(p1, bl)
      /\ peer' = Reset(p1, left, "INIT")
      /\ toS' = SendTo(toS, left, SignReq(job.tbs))
      /\ UNCHANGED <<strikes, nextId, job, roastFail, certs>>

\* `mint' rebuilds the certificate from the saved template with the FROST CA
\* key and checks the signature against it (debug build of ssh_key).
MintAccepts(pkg) == pkg.tbs = <<job.template, "frost">>

\* Mutant: the certificate is not counted.
MintUncounted(pkg) ==
  /\ MintAccepts(pkg)
  /\ certs' = Append(certs, [file |-> job.serial, serial |-> job.template,
                             pkg |-> pkg])
  /\ toS' = SendTo(toS, Connected, CertOutput)
  /\ UNCHANGED job

\* call_mint wrote the file; g_to_mint is unsigned.
Mint(pkg) ==
  /\ MintAccepts(pkg)
  /\ certs' = Append(certs, [file |-> job.serial, serial |-> job.template,
                             pkg |-> pkg])
  /\ job' = [job EXCEPT !.toMint = (@ + CounterMod - 1) % CounterMod]
  /\ toS' = SendTo(toS, Connected, CertOutput)

MintFails(pkg) ==
  /\ ~MintAccepts(pkg) \/ CoordMayFail
  /\ UNCHANGED <<certs, job, toS>>

Succeed(k, p, ss) ==
  /\ sessions' = [ss EXCEPT ![k].state = "COMPLETE"]
  /\ done' = TRUE
  /\ peer' = p
  /\ Mint(ss[k].pkg) \/ MintFails(ss[k].pkg)
  /\ UNCHANGED <<strikes, blacklist, nextId, roastFail>>

\* The shares of slot k are complete.  The core may not run at all, or may
\* end without naming a culprit.
Aggregate(k, p, ss) ==
  LET sess == ss[k]
      full == Contributors(sess) = sess.members
      good == \A s \in sess.members : ValidShare(sess, s)
  IN  \/ full /\ good /\ Succeed(k, p, ss)
      \/ full /\ ~good /\ FailCulprit(k, Culprit(sess), p, ss)
      \/ (~full \/ CoordMayFail) /\ FailAll(k, p, ss)
      \/ /\ CoordMayFail
         /\ peer' = p /\ sessions' = ss
         /\ UNCHANGED <<strikes, blacklist, nextId, toS, certVars>>

-----------------------------------------------------------------------------
(* Frame handlers: process_signer_frame.                                   *)

\* MSG_SHARE_LOAD_FAIL: s cannot take part until it reconnects.
OnShareLoadFail(s) ==
  /\ peer' = SetPhase(peer, {s}, "NO_KEY")
  /\ UNCHANGED <<strikes, blacklist, sessions, nextId, toS, certVars, listVars>>

\* The signature is only stored here; members check it.
StoreCommit(s, m) ==
  [peer EXCEPT ![s].phase = "COMMITTED", ![s].commit = m.commit,
               ![s].sig = m.sig]

OnCommit(s, m) ==
  \/ /\ peer[s].phase \in {"INIT", "SUSPECT"}
     /\ TryForm(StoreCommit(s, m), strikes, blacklist, sessions, toS)
     /\ UNCHANGED <<strikes, blacklist, certVars, listVars>>
  \/ /\ peer[s].phase \notin {"INIT", "SUSPECT"}   \* stray commit
     /\ UNCHANGED <<roastVars, certVars, listVars>>

\* The slot a share from s belongs to: the frame names no session, so it is
\* the one in which the coordinator last put s.  (roast_find with id 0 meets
\* an unused slot, which is not awaiting shares.)
ShareSlot(s) == {k \in DOMAIN sessions : /\ sessions[k].id = peer[s].session
                                         /\ sessions[k].state = "AWAITING"
                                         /\ s \in sessions[k].members}

StoreShare(k, s, m) ==
  [sessions EXCEPT ![k].shares[s] = m.share, ![k].n = @ + 1]

OnSigShare(s, m) ==
  \/ /\ ShareSlot(s) = {}
     /\ UNCHANGED <<roastVars, certVars, listVars>>
  \/ \E k \in ShareSlot(s) :
       LET ss == StoreShare(k, s, m)
           p  == SetPhase(peer, {s}, "SHARED")
       IN  /\ IF ss[k].n >= T /\ ~done
                THEN Aggregate(k, p, ss)
                ELSE /\ peer' = p /\ sessions' = ss
                     /\ UNCHANGED <<strikes, blacklist, nextId, toS, certVars>>
           /\ UNCHANGED listVars

\* recv or send on the connection failed: remove_signer.
OnClosed(s) ==
  /\ arrived' = [arrived EXCEPT ![s] = 0]
  /\ toS' = [toS EXCEPT ![s] = <<>>]
  /\ UNCHANGED <<arrivals, peer, strikes, blacklist, sessions, nextId, certVars>>

ProcessSignerFrame(s, m) ==
  /\ \/ m.type = "SHARE_LOAD_FAIL" /\ OnShareLoadFail(s)
     \/ m.type = "COMMIT" /\ OnCommit(s, m)
     \/ m.type = "SIG_SHARE" /\ OnSigShare(s, m)
     \/ m.type = "CLOSED" /\ OnClosed(s)
  /\ UNCHANGED running

-----------------------------------------------------------------------------
(* The event loop.                                                         *)

\* A valid HELLO from s is promoted: HELLO_ACK, then SIGN_REQ.
Register(s) ==
  /\ s \notin Connected
  /\ arrived' = [arrived EXCEPT ![s] = arrivals + 1]
  /\ arrivals' = arrivals + 1
  /\ peer' = Reset(peer, {s}, "INIT")
  /\ toS' = [toS EXCEPT ![s] = <<HelloAck("S"), SignReq(job.tbs)>>]
  /\ UNCHANGED <<strikes, blacklist, sessions, nextId, certVars, running>>

\* Mutant: a member that did answer counts as silent.
SilentMembersAll(sess) == sess.members \cap Connected

\* Connected members of a session whose share is missing.
SilentMembers(sess) == (sess.members \ Contributors(sess)) \cap Connected

\* Mutant: strikes have no consequence.
OutcastsNone(silent, st) == {}

\* Those for whom this strike was one too many.
Outcasts(silent, st) == {s \in silent : st[s] >= MaxStrikes}

\* roast_expire_sessions retires slot k.  Deadlines grow with the slot
\* number, so the slot that expires is the first one awaiting shares.
Expire(k) ==
  LET sess   == sessions[k]
      coop   == Contributors(sess) \cap Connected
      silent == SilentMembers(sess)
      st     == [s \in Signer |-> IF s \in silent THEN strikes[s] + 1
                                                  ELSE strikes[s]]
      out    == Outcasts(silent, st)
      bl     == blacklist \cup out
      p1     == SetPhase(peer, out, "BLACKLISTED")
      p2     == Reset(Reset(p1, coop, "INIT"), silent \ out, "SUSPECT")
  IN  /\ ~done
      /\ sess.state = "AWAITING"
      /\ \A i \in DOMAIN sessions : sessions[i].state = "AWAITING" => k <= i
      /\ strikes' = st
      /\ blacklist' = bl
      /\ TryForm(p2, st, bl, [sessions EXCEPT ![k].state = "FAILED"],
                 SendTo(toS, (coop \cup silent) \ out, SignReq(job.tbs)))
      /\ UNCHANGED <<certVars, listVars, running>>

\* prepare_tbs for a new serial: it succeeds and clears the sessions; or
\* `tbs' fails and nothing changes; or the CA key cannot be patched in and
\* the new body is left with the ephemeral key, the sessions uncleared.
PrepareTbs(serial) ==
  \/ /\ job' = [job EXCEPT !.serial = serial, !.tbs = <<serial, "frost">>,
                           !.template = serial]
     /\ sessions' = <<>>
  \/ /\ CoordMayFail
     /\ job' = [job EXCEPT !.serial = serial]
     /\ UNCHANGED sessions
  \/ /\ CoordMayFail
     /\ job' = [job EXCEPT !.serial = serial, !.tbs = <<serial, "ephemeral">>,
                           !.template = serial]
     /\ UNCHANGED sessions

\* Mutant: the next certificate has the serial of the last.
NextSerialStuck == job.serial

NextSerial == job.serial + 1

\* Mutant: neither the sessions nor the signers' phases are reset.
NextCertForgetsReset ==
  /\ done /\ ~roastFail
  /\ job.toMint > 0
  /\ job.serial < MaxSerial
  /\ job' = [job EXCEPT !.serial = NextSerial, !.tbs = <<NextSerial, "frost">>,
                        !.template = NextSerial]
  /\ done' = FALSE
  /\ toS' = SendTo(toS, Usable(peer, blacklist), SignReq(job'.tbs))
  /\ UNCHANGED <<peer, sessions, strikes, blacklist, nextId, roastFail, certs,
                 listVars, running>>

\* Signing is done and more certificates are due: the next serial, and a
\* SIGN_REQ to everyone usable.  The result of prepare_tbs is not looked at.
NextCert ==
  LET all == Usable(peer, blacklist)
  IN  /\ done /\ ~roastFail
      /\ job.toMint > 0
      /\ job.serial < MaxSerial
      /\ PrepareTbs(NextSerial)
      /\ done' = FALSE
      /\ peer' = Reset(peer, all, "INIT")
      /\ toS' = SendTo(toS, all, SignReq(job'.tbs))
      /\ UNCHANGED <<strikes, blacklist, nextId, roastFail, certs, listVars,
                     running>>

\* Mutant: the `break' leaves the scan of the queues only.
ExitInnerBreak ==
  /\ roastFail \/ (done /\ job.toMint = 0)
  /\ UNCHANGED <<roastVars, certVars, listVars, running>>

\* Leave the event loop, having failed or issued everything.
Exit ==
  /\ roastFail \/ (done /\ job.toMint = 0)
  /\ running' = FALSE
  /\ UNCHANGED <<roastVars, certVars, listVars>>
=============================================================================
