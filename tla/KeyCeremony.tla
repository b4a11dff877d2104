---------------------------- MODULE KeyCeremony ----------------------------
(***************************************************************************)
(* A DKG or a share refresh as a whole: the coordinator and the N signers, *)
(* joined by two FIFO streams of frames per connection (what FrameStream   *)
(* provides), their key files, and the faults: a signer process dies, a    *)
(* run of the core or a write to disk fails, the operator stops the        *)
(* coordinator, and starts it, or a signer, again.                         *)
(***************************************************************************)
EXTENDS CeremonyCoordinator

CONSTANTS Roster,       \* the order in which the signers are first started
          Modes,        \* modes the operator starts the coordinator in
          MayKill,      \* may the operator stop the coordinator?
          MaxArrivals   \* bound on the connections made in one run

ASSUME KeyCeremonyAssumption ==
  /\ Roster \in [1..N -> Signer] /\ \A s \in Signer : \E i \in 1..N : Roster[i] = s
  /\ Modes \subseteq {"D", "R"} /\ MayKill \in BOOLEAN /\ MaxArrivals \in Nat

VARIABLES
  arrivals,    \* connections made in this run
  disturbed    \* did anything go wrong that this run cannot recover from?

vars == <<signer, toC, keyFile, pubFile, run, faults, coordVars, toS, arrivals,
          disturbed>>

\* The polynomials of the DKG that made the key files a refresh starts from.
Generation0 == {[by |-> s, run |-> 0, no |-> 0] : s \in Signer}

Down(drawn) == [FreshSigner(drawn) EXCEPT !.up = FALSE]

Init ==
  /\ mode \in Modes
  /\ keyFile = [s \in Signer |-> IF mode = "R" THEN Generation0 ELSE Absent]
  /\ pubFile = IF mode = "R" THEN Generation0 ELSE Absent
  /\ signer = [s \in Signer |-> Down(0)]
  /\ toC = [s \in Signer |-> <<>>] /\ toS = [s \in Signer |-> <<>>]
  /\ run = 1 /\ faults = 0 /\ arrivals = 0 /\ disturbed = FALSE
  /\ dkgState = "IDLE" /\ list = <<>> /\ entry = [s \in Signer |-> BlankEntry]
  /\ count = 0 /\ done = FALSE /\ stored = FALSE /\ running = TRUE

-----------------------------------------------------------------------------

\* A fault in a ceremony that has started, or one that starts with a signer
\* that is no longer there, or the end of the coordinator: no round has a
\* deadline or a way to start over.
Disturbs ==
  \/ dkgState' # "IDLE" /\ faults' # faults
  \/ dkgState = "IDLE" /\ dkgState' # "IDLE" /\ \E s \in Listed : ~signer[s].up
  \/ ~running' /\ ~done'
  \/ run' # run

Note == disturbed' = (disturbed \/ Disturbs)

\* Signer s is started, connects and is promoted; its old connection is gone.
Connect(s) ==
  /\ running /\ s \notin Listed /\ ~signer[s].up /\ arrivals < MaxArrivals
  /\ arrivals < N => s = Roster[arrivals + 1]
  /\ signer' = [signer EXCEPT ![s] = FreshSigner(@.drawn)]
  /\ toC' = [toC EXCEPT ![s] = <<>>]
  /\ arrivals' = arrivals + 1
  /\ Promote(s)
  /\ KeepFiles /\ UNCHANGED <<run, faults>>
  /\ Note

\* Signer s handles the next frame of the coordinator.
SignerStep(s) ==
  /\ signer[s].up /\ toS[s] # <<>>
  /\ ProcessCoordFrame(s, Head(toS[s]))
  /\ toS' = [toS EXCEPT ![s] = Tail(@)]
  /\ UNCHANGED <<run, coordVars, arrivals>>
  /\ Note

\* The coordinator handles the next frame of a listed signer.
CoordinatorStep(s) ==
  /\ running /\ s \in Listed /\ toC[s] # <<>>
  /\ ProcessSignerFrame(s, Head(toC[s]))
  /\ toC' = [toC EXCEPT ![s] = Tail(@)]
  /\ UNCHANGED <<signer, keyFile, run, arrivals>>
  /\ Note

CoordinatorExit ==
  Exit /\ UNCHANGED <<signer, toC, keyFile, run, faults, arrivals>> /\ Note

\* The process of s dies.
Crash(s) ==
  /\ s \in MayCrash /\ signer[s].up /\ faults < MaxFaults
  /\ Die(s)
  /\ faults' = faults + 1
  /\ KeepFiles /\ UNCHANGED <<run, coordVars, toS, arrivals>>
  /\ Note

\* The operator stops the coordinator; frames it had not sent are lost, and a
\* pub_key_pkg.hex it was just writing is torn.  No queue is longer than 2 * N.
Kill ==
  /\ MayKill /\ running /\ faults < MaxFaults
  /\ running' = FALSE /\ faults' = faults + 1
  /\ \E k \in [Signer -> 0..(2 * N)] :
       /\ \A s \in Signer : k[s] <= Len(toS[s])
       /\ toS' = [s \in Signer |-> IF s \in Listed
                                     THEN Append(SubSeq(toS[s], 1, k[s]), Closed)
                                     ELSE toS[s]]
  /\ \/ UNCHANGED pubFile
     \/ /\ \E s \in Listed : toC[s] # <<>> /\ WritesPub(Head(toC[s]))
        /\ pubFile' = Torn
  /\ UNCHANGED <<signer, toC, keyFile, run, arrivals, mode, dkgState, list, entry, count,
                 done, stored>>
  /\ Note

\* The operator starts the coordinator again, once all processes have ended.
\* A refresh wants pub_key_pkg.hex to be there.
NewRun(m) ==
  /\ run < MaxRuns /\ ~running /\ \A s \in Signer : ~signer[s].up
  /\ m = "R" => pubFile # Absent
  /\ run' = run + 1 /\ arrivals' = 0
  /\ mode' = m /\ dkgState' = "IDLE" /\ list' = <<>>
  /\ entry' = [s \in Signer |-> BlankEntry]
  /\ count' = 0 /\ done' = FALSE /\ stored' = FALSE /\ running' = TRUE
  /\ toC' = [s \in Signer |-> <<>>] /\ toS' = [s \in Signer |-> <<>>]
  /\ KeepFiles /\ UNCHANGED <<signer, faults>>
  /\ Note

Next ==
  \/ \E s \in Signer : Connect(s) \/ SignerStep(s) \/ CoordinatorStep(s) \/ Crash(s)
  \/ CoordinatorExit
  \/ Kill
  \/ \E m \in Modes : NewRun(m)

\* The processes run, and the operator starts every signer that is missing.
Fairness ==
  /\ \A s \in Signer :
       WF_vars(SignerStep(s)) /\ WF_vars(CoordinatorStep(s)) /\ WF_vars(Connect(s))
  /\ WF_vars(CoordinatorExit)

Spec == Init /\ [][Next]_vars /\ Fairness

-----------------------------------------------------------------------------
(* Properties.                                                             *)

\* Every variable has the shape of the structure it stands for.
TypeOK ==
  /\ signer \in [Signer -> SignerRecord]
  /\ dkgState \in {"IDLE", "R1", "R2", "COMPLETE"} /\ mode \in Modes
  /\ count \in 0..N /\ {done, stored, running, disturbed} \subseteq BOOLEAN
  /\ Listed \subseteq Signer /\ Len(list) = Cardinality(Listed)

\* What the ceremony of run r contributed to a share.
Part(share, r) == {p \in share : p.run = r}

\* One polynomial of every signer.
Complete(part) ==
  Cardinality(part) = N /\ {p.by : p \in part} = Signer

\* No two shares on disk come from different outcomes of one ceremony: of each
\* ceremony a share holds the contribution of every signer, or nothing, and
\* two shares never hold different contributions of it.  (Whether both took
\* part in the latest one is ConfirmedCanSign's business.)  That is what part 3
\* and refresh_shares must preserve when signers die, come back blank and leave
\* packages of an earlier connection behind.
SameSharing ==
  \A s, d \in Signer : \A r \in 0..MaxRuns :
    Readable(keyFile[s]) /\ Readable(keyFile[d]) =>
      LET mine == Part(keyFile[s], r)  theirs == Part(keyFile[d], r)
      IN  (mine = {} \/ Complete(mine)) /\ (mine = {} \/ theirs = {} \/ mine = theirs)

\* What is announced at the end of a ceremony.  Every signer whose disk works
\* has its new share on it (REFRESH_COMPLETE follows the save; R2_COMPLETE only
\* leaves after it, by the order of the signer's loop).  And a signer without
\* its new share after a confirmed refresh has none that loads: nobody is left
\* behind with an old share it would take part in signing with.
AnnouncedMeansSaved ==
  dkgState = "COMPLETE" /\ (mode = "R" => done) =>
    \A s \in Signer :
      \/ Complete(Part(keyFile[s], run))
      \/ s \in MayFail /\ (mode = "R" => keyFile[s] = Torn)

\* When the first signer overwrites its old share, no other signer depends on
\* a further package: each that took part holds, or is about to read, the
\* round-2 package of every other (the purpose of REFRESH_FINALIZE).
NoWayBack ==
  mode = "R" /\ (\E s \in Signer : Part(keyFile[s], run) # {}) =>
    \A d \in Signer : signer[d].up /\ signer[d].secret1 # NoPoly /\ running =>
      LET coming == {f \in {toS[d][i] : i \in DOMAIN toS[d]} :
                       f.type = "RELAY_REFRESH_R2"}
      IN  Senders(signer[d].r2) \cup {f.box.from : f \in coming} = Signer \ {d}

\* The README's promise for a refresh: certificates can be signed before and
\* after it under the same CA key, so T signers hold shares of one sharing,
\* the one pub_key_pkg.hex describes.
ConfirmedCanSign ==
  mode = "R" /\ done => Cardinality({s \in Signer : keyFile[s] = pubFile}) >= T

\* A ceremony nothing disturbs after its start ends: the coordinator exits,
\* all signers hold shares of one sharing and pub_key_pkg.hex is that of the
\* new shares.  What goes wrong before the start is made good.
Completes ==
  <>(disturbed \/ (~running /\ \A s \in Signer : keyFile[s] = pubFile
                                  /\ Complete(Part(keyFile[s], run))))
=============================================================================
