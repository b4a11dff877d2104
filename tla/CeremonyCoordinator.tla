------------------------- MODULE CeremonyCoordinator -------------------------
(***************************************************************************)
(* The coordinator of frost_coordinator.c in the DKG and the REFRESH mode: *)
(* promotion of a registered signer, the handlers of process_signer_frame  *)
(* for the two ceremonies, and the end of the event loop.                  *)
(***************************************************************************)
EXTENDS CeremonySigner

CONSTANT CoordMayFail   \* may the coordinator's writes to disk fail?

ASSUME CeremonyCoordinatorAssumption == CoordMayFail \in BOOLEAN

VARIABLES
  mode,       \* g_mode: "D" or "R"
  dkgState,   \* g_dkg_state: "IDLE", "R1", "R2" or "COMPLETE"
  list,       \* ids of the registered signers, the newest first
  entry,      \* entry[s]: the struct signer of s, when it is listed
  count,      \* g_refresh_complete_count
  done,       \* g_signing_done
  stored,     \* is g_pub_key_pkg_len > 0?
  running,    \* has the coordinator process not ended?
  toS         \* toS[s]: frames under way to s

coordVars == <<mode, dkgState, list, entry, count, done, stored, running>>

NoR1 == [pkg |-> NoPoly, sig |-> Signed(0, NoPoly)]

\* A promoted connection starts from a blank entry.
BlankEntry == [r1 |-> NoR1, r2Complete |-> FALSE, pub |-> NoPackage]

Listed == {list[i] : i \in DOMAIN list}

\* The list without the entry of s (LIST_REMOVE).
Without(s) ==
  LET k == CHOOSE i \in DOMAIN list : list[i] = s
  IN  [i \in 1..(Len(list) - 1) |-> list[IF i < k THEN i ELSE i + 1]]

\* signer_send to every listed signer.
Broadcast(to, f) == [s \in Signer |-> IF s \in Listed THEN Append(to[s], f) ELSE to[s]]

-----------------------------------------------------------------------------
(* Promotion.                                                              *)

StartFrame == IF mode = "D" THEN StartDkg(T) ELSE StartRefresh(T)

\* Mutant: a signer that comes back starts the ceremony again.
StartsAgain(s) == Cardinality(Listed \cup {s}) >= N

\* maybe_start_dkg, maybe_start_refresh: is this the promotion that starts it?
Starts(s) == dkgState = "IDLE" /\ Cardinality(Listed \cup {s}) >= N

\* HELLO_ACK to the new signer, then START to all once they are N.
Promote(s) ==
  LET acked == [toS EXCEPT ![s] = <<HelloAck(mode)>>]
  IN  /\ list' = <<s>> \o list
      /\ entry' = [entry EXCEPT ![s] = BlankEntry]
      /\ IF Starts(s)
           THEN /\ dkgState' = "R1"
                /\ toS' = [d \in Signer |->
                             IF d \in Listed \cup {s} THEN Append(acked[d], StartFrame)
                             ELSE acked[d]]
           ELSE toS' = acked /\ UNCHANGED dkgState
      /\ UNCHANGED <<mode, count, done, stored, running>>

-----------------------------------------------------------------------------
(* process_signer_frame.  entries is the list after the frame was noted.   *)

Dropped == UNCHANGED <<coordVars, toS, pubFile, faults>>

\* Every listed signer's round-1 package to every other, in list order.
RelayAllR1(entries, type) ==
  LET relays(d) == [i \in 1..(Len(list) - 1) |->
                      LET s == Without(d)[i] IN RelayedR1(type, s, entries[s].r1)]
  IN  [d \in Signer |-> IF d \in Listed THEN toS[d] \o relays(d) ELSE toS[d]]

\* Mutant: off by one.
R1CompleteNever(entries) ==
  Cardinality({s \in Listed : entries[s].r1.pkg # NoPoly}) > N

R1Complete(entries) ==
  Cardinality({s \in Listed : entries[s].r1.pkg # NoPoly}) >= N

\* Mutant: off by one.
R2CompleteEarly(entries) ==
  Cardinality({s \in Listed : entries[s].r2Complete}) >= N - 1

R2Complete(entries) == Cardinality({s \in Listed : entries[s].r2Complete}) >= N

\* ROUND1_PKG, REFRESH_R1; the last one has all of them relayed.
NoteR1(s, f, type) ==
  LET entries == [entry EXCEPT ![s].r1 = [pkg |-> f.pkg, sig |-> f.sig]]
  IN  /\ IF dkgState # "R1" THEN UNCHANGED <<entry, dkgState, toS>>
         ELSE /\ entry' = entries
              /\ IF R1Complete(entries)
                   THEN dkgState' = "R2" /\ toS' = RelayAllR1(entries, type)
                   ELSE UNCHANGED <<dkgState, toS>>
      /\ UNCHANGED <<mode, list, count, done, stored, running, pubFile, faults>>

OnRound1Pkg(s, f) == NoteR1(s, f, "RELAY_R1")
OnRefreshR1(s, f) ==
  IF mode = "R" THEN NoteR1(s, f, "RELAY_REFRESH_R1") ELSE Dropped

\* ROUND2_PKG, REFRESH_R2: passed on, or dropped when the target is gone.
PassR2(f, type) ==
  /\ toS' = IF f.box.to \in Listed
              THEN [toS EXCEPT ![f.box.to] = Append(@, [f EXCEPT !.type = type])]
              ELSE toS
  /\ UNCHANGED <<coordVars, pubFile, faults>>

OnRound2Pkg(f) == PassR2(f, "RELAY_R2")
OnRefreshR2(f) == IF mode = "R" THEN PassR2(f, "RELAY_REFRESH_R2") ELSE Dropped

\* R2_COMPLETE, REFRESH_R2_COMPLETE; the last one is answered to all.
NoteR2Complete(s, answer) ==
  LET entries == [entry EXCEPT ![s].r2Complete = TRUE]
  IN  /\ entry' = entries
      /\ IF ~entry[s].r2Complete /\ R2Complete(entries)
           THEN dkgState' = "COMPLETE" /\ toS' = Broadcast(toS, Notice(answer))
           ELSE UNCHANGED <<dkgState, toS>>
      /\ UNCHANGED <<mode, list, count, done, stored, running, pubFile, faults>>

OnR2Complete(s) == NoteR2Complete(s, "DKG_DONE")
OnRefreshR2Complete(s) ==
  IF mode = "R" THEN NoteR2Complete(s, "REFRESH_FINALIZE") ELSE Dropped

\* The packages are counted by message.  Those of the listed signers are then
\* compared, but a difference is only logged.
CountPub(s, pub) ==
  /\ entry' = [entry EXCEPT ![s].pub = pub]
  /\ count' = count + 1

\* pub_key_pkg.hex is written.  One that cannot be opened is left as it is, and
\* the result of writing is not looked at; the ceremony goes on all the same.
WritePub(pub) ==
  \/ pubFile' = pub /\ UNCHANGED faults
  \/ /\ CoordMayFail /\ faults < MaxFaults
     /\ pubFile' \in {pubFile, Torn} /\ faults' = faults + 1

\* Frame f is one after which it is written.
WritesPub(f) ==
  /\ count + 1 >= N
  /\ f.type = "PUB_KEY_PKG" \/ (f.type = "REFRESH_COMPLETE" /\ ~stored)

\* PUB_KEY_PKG: the N-th one is stored and written.
OnPubKeyPkg(s, f) ==
  /\ CountPub(s, f.pub)
  /\ IF WritesPub(f) THEN done' = TRUE /\ stored' = TRUE /\ WritePub(f.pub)
     ELSE UNCHANGED <<done, stored, pubFile, faults>>
  /\ UNCHANGED <<mode, dkgState, list, running, toS>>

\* Mutant: CONFIRMED goes out with every REFRESH_COMPLETE.
ConfirmsEach(s, f) ==
  /\ CountPub(s, f.pub)
  /\ stored' = TRUE /\ WritePub(f.pub) /\ done' = TRUE
  /\ toS' = Broadcast(toS, Notice("REFRESH_CONFIRMED"))
  /\ UNCHANGED <<mode, dkgState, list, running>>

\* REFRESH_COMPLETE: the N-th one is written, and CONFIRMED goes to all.
OnRefreshComplete(s, f) ==
  /\ CountPub(s, f.pub)
  /\ IF WritesPub(f) THEN WritePub(f.pub) ELSE UNCHANGED <<pubFile, faults>>
  /\ IF count' < N THEN UNCHANGED <<done, stored, toS>>
     ELSE /\ stored' = TRUE /\ done' = TRUE
          /\ toS' = Broadcast(toS, Notice("REFRESH_CONFIRMED"))
  /\ UNCHANGED <<mode, dkgState, list, running>>

\* SHARE_LOAD_FAIL has no effect outside SIGN mode.
OnShareLoadFail == Dropped

\* The connection is down: remove_signer.
OnClosed(s) ==
  /\ list' = Without(s)
  /\ toS' = [toS EXCEPT ![s] = <<>>]
  /\ UNCHANGED <<mode, dkgState, entry, count, done, stored, running, pubFile, faults>>

ProcessSignerFrame(s, f) ==
  \/ f.type = "ROUND1_PKG" /\ OnRound1Pkg(s, f)
  \/ f.type = "ROUND2_PKG" /\ OnRound2Pkg(f)
  \/ f.type = "R2_COMPLETE" /\ OnR2Complete(s)
  \/ f.type = "PUB_KEY_PKG" /\ OnPubKeyPkg(s, f)
  \/ f.type = "REFRESH_R1" /\ OnRefreshR1(s, f)
  \/ f.type = "REFRESH_R2" /\ OnRefreshR2(f)
  \/ f.type = "REFRESH_R2_COMPLETE" /\ OnRefreshR2Complete(s)
  \/ f.type = "REFRESH_COMPLETE" /\ OnRefreshComplete(s, f)
  \/ f.type = "SHARE_LOAD_FAIL" /\ OnShareLoadFail
  \/ f.type = "CLOSED" /\ OnClosed(s)

\* The top of the event loop: with the ceremony over and its queues drained,
\* every connection is closed and the process ends.
Exit ==
  /\ running /\ dkgState = "COMPLETE" /\ done
  /\ running' = FALSE
  /\ toS' = Broadcast(toS, Closed)
  /\ UNCHANGED <<mode, dkgState, list, entry, count, done, stored, pubFile>>
=============================================================================
