--------------------------- MODULE CeremonySigner ---------------------------
(***************************************************************************)
(* The signer process of frost_signer.c in a DKG or a share refresh: the   *)
(* handlers of process_coord_frame for the two ceremonies, the part of the *)
(* Rust core they call, and the key files.                                 *)
(*                                                                         *)
(* The cryptography is symbolic.  Each signer draws one secret polynomial  *)
(* per ceremony (with constant term zero in a refresh).  A key share is    *)
(* the sum of its values over all the polynomials that went into it, so it *)
(* is represented by that set: two shares can sign together exactly when   *)
(* the sets are equal.  The same holds for a PublicKeyPackage.             *)
(***************************************************************************)
EXTENDS FrostCommon

CONSTANTS MayCrash,   \* signers whose process may die at any time
          MayFail,    \* signers whose core runs and saves may fail
          MaxRuns,    \* bound on the runs of the coordinator
          MaxFaults   \* bound on the faults of all signers

ASSUME CeremonyAssumption ==
  /\ MayCrash \subseteq Signer /\ MayFail \subseteq Signer
  /\ MaxRuns \in Nat \ {0} /\ MaxFaults \in Nat

VARIABLES
  signer,    \* signer[s]: the globals of signer process s
  toC,       \* toC[s]: frames under way from s to the coordinator
  keyFile,   \* keyFile[s]: the KeyPackage in shares/signer_<s>.keypkg
  pubFile,   \* the PublicKeyPackage in pub_key_pkg.hex, shared by all
  run,       \* which run of the coordinator this is
  faults     \* number of crashes and failures so far

\* The polynomial drawn by signer `by' as its no-th, in the given run.
Poly == [by : Signer, run : 0..MaxRuns, no : Nat]
NoPoly == [by |-> 0, run |-> 0, no |-> 0]

\* A file that is not there, and one that fopen truncated and that was not, or
\* not wholly, written.  Neither yields a package: load_key_material refuses an
\* empty file, and the core a part of one.
Absent == {NoPoly}
Torn == {}

\* Mutant: the file is taken as it is.
ReadableUnchecked(file) == TRUE

Readable(file) == file \notin {Absent, Torn}

\* An empty package in memory (length 0).
NoPackage == {}

SignerRecord ==
  [up       : BOOLEAN,                    \* is the process running?
   drawn    : Nat,                        \* polynomials this signer ever drew
   secret1  : Poly \cup {NoPoly},         \* g_r1_secret, g_ref_r1_secret
   r1       : Seq([from : Signer, pkg : Poly]),  \* g_peer_r1, g_ref_peer_r1
   secret2  : Poly \cup {NoPoly},         \* g_r2_secret, g_ref_r2_secret
   r2       : Seq([from : 0..N, pkg : Poly \cup {NoPoly}]),  \* g_peer_r2, g_ref_peer_r2
   key      : SUBSET Poly,                \* g_key_pkg
   pub      : SUBSET Poly]                \* g_pub_key_pkg

FreshSigner(drawn) ==
  [up |-> TRUE, drawn |-> drawn, secret1 |-> NoPoly, r1 |-> <<>>,
   secret2 |-> NoPoly, r2 |-> <<>>, key |-> NoPackage, pub |-> NoPackage]

-----------------------------------------------------------------------------
(* Frames of the ceremonies.  A signature is what was signed and by whom.  *)

Signed(by, what) == [by |-> by, what |-> what]

\* ROUND1_PKG, REFRESH_R1, and what the coordinator makes of one it noted.
Round1(type, s, pkg)    == [type |-> type, pkg |-> pkg, sig |-> Signed(s, pkg)]
RelayedR1(type, s, r1)  == [type |-> type, from |-> s, pkg |-> r1.pkg, sig |-> r1.sig]

\* The round-2 package of s for d, encrypted to d and signed by s.
Sealed(s, d, pkg)  == [from |-> s, to |-> d, pkg |-> pkg]
Round2(type, box)  == [type |-> type, box |-> box, sig |-> Signed(box.from, box)]

Notice(type)       == [type |-> type]
PubKeyPkg(pub)     == [type |-> "PUB_KEY_PKG", pub |-> pub]
RefreshComplete(pub) == [type |-> "REFRESH_COMPLETE", pub |-> pub]

-----------------------------------------------------------------------------
(* The Rust core.                                                          *)

Senders(pkgs) == {pkgs[i].from : i \in DOMAIN pkgs}
Packages(pkgs) == {pkgs[i].pkg : i \in DOMAIN pkgs}

\* part2 wants the own round-1 secret and a package of each of the others.
Part2Accepts(s, r) ==
  r.secret1 # NoPoly /\ Senders(r.r1) = Signer \ {s}

\* part3 and refresh_shares want the round-2 secret and, from each of the
\* others, a round-2 package of the polynomial its round-1 package committed to.
Part3Accepts(s, r) ==
  /\ r.secret2 # NoPoly
  /\ Senders(r.r2) = Signer \ {s}
  /\ {r.r1[i] : i \in DOMAIN r.r1} = {r.r2[i] : i \in DOMAIN r.r2}

\* The polynomials of this ceremony, as s has seen it.
Contributions(r) == {r.secret2} \cup Packages(r.r1)

-----------------------------------------------------------------------------
(* Steps of a signer.                                                      *)

MayFailNow(s) == s \in MayFail /\ faults < MaxFaults

\* Did a run of the core go well?  A failure counts as a fault.
Outcome(s) == IF MayFailNow(s) THEN BOOLEAN ELSE {TRUE}
CountFault(ok) == faults' = IF ok THEN faults ELSE faults + 1

\* A handler returns, having queued the frames out.
Return(s, r, out) ==
  /\ signer' = [signer EXCEPT ![s] = r]
  /\ toC' = [toC EXCEPT ![s] = @ \o out]

KeepFiles == UNCHANGED <<keyFile, pubFile>>

\* The process ends; what it had not sent yet is lost.
Die(s) ==
  /\ signer' = [signer EXCEPT ![s] = [FreshSigner(@.drawn) EXCEPT !.up = FALSE]]
  /\ \E k \in 0..Len(toC[s]) :
       toC' = [toC EXCEPT ![s] = Append(SubSeq(@, 1, k), Closed)]

\* save_key_material, and the success it reports: a key file that cannot be
\* opened is an error.  Whether fprintf and fclose worked is not looked at, and
\* neither is the fopen of pub_key_pkg.hex: with a full disk the key file is
\* left torn, pub_key_pkg.hex torn or as it was, and the save counts as done.
SaveKeyMaterial(s, r, ok) ==
  \/ /\ ok
     /\ keyFile' = [keyFile EXCEPT ![s] = r.key] /\ pubFile' = r.pub
     /\ UNCHANGED faults
  \/ /\ ok /\ MayFailNow(s)
     /\ \E file \in {r.key, Torn} : keyFile' = [keyFile EXCEPT ![s] = file]
     /\ pubFile' \in {r.pub, pubFile, Torn}
     /\ faults' = faults + 1
  \/ /\ ~ok /\ MayFailNow(s)
     /\ KeepFiles
     /\ faults' = faults + 1

\* The process dies in save_key_material, between the fopen that truncates
\* the key file, or after that pub_key_pkg.hex, and the write.
DieSaving(s, r) ==
  /\ s \in MayCrash /\ faults < MaxFaults
  /\ faults' = faults + 1
  /\ Die(s)
  /\ \/ keyFile' = [keyFile EXCEPT ![s] = Torn] /\ UNCHANGED pubFile
     \/ keyFile' = [keyFile EXCEPT ![s] = r.key] /\ pubFile' = Torn

-----------------------------------------------------------------------------
(* process_coord_frame.                                                    *)

\* HELLO_ACK: in REFRESH mode the key material is loaded.
OnHelloAck(s, mode) ==
  LET pub == IF Readable(pubFile) THEN pubFile ELSE NoPackage
  IN  /\ IF mode # "R" THEN Return(s, signer[s], <<>>)
         ELSE IF Readable(keyFile[s])
         THEN Return(s, [signer[s] EXCEPT !.key = keyFile[s], !.pub = pub], <<>>)
         ELSE Return(s, signer[s], <<ShareLoadFail>>)
      /\ KeepFiles /\ UNCHANGED faults

\* START_DKG, START_REFRESH: part 1 draws the polynomial.
Start(s, type) ==
  \E ok \in Outcome(s) :
    LET no == signer[s].drawn + 1
        p  == [by |-> s, run |-> run, no |-> no]
    IN  /\ IF ok THEN Return(s, [signer[s] EXCEPT !.secret1 = p, !.drawn = no],
                             <<Round1(type, s, p)>>)
           ELSE Return(s, signer[s], <<>>)
        /\ CountFault(ok) /\ KeepFiles

OnStartDkg(s) == Start(s, "ROUND1_PKG")
OnStartRefresh(s) == Start(s, "REFRESH_R1")

\* Part 2's packages, one for each of the others in the order of their ids.
Round2Frames(s, r, type) ==
  [i \in 1..(N - 1) |->
     Round2(type, Sealed(s, IF i < s THEN i ELSE i + 1, r.secret1))]

\* RELAY_R1, RELAY_REFRESH_R1: collect the packages, by number; the last one
\* triggers part 2, whose packages are sent, followed by the frames `then'.
CollectR1(s, f, type, then) ==
  LET r == [signer[s] EXCEPT !.r1 = Append(@, [from |-> f.from, pkg |-> f.pkg])]
  IN  /\ IF f.sig # Signed(f.from, f.pkg)
           THEN Return(s, signer[s], <<>>) /\ UNCHANGED faults
         ELSE IF Len(r.r1) < N - 1 THEN Return(s, r, <<>>) /\ UNCHANGED faults
         ELSE \E ok \in Outcome(s) :
                /\ IF ok /\ Part2Accepts(s, r)
                     THEN Return(s, [r EXCEPT !.secret2 = r.secret1],
                                 Round2Frames(s, r, type) \o then)
                     ELSE Return(s, r, <<>>)
                /\ CountFault(ok)
      /\ KeepFiles

OnRelayR1(s, f) == CollectR1(s, f, "ROUND2_PKG", <<>>)
OnRelayRefreshR1(s, f) ==
  CollectR1(s, f, "REFRESH_R2", <<Notice("REFRESH_R2_COMPLETE")>>)

\* A round-2 package whose signature verifies takes the next slot, even when
\* it does not decrypt and the slot stays empty.
Verifies(f) == f.sig = Signed(f.box.from, f.box)
Opens(s, f) == Verifies(f) /\ f.box.to = s

WithR2(s, f) ==
  LET slot == IF Opens(s, f) THEN [from |-> f.box.from, pkg |-> f.box.pkg]
              ELSE [from |-> 0, pkg |-> NoPoly]
  IN  IF Verifies(f) THEN [signer[s] EXCEPT !.r2 = Append(@, slot)] ELSE signer[s]

\* RELAY_R2: the last package triggers part 3.  R2_COMPLETE is queued before
\* the share is saved, but leaves only after the handler; whether saving worked
\* is not looked at.
OnRelayR2(s, f) ==
  LET r   == WithR2(s, f)
      new == [r EXCEPT !.key = Contributions(r), !.pub = Contributions(r)]
  IN  IF ~Opens(s, f) \/ Len(r.r2) < N - 1
        THEN Return(s, r, <<>>) /\ KeepFiles /\ UNCHANGED faults
      ELSE \/ \E ok \in Outcome(s) :
                /\ ~(ok /\ Part3Accepts(s, r))
                /\ Return(s, r, <<>>) /\ KeepFiles /\ CountFault(ok)
           \/ /\ Part3Accepts(s, r)
              /\ \/ /\ Return(s, new, <<Notice("R2_COMPLETE"), PubKeyPkg(new.pub)>>)
                    /\ \E ok \in BOOLEAN : SaveKeyMaterial(s, new, ok)
                 \/ DieSaving(s, new)

\* RELAY_REFRESH_R2: only collected.
OnRelayRefreshR2(s, f) ==
  /\ Return(s, WithR2(s, f), <<>>)
  /\ KeepFiles /\ UNCHANGED faults

\* REFRESH_FINALIZE: the old share and the contributions make the new one,
\* which replaces the old in memory and then on disk.
OnRefreshFinalize(s) ==
  LET r   == signer[s]
      can == Len(r.r2) = N - 1 /\ Part3Accepts(s, r)
               /\ r.key # NoPackage /\ r.pub # NoPackage
      new == [r EXCEPT !.key = @ \cup Contributions(r), !.pub = @ \cup Contributions(r)]
  IN  \/ \E ok \in Outcome(s) :
           /\ ~(ok /\ can)
           /\ Return(s, r, <<>>) /\ KeepFiles /\ CountFault(ok)
      \/ /\ can
         /\ \/ \E ok \in BOOLEAN :
                 /\ Return(s, new, IF ok THEN <<RefreshComplete(new.pub)>> ELSE <<>>)
                 /\ SaveKeyMaterial(s, new, ok)
            \/ DieSaving(s, new)

\* DKG_DONE and REFRESH_CONFIRMED are only reported to the user.
OnAnnouncement(s) == Return(s, signer[s], <<>>) /\ KeepFiles /\ UNCHANGED faults

\* The coordinator has closed the connection: the event loop ends.
OnCoordClosed(s) ==
  /\ signer' = [signer EXCEPT ![s] = [FreshSigner(@.drawn) EXCEPT !.up = FALSE]]
  /\ UNCHANGED toC /\ KeepFiles /\ UNCHANGED faults

ProcessCoordFrame(s, f) ==
  \/ f.type = "HELLO_ACK" /\ OnHelloAck(s, f.mode)
  \/ f.type = "START_DKG" /\ OnStartDkg(s)
  \/ f.type = "RELAY_R1" /\ OnRelayR1(s, f)
  \/ f.type = "RELAY_R2" /\ OnRelayR2(s, f)
  \/ f.type = "START_REFRESH" /\ OnStartRefresh(s)
  \/ f.type = "RELAY_REFRESH_R1" /\ OnRelayRefreshR1(s, f)
  \/ f.type = "RELAY_REFRESH_R2" /\ OnRelayRefreshR2(s, f)
  \/ f.type = "REFRESH_FINALIZE" /\ OnRefreshFinalize(s)
  \/ f.type \in {"DKG_DONE", "REFRESH_CONFIRMED"} /\ OnAnnouncement(s)
  \/ f.type = "CLOSED" /\ OnCoordClosed(s)
=============================================================================
