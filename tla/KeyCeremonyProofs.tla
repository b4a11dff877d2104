------------------------- MODULE KeyCeremonyProofs -------------------------
(***************************************************************************)
(* Proofs about the key ceremonies, for every group, threshold, fault,     *)
(* number of runs and order of arrival: the shares on disk belong          *)
(* together.                                                               *)
(*                                                                         *)
(* The reason is that START reaches a process at most once in a run, and   *)
(* that a process which comes back is not started again: so each signer    *)
(* has one polynomial in a run, and whatever of the run is in memory,      *)
(* under way or on disk was made with those.                               *)
(***************************************************************************)
EXTENDS KeyCeremony, TLAPS, FiniteSetTheorems

-----------------------------------------------------------------------------
(* The frames under way.                                                   *)

Sig    == [by : 0..N, what : Poly \cup {NoPoly}]
Box    == [from : Signer, to : Signer, pkg : Poly]
BoxSig == [by : Signer, what : Box]

UpFrame ==
  [type : {"ROUND1_PKG", "REFRESH_R1"}, pkg : Poly, sig : Sig]
  \cup [type : {"ROUND2_PKG", "REFRESH_R2"}, box : Box, sig : BoxSig]
  \cup [type : {"PUB_KEY_PKG", "REFRESH_COMPLETE"}, pub : SUBSET Poly]
  \cup [type : {"R2_COMPLETE", "REFRESH_R2_COMPLETE", "SHARE_LOAD_FAIL", "CLOSED"}]

DownFrame ==
  [type : {"HELLO_ACK"}, mode : {"D", "R"}]
  \cup [type : {"START_DKG", "START_REFRESH"}, t : {T}]
  \cup [type : {"RELAY_R1", "RELAY_REFRESH_R1"}, from : Signer,
        pkg : Poly \cup {NoPoly}, sig : Sig]
  \cup [type : {"RELAY_R2", "RELAY_REFRESH_R2"}, box : Box, sig : BoxSig]
  \cup [type : {"DKG_DONE", "REFRESH_FINALIZE", "REFRESH_CONFIRMED", "CLOSED"}]

IsStart(f) == f.type \in {"START_DKG", "START_REFRESH"}

-----------------------------------------------------------------------------
(* The polynomials of a run.                                               *)

\* START is on its way to s.
Pending(s) == \E i \in DOMAIN toS[s] : IsStart(toS[s][i])

\* Whether or not s has handled START, it will not handle another.
Begun(s) == dkgState # "IDLE" /\ ~Pending(s)

\* The polynomials of this run that stand.
Fixed == {[by |-> s, run |-> run, no |-> signer[s].drawn] : s \in {d \in Signer : Begun(d)}}

\* What is in the memory, the streams, the entry and the file of signer s, in
\* run n, when P are the polynomials that stand.
UpFits(s, f, P) ==
  f.type \in {"ROUND1_PKG", "REFRESH_R1"} =>
    f.pkg \in P /\ f.pkg.by = s /\ f.sig = Signed(s, f.pkg)

DownFits(f, P) ==
  f.type \in {"RELAY_R1", "RELAY_REFRESH_R1"} /\ f.sig = Signed(f.from, f.pkg) =>
    f.pkg \in P /\ f.pkg.by = f.from

UpOK(s, up, P) ==
  up \in Seq(UpFrame) /\ \A i \in DOMAIN up : UpFits(s, up[i], P)

DownOK(dn, P) ==
  dn \in Seq(DownFrame) /\ \A i \in DOMAIN dn : DownFits(dn[i], P)

EntryRecord ==
  [r1 : [pkg : Poly \cup {NoPoly}, sig : Sig], r2Complete : BOOLEAN, pub : SUBSET Poly]

EntryFits(s, e, P) == e.r1 # NoR1 => e.r1.pkg \in P /\ e.r1.pkg.by = s

\* A share holds the polynomials of every signer in a run, or of none.
ShareFits(x, P, n) ==
  /\ x \subseteq Poly
  /\ \A p \in x : p.run <= n /\ (p.run = n => p \in P)
  /\ \A p \in x : \A d \in Signer : \E q \in x : q.run = p.run /\ q.by = d

FileFits(x, P, n) == x = Absent \/ ShareFits(x, P, n)

SignerFits(s, r, P, n) ==
  /\ r.secret1 # NoPoly => r.secret1 \in P /\ r.secret1.by = s
  /\ r.secret2 \in {NoPoly, r.secret1}
  /\ \A i \in DOMAIN r.r1 : r.r1[i].pkg \in P /\ r.r1[i].pkg.by = r.r1[i].from
  /\ ShareFits(r.key, P, n)
  /\ ~r.up => r = Down(r.drawn)

\* START is sent once.
StartOnce(s) ==
  \A i, j \in DOMAIN toS[s] :
    IsStart(toS[s][i]) /\ IsStart(toS[s][j]) => dkgState # "IDLE" /\ i = j

\* The polynomials a process or its file holds.
Held(s) == signer[s].key \cup (keyFile[s] \ {NoPoly})

Agree ==
  \A s, d \in Signer : \A p \in Held(s), q \in Held(d) :
    p.by = q.by /\ p.run = q.run => p = q

StateOK ==
  /\ list \in Seq(Signer) /\ \A i, j \in DOMAIN list : list[i] = list[j] => i = j
  /\ mode \in Modes /\ dkgState \in {"IDLE", "R1", "R2", "COMPLETE"}
  /\ run \in 1..MaxRuns /\ count \in Nat
  /\ done \in BOOLEAN /\ stored \in BOOLEAN /\ running \in BOOLEAN /\ disturbed \in BOOLEAN
  /\ pubFile = Absent \/ pubFile \in SUBSET Poly

TablesOK ==
  /\ signer \in [Signer -> SignerRecord]
  /\ toC \in [Signer -> Seq(UpFrame)]
  /\ toS \in [Signer -> Seq(DownFrame)]
  /\ entry \in [Signer -> EntryRecord]
  /\ keyFile \in [Signer -> SUBSET (Poly \cup {NoPoly})]

Connection(s) ==
  /\ SignerFits(s, signer[s], Fixed, run)
  /\ UpOK(s, toC[s], Fixed)
  /\ DownOK(toS[s], Fixed)
  /\ EntryFits(s, entry[s], Fixed)
  /\ FileFits(keyFile[s], Fixed, run)
  /\ StartOnce(s)

SharingInv ==
  /\ StateOK
  /\ TablesOK
  /\ \A s \in Signer : Connection(s)
  /\ Agree

-----------------------------------------------------------------------------
(* The facts that follow from the shape of the data.                       *)

LEMMA PolyFacts ==
  /\ NoPoly \notin Poly
  /\ \A p \in Poly : p.by \in Signer /\ p.run \in 0..MaxRuns /\ p.no \in Nat
  /\ \A x \in SUBSET Poly : x # Absent
  /\ MaxRuns \in Nat \ {0} /\ N \in Nat /\ N >= 2 /\ Signer = 1..N
  <1>1. MaxRuns \in Nat \ {0} /\ N \in Nat /\ N >= 2 /\ Signer = 1..N
    BY GroupAssumption, CeremonyAssumption DEF Signer
  <1>2. \A p \in Poly : p.by \in Signer /\ p.run \in 0..MaxRuns /\ p.no \in Nat
    BY DEF Poly
  <1>3. NoPoly.by = 0 /\ 0 \notin Signer
    BY <1>1 DEF NoPoly
  <1>4. NoPoly \notin Poly
    BY <1>2, <1>3
  <1>5. ASSUME NEW x \in SUBSET Poly PROVE x # Absent
    BY <1>4 DEF Absent
  <1> QED
    BY <1>1, <1>2, <1>4, <1>5

LEMMA UpFrameFacts ==
  ASSUME NEW f \in UpFrame
  PROVE  /\ f.type \in {"ROUND1_PKG", "REFRESH_R1"} => f.pkg \in Poly /\ f.sig \in Sig
         /\ f.type \in {"ROUND2_PKG", "REFRESH_R2"} => f.box \in Box /\ f.sig \in BoxSig
         /\ f.type \in {"PUB_KEY_PKG", "REFRESH_COMPLETE"} => f.pub \in SUBSET Poly
  BY DEF UpFrame

LEMMA DownFrameFacts ==
  ASSUME NEW f \in DownFrame
  PROVE  /\ f.type = "HELLO_ACK" => f.mode \in {"D", "R"}
         /\ f.type \in {"RELAY_R1", "RELAY_REFRESH_R1"} =>
              f.from \in Signer /\ f.pkg \in Poly \cup {NoPoly} /\ f.sig \in Sig
         /\ f.type \in {"RELAY_R2", "RELAY_REFRESH_R2"} => f.box \in Box /\ f.sig \in BoxSig
  BY DEF DownFrame

LEMMA FixedFacts ==
  ASSUME StateOK, TablesOK
  PROVE  /\ Fixed \subseteq Poly
         /\ \A p \in Fixed : p.run = run /\ p.by \in Signer
         /\ \A p, q \in Fixed : p.by = q.by => p = q
  <1>1. /\ \A s \in Signer : signer[s].drawn \in Nat
        /\ run \in 0..MaxRuns
    BY PolyFacts DEF StateOK, TablesOK, SignerRecord
  <1> QED
    BY <1>1 DEF Fixed, Poly

LEMMA ShareMono ==
  ASSUME NEW P, NEW Q, P \subseteq Q, NEW n, NEW x, ShareFits(x, P, n)
  PROVE  ShareFits(x, Q, n)
  BY DEF ShareFits

LEMMA ShareUnion ==
  ASSUME NEW P, NEW n, NEW x, NEW y, ShareFits(x, P, n), ShareFits(y, P, n)
  PROVE  ShareFits(x \cup y, P, n)
  BY DEF ShareFits

LEMMA ShareEmpty ==
  ASSUME NEW P, NEW n PROVE ShareFits({}, P, n)
  BY DEF ShareFits

LEMMA SignerMono ==
  ASSUME NEW P, NEW Q, P \subseteq Q, NEW n, NEW s, NEW r, SignerFits(s, r, P, n)
  PROVE  SignerFits(s, r, Q, n)
  BY ShareMono DEF SignerFits

LEMMA FileMono ==
  ASSUME NEW P, NEW Q, P \subseteq Q, NEW n, NEW x, FileFits(x, P, n)
  PROVE  FileFits(x, Q, n)
  BY ShareMono DEF FileFits

LEMMA EntryMono ==
  ASSUME NEW P, NEW Q, P \subseteq Q, NEW s, NEW e, EntryFits(s, e, P)
  PROVE  EntryFits(s, e, Q)
  BY DEF EntryFits

LEMMA UpMono ==
  ASSUME NEW P, NEW Q, P \subseteq Q, NEW s, NEW up, UpOK(s, up, P)
  PROVE  UpOK(s, up, Q)
  BY DEF UpOK, UpFits

LEMMA DownMono ==
  ASSUME NEW P, NEW Q, P \subseteq Q, NEW dn, DownOK(dn, P)
  PROVE  DownOK(dn, Q)
  BY DEF DownOK, DownFits

-----------------------------------------------------------------------------
(* Streams.                                                                *)

LEMMA UpTail ==
  ASSUME NEW s, NEW P, NEW up, UpOK(s, up, P), up # <<>>
  PROVE  UpOK(s, Tail(up), P) /\ Head(up) \in UpFrame /\ UpFits(s, Head(up), P)
  BY DEF UpOK

LEMMA UpConcat ==
  ASSUME NEW s, NEW P, NEW up, UpOK(s, up, P), NEW out, UpOK(s, out, P)
  PROVE  UpOK(s, up \o out, P)
  BY DEF UpOK

LEMMA UpClosed ==
  ASSUME NEW s, NEW P, NEW up, UpOK(s, up, P), NEW k \in 0..Len(up)
  PROVE  UpOK(s, Append(SubSeq(up, 1, k), Closed), P)
  <1>1. Closed \in UpFrame /\ UpFits(s, Closed, P)
    BY DEF UpFrame, UpFits, Closed
  <1> QED
    BY <1>1 DEF UpOK

LEMMA DownTail ==
  ASSUME NEW P, NEW dn, DownOK(dn, P), dn # <<>>
  PROVE  DownOK(Tail(dn), P) /\ Head(dn) \in DownFrame /\ DownFits(Head(dn), P)
  BY DEF DownOK

LEMMA DownAppend ==
  ASSUME NEW P, NEW dn, DownOK(dn, P), NEW f \in DownFrame, DownFits(f, P)
  PROVE  DownOK(Append(dn, f), P)
  BY DEF DownOK

LEMMA DownConcat ==
  ASSUME NEW P, NEW dn, DownOK(dn, P), NEW out, DownOK(out, P)
  PROVE  DownOK(dn \o out, P)
  BY DEF DownOK

LEMMA DownClosed ==
  ASSUME NEW P, NEW dn, DownOK(dn, P), NEW k \in 0..Len(dn)
  PROVE  DownOK(Append(SubSeq(dn, 1, k), Closed), P)
  <1>1. Closed \in DownFrame /\ DownFits(Closed, P)
    BY DEF DownFrame, DownFits, Closed
  <1> QED
    BY <1>1 DEF DownOK

LEMMA NoFrames ==
  ASSUME NEW s, NEW P PROVE UpOK(s, <<>>, P) /\ DownOK(<<>>, P)
  BY DEF UpOK, DownOK

-----------------------------------------------------------------------------
(* What a step within a run has to preserve.                               *)

LEMMA FixedFactsNext ==
  ASSUME StateOK', TablesOK'
  PROVE  /\ Fixed' \subseteq Poly
         /\ \A p \in Fixed' : p.run = run' /\ p.by \in Signer
         /\ \A p, q \in Fixed' : p.by = q.by => p = q
  <1>1. /\ \A s \in Signer : signer'[s].drawn \in Nat
        /\ run' \in 0..MaxRuns
    BY PolyFacts DEF StateOK, TablesOK, SignerRecord
  <1> QED
    BY <1>1 DEF Fixed, Poly

\* What stands goes on to stand.
LEMMA FixedGrows ==
  ASSUME run' = run,
         dkgState # "IDLE" => dkgState' # "IDLE",
         \A s \in Signer : Begun(s) => ~Pending(s)' /\ signer'[s].drawn = signer[s].drawn
  PROVE  Fixed \subseteq Fixed'
  BY DEF Fixed, Begun

\* Whatever a signer takes up besides what is on disk is of this run.
LEMMA AgreeStep ==
  ASSUME Agree, StateOK', TablesOK', \A s \in Signer : Connection(s)',
         \A s \in Signer : Held(s)' \subseteq Held(s) \cup Fixed'
  PROVE  Agree'
  <1>1. ASSUME NEW s \in Signer, NEW q \in Held(s)', q.run = run'
        PROVE  q \in Fixed'
    <2>1. ShareFits(signer'[s].key, Fixed', run') /\ FileFits(keyFile'[s], Fixed', run')
      BY DEF Connection, SignerFits
    <2>2. q \in signer'[s].key \/ (q \in keyFile'[s] /\ q # NoPoly)
      BY <1>1 DEF Held
    <2> QED
      BY <1>1, <2>1, <2>2 DEF ShareFits, FileFits, Absent
  <1> SUFFICES ASSUME NEW s \in Signer, NEW d \in Signer,
                      NEW p \in Held(s)', NEW q \in Held(d)',
                      p.by = q.by, p.run = q.run
               PROVE  p = q
    BY DEF Agree
  <1>2. CASE p \in Fixed' \/ q \in Fixed'
    <2>1. p.run = run'
      BY <1>2, FixedFactsNext
    <2>2. p \in Fixed' /\ q \in Fixed'
      BY <1>1, <2>1
    <2> QED
      BY <2>2, FixedFactsNext
  <1>3. CASE p \in Held(s) /\ q \in Held(d)
    BY <1>3 DEF Agree
  <1> QED
    BY <1>2, <1>3

\* A step of the coordinator leaves processes and key files alone.
LEMMA CoordinatorKeeps ==
  ASSUME SharingInv, UNCHANGED <<signer, keyFile, run>>,
         dkgState # "IDLE" => dkgState' # "IDLE",
         \A s \in Signer : Begun(s) => ~Pending(s)',
         StateOK', TablesOK',
         \A s \in Signer : /\ UpOK(s, toC'[s], Fixed') /\ DownOK(toS'[s], Fixed')
                           /\ EntryFits(s, entry'[s], Fixed') /\ StartOnce(s)'
  PROVE  SharingInv'
  <1>1. Fixed \subseteq Fixed'
    BY FixedGrows
  <1>2. PICK P, Q : P = Fixed /\ Q = Fixed'
    OBVIOUS
  <1>3. ASSUME NEW s \in Signer PROVE Connection(s)'
    <2>1. SignerFits(s, signer[s], P, run) /\ FileFits(keyFile[s], P, run)
      BY <1>2 DEF SharingInv, Connection
    <2>2. PICK r, x, n : r = signer[s] /\ x = keyFile[s] /\ n = run
      OBVIOUS
    <2>3. SignerFits(s, r, Q, n) /\ FileFits(x, Q, n)
      BY <1>1, <1>2, <2>1, <2>2, SignerMono, FileMono
    <2> QED
      BY <1>2, <2>2, <2>3 DEF Connection
  <1>4. \A s \in Signer : Held(s)' = Held(s)
    BY DEF Held
  <1>5. Agree'
    BY <1>3, <1>4, AgreeStep DEF SharingInv
  <1> QED
    BY <1>3, <1>5 DEF SharingInv

-----------------------------------------------------------------------------
(* Steps of the coordinator.                                               *)

\* Stream x has no START that dn did not have.
Kept(dn, x) ==
  \A i \in DOMAIN x : IsStart(x[i]) => i \in DOMAIN dn /\ x[i] = dn[i]

LEMMA KeptConcat ==
  ASSUME NEW dn \in Seq(DownFrame), NEW out \in Seq(DownFrame),
         \A i \in DOMAIN out : ~IsStart(out[i])
  PROVE  Kept(dn, dn \o out)
  <1> SUFFICES ASSUME NEW i \in DOMAIN (dn \o out), IsStart((dn \o out)[i])
               PROVE  i \in DOMAIN dn /\ (dn \o out)[i] = dn[i]
    BY DEF Kept
  <1>1. CASE i <= Len(dn)
    BY <1>1
  <1>2. CASE ~(i <= Len(dn))
    <2>1. (dn \o out)[i] = out[i - Len(dn)] /\ i - Len(dn) \in DOMAIN out
      BY <1>2
    <2> QED
      BY <2>1
  <1> QED
    BY <1>1, <1>2

LEMMA KeptAppend ==
  ASSUME NEW dn \in Seq(DownFrame), NEW f \in DownFrame, ~IsStart(f)
  PROVE  Kept(dn, Append(dn, f))
  BY DEF Kept

LEMMA KeptClosed ==
  ASSUME NEW dn \in Seq(DownFrame), NEW k \in 0..Len(dn)
  PROVE  Kept(dn, Append(SubSeq(dn, 1, k), Closed))
  BY DEF Kept, IsStart, Closed

LEMMA KeptSame ==
  ASSUME NEW dn PROVE Kept(dn, dn) /\ Kept(dn, <<>>)
  BY DEF Kept

LEMMA StartKept ==
  ASSUME NEW s \in Signer, Kept(toS[s], toS'[s]), StartOnce(s),
         dkgState # "IDLE" => dkgState' # "IDLE"
  PROVE  StartOnce(s)' /\ (Pending(s)' => Pending(s))
  BY DEF Kept, StartOnce, Pending

LEMMA CoordinatorSends ==
  ASSUME SharingInv, UNCHANGED <<signer, keyFile, run>>,
         dkgState # "IDLE" => dkgState' # "IDLE",
         StateOK', entry' \in [Signer -> EntryRecord],
         DOMAIN toC' = Signer, DOMAIN toS' = Signer,
         toC' = [s \in Signer |-> toC'[s]], toS' = [s \in Signer |-> toS'[s]],
         \A s \in Signer : /\ UpOK(s, toC'[s], Fixed)
                           /\ DownOK(toS'[s], Fixed) /\ Kept(toS[s], toS'[s])
                           /\ EntryFits(s, entry'[s], Fixed)
  PROVE  SharingInv'
  <1>1. TablesOK'
    <2>1. /\ \A s \in Signer : toC'[s] \in Seq(UpFrame) /\ toS'[s] \in Seq(DownFrame)
      BY DEF UpOK, DownOK
    <2>2. toC' \in [Signer -> Seq(UpFrame)] /\ toS' \in [Signer -> Seq(DownFrame)]
      BY <2>1, Zenon
    <2> QED
      BY <2>2 DEF SharingInv, TablesOK
  <1>2. \A s \in Signer : StartOnce(s)' /\ (Pending(s)' => Pending(s))
    BY StartKept DEF SharingInv, Connection
  <1>3. \A s \in Signer : Begun(s) => ~Pending(s)'
    BY <1>2 DEF Begun
  <1>4. Fixed \subseteq Fixed'
    BY <1>3, FixedGrows
  <1>5. PICK P, Q : P = Fixed /\ Q = Fixed'
    OBVIOUS
  <1>6. ASSUME NEW s \in Signer
        PROVE  UpOK(s, toC'[s], Q) /\ DownOK(toS'[s], Q) /\ EntryFits(s, entry'[s], Q)
    <2>1. PICK up, dn, e : up = toC'[s] /\ dn = toS'[s] /\ e = entry'[s]
      OBVIOUS
    <2>2. UpOK(s, up, P) /\ DownOK(dn, P) /\ EntryFits(s, e, P)
      BY <1>5, <2>1
    <2>3. UpOK(s, up, Q) /\ DownOK(dn, Q) /\ EntryFits(s, e, Q)
      BY <1>4, <1>5, <2>2, UpMono, DownMono, EntryMono
    <2> QED
      BY <2>1, <2>3
  <1> QED
    BY <1>1, <1>2, <1>3, <1>5, <1>6, CoordinatorKeeps

\* What holds whatever handler takes the next frame of s.
Handling ==
  /\ UNCHANGED <<signer, keyFile, run>>
  /\ disturbed' \in BOOLEAN
  /\ toC' \in [Signer -> Seq(UpFrame)]
  /\ \A d \in Signer : UpOK(d, toC'[d], Fixed)

LEMMA PopUp ==
  ASSUME SharingInv, NEW s \in Signer, toC[s] # <<>>, toC' = [toC EXCEPT ![s] = Tail(@)],
         UNCHANGED <<signer, keyFile, run>>, Note
  PROVE  /\ Handling
         /\ Head(toC[s]) \in UpFrame /\ UpFits(s, Head(toC[s]), Fixed)
  <1>1. toC \in [Signer -> Seq(UpFrame)] /\ \A d \in Signer : UpOK(d, toC[d], Fixed)
    BY DEF SharingInv, TablesOK, Connection
  <1>2. disturbed' \in BOOLEAN
    BY Zenon DEF Note
  <1>3. PICK P, up : P = Fixed /\ up = toC[s]
    OBVIOUS
  <1>4. UpOK(s, Tail(up), P) /\ Head(up) \in UpFrame /\ UpFits(s, Head(up), P)
    BY <1>1, <1>3, UpTail
  <1>5. Tail(up) \in Seq(UpFrame)
    BY <1>4 DEF UpOK
  <1>6. toC' \in [Signer -> Seq(UpFrame)]
    BY <1>1, <1>3, <1>5
  <1>7. \A d \in Signer : toC'[d] = IF d = s THEN Tail(up) ELSE toC[d]
    BY <1>1, <1>3
  <1> QED
    BY <1>1, <1>2, <1>3, <1>4, <1>6, <1>7 DEF Handling

\* To every listed signer, frame f.
LEMMA BroadcastFits ==
  ASSUME SharingInv, NEW f \in DownFrame, DownFits(f, Fixed), ~IsStart(f),
         toS' = Broadcast(toS, f)
  PROVE  /\ toS' = [s \in Signer |-> toS'[s]]
         /\ \A s \in Signer : DownOK(toS'[s], Fixed) /\ Kept(toS[s], toS'[s])
  <1>1. toS' = [s \in Signer |-> toS'[s]]
    BY DEF Broadcast
  <1>2. ASSUME NEW s \in Signer PROVE DownOK(toS'[s], Fixed) /\ Kept(toS[s], toS'[s])
    <2>1. PICK P, dn : P = Fixed /\ dn = toS[s]
      OBVIOUS
    <2>2. DownOK(dn, P) /\ dn \in Seq(DownFrame)
      BY <2>1 DEF SharingInv, Connection, DownOK
    <2>3. DownOK(Append(dn, f), P) /\ Kept(dn, Append(dn, f)) /\ Kept(dn, dn)
      BY <2>1, <2>2, DownAppend, KeptAppend, KeptSame
    <2>4. toS'[s] = Append(dn, f) \/ toS'[s] = dn
      BY <2>1 DEF Broadcast
    <2> QED
      BY <2>1, <2>2, <2>3, <2>4
  <1> QED
    BY <1>1, <1>2

LEMMA SameStreams ==
  ASSUME SharingInv, toS' = toS
  PROVE  /\ toS' = [s \in Signer |-> toS'[s]]
         /\ \A s \in Signer : DownOK(toS'[s], Fixed) /\ Kept(toS[s], toS'[s])
  <1>1. toS' = [s \in Signer |-> toS'[s]]
    BY DEF SharingInv, TablesOK
  <1>2. \A s \in Signer : DownOK(toS[s], Fixed) /\ Kept(toS[s], toS[s])
    BY KeptSame DEF SharingInv, Connection
  <1> QED
    BY <1>1, <1>2

\* A handler that changes no entry, or one field of one.
LEMMA EntriesFit ==
  ASSUME SharingInv, NEW s \in Signer, NEW e \in EntryRecord, EntryFits(s, e, Fixed),
         entry' = entry \/ entry' = [entry EXCEPT ![s] = e]
  PROVE  /\ entry' \in [Signer -> EntryRecord]
         /\ \A d \in Signer : EntryFits(d, entry'[d], Fixed)
  <1>1. entry \in [Signer -> EntryRecord] /\ \A d \in Signer : EntryFits(d, entry[d], Fixed)
    BY DEF SharingInv, TablesOK, Connection
  <1>2. CASE entry' = entry
    BY <1>1, <1>2
  <1>3. CASE entry' = [entry EXCEPT ![s] = e]
    <2>1. entry' \in [Signer -> EntryRecord]
      BY <1>1, <1>3
    <2>2. \A d \in Signer : entry'[d] = IF d = s THEN e ELSE entry[d]
      BY <1>1, <1>3
    <2> QED
      BY <1>1, <2>1, <2>2
  <1> QED
    BY <1>2, <1>3

\* Handlers that send what does not depend on the polynomials.
LEMMA HandledSharing ==
  ASSUME SharingInv, Handling, StateOK',
         dkgState # "IDLE" => dkgState' # "IDLE",
         entry' \in [Signer -> EntryRecord],
         \A d \in Signer : EntryFits(d, entry'[d], Fixed),
         toS' = [s \in Signer |-> toS'[s]],
         \A s \in Signer : DownOK(toS'[s], Fixed) /\ Kept(toS[s], toS'[s])
  PROVE  SharingInv'
  <1>1. /\ UNCHANGED <<signer, keyFile, run>>
        /\ \A d \in Signer : UpOK(d, toC'[d], Fixed)
        /\ DOMAIN toC' = Signer /\ toC' = [s \in Signer |-> toC'[s]]
    BY DEF Handling
  <1>2. DOMAIN toS' = Signer
    BY Zenon
  <1> QED
    BY <1>1, <1>2, CoordinatorSends

LEMMA DroppedSharing ==
  ASSUME SharingInv, Handling, Dropped
  PROVE  SharingInv'
  <1>1. /\ entry' \in [Signer -> EntryRecord]
        /\ \A d \in Signer : EntryFits(d, entry'[d], Fixed)
    BY DEF SharingInv, TablesOK, Connection, Dropped, coordVars
  <1>2. StateOK'
    BY DEF SharingInv, StateOK, Dropped, coordVars, Handling
  <1>3. dkgState' = dkgState /\ toS' = toS
    BY DEF Dropped, coordVars
  <1> QED
    BY <1>1, <1>2, <1>3, SameStreams, HandledSharing

\* The list without one signer.
LEMMA WithoutList ==
  ASSUME StateOK, NEW s \in Listed
  PROVE  /\ Without(s) \in Seq(Signer) /\ Len(Without(s)) = Len(list) - 1
         /\ \A i, j \in DOMAIN Without(s) : Without(s)[i] = Without(s)[j] => i = j
         /\ {Without(s)[i] : i \in DOMAIN Without(s)} = Listed \ {s}
  <1>1. list \in Seq(Signer) /\ \A i, j \in DOMAIN list : list[i] = list[j] => i = j
    BY DEF StateOK
  <1> DEFINE k == CHOOSE i \in DOMAIN list : list[i] = s
             w == [i \in 1..(Len(list) - 1) |-> list[IF i < k THEN i ELSE i + 1]]
  <1>2. k \in DOMAIN list /\ list[k] = s
    BY DEF Listed
  <1>3. Without(s) = w
    BY DEF Without
  <1>4. /\ Len(list) \in Nat \ {0} /\ DOMAIN list = 1..Len(list)
        /\ \A i \in DOMAIN list : list[i] \in Signer
    BY <1>1, <1>2
  <1> HIDE DEF k
  <1>5. w \in Seq(Signer) /\ Len(w) = Len(list) - 1 /\ DOMAIN w = 1..(Len(list) - 1)
    BY <1>1, <1>2, <1>4
  <1>6. ASSUME NEW i \in DOMAIN w, NEW j \in DOMAIN w, w[i] = w[j] PROVE i = j
    <2>1. PICK a \in DOMAIN list, b \in DOMAIN list :
            /\ w[i] = list[a] /\ a = IF i < k THEN i ELSE i + 1
            /\ w[j] = list[b] /\ b = IF j < k THEN j ELSE j + 1
      BY <1>2, <1>4, <1>5
    <2>2. a = b
      BY <1>1, <1>6, <2>1
    <2> QED
      BY <1>2, <1>4, <1>5, <2>1, <2>2
  <1>7. ASSUME NEW i \in DOMAIN w PROVE w[i] \in Listed \ {s}
    <2>1. PICK j \in DOMAIN list : w[i] = list[j] /\ j # k
      BY <1>2, <1>4, <1>5
    <2> QED
      BY <1>1, <1>2, <2>1 DEF Listed
  <1>8. ASSUME NEW d \in Listed \ {s} PROVE \E i \in DOMAIN w : w[i] = d
    <2>1. PICK j \in DOMAIN list : list[j] = d
      BY DEF Listed
    <2>2. j # k
      BY <1>2, <2>1
    <2>3. CASE j < k
      <3>1. j \in DOMAIN w /\ w[j] = list[j]
        BY <1>2, <1>4, <1>5, <2>3
      <3> QED
        BY <2>1, <3>1
    <2>4. CASE j > k
      <3>1. j - 1 \in DOMAIN w /\ w[j - 1] = list[j]
        BY <1>2, <1>4, <1>5, <2>4
      <3> QED
        BY <2>1, <3>1
    <2> QED
      BY <1>2, <1>4, <2>2, <2>3, <2>4
  <1> HIDE DEF w
  <1>9. {w[i] : i \in DOMAIN w} = Listed \ {s}
    BY <1>7, <1>8
  <1> QED
    BY <1>3, <1>5, <1>6, <1>9

\* Round 1: what is noted is the sender's own polynomial, and what is relayed
\* is what was noted.
LEMMA RelayFits ==
  ASSUME SharingInv, NEW entries \in [Signer -> EntryRecord],
         \A d \in Signer : EntryFits(d, entries[d], Fixed),
         NEW type \in {"RELAY_R1", "RELAY_REFRESH_R1"},
         toS' = RelayAllR1(entries, type)
  PROVE  /\ toS' = [s \in Signer |-> toS'[s]]
         /\ \A s \in Signer : DownOK(toS'[s], Fixed) /\ Kept(toS[s], toS'[s])
  <1> DEFINE relays(d) == [i \in 1..(Len(list) - 1) |->
                             RelayedR1(type, Without(d)[i], entries[Without(d)[i]].r1)]
  <1>1. /\ toS' = [s \in Signer |-> toS'[s]]
        /\ \A d \in Signer : toS'[d] = IF d \in Listed THEN toS[d] \o relays(d) ELSE toS[d]
    BY DEF RelayAllR1
  <1>2. PICK P : P = Fixed
    OBVIOUS
  <1>3. ASSUME NEW s \in Signer
        PROVE  /\ RelayedR1(type, s, entries[s].r1) \in DownFrame
               /\ DownFits(RelayedR1(type, s, entries[s].r1), P)
               /\ ~IsStart(RelayedR1(type, s, entries[s].r1))
    <2>1. PICK e \in EntryRecord : e = entries[s]
      OBVIOUS
    <2>2. e.r1 \in [pkg : Poly \cup {NoPoly}, sig : Sig] /\ EntryFits(s, e, P)
      BY <1>2, <2>1 DEF EntryRecord
    <2>3. RelayedR1(type, s, e.r1) \in DownFrame /\ ~IsStart(RelayedR1(type, s, e.r1))
      BY <2>2 DEF RelayedR1, DownFrame, IsStart
    <2>4. DownFits(RelayedR1(type, s, e.r1), P)
      <3>1. CASE e.r1 = NoR1
        <4>1. e.r1.sig.by # s
          BY <3>1, PolyFacts DEF NoR1, Signed
        <4> QED
          BY <4>1 DEF RelayedR1, DownFits, Signed
      <3>2. CASE e.r1 # NoR1
        BY <2>2, <3>2 DEF RelayedR1, DownFits, EntryFits
      <3> QED
        BY <3>1, <3>2
    <2> QED
      BY <2>1, <2>3, <2>4
  <1>4. ASSUME NEW d \in Listed
        PROVE  /\ relays(d) \in Seq(DownFrame) /\ DownOK(relays(d), P)
               /\ \A i \in DOMAIN relays(d) : ~IsStart(relays(d)[i])
    <2>1. /\ Without(d) \in Seq(Signer) /\ Len(Without(d)) = Len(list) - 1
          /\ Len(Without(d)) \in Nat
      BY WithoutList DEF SharingInv
    <2>2. PICK w \in Seq(Signer) : w = Without(d) /\ Len(w) = Len(list) - 1 /\ Len(w) \in Nat
      BY <2>1
    <2>3. PICK x : x = relays(d)
      OBVIOUS
    <2>4. x = [i \in 1..Len(w) |-> RelayedR1(type, w[i], entries[w[i]].r1)]
      BY <2>2, <2>3
    <2>5. \A i \in 1..Len(w) : w[i] \in Signer
      BY <2>2
    <2>6. /\ DOMAIN x = 1..Len(w)
          /\ \A i \in 1..Len(w) : x[i] \in DownFrame /\ DownFits(x[i], P) /\ ~IsStart(x[i])
      BY <1>3, <2>4, <2>5
    <2>7. x \in Seq(DownFrame)
      BY <2>2, <2>4, <2>6
    <2> QED
      BY <2>3, <2>6, <2>7 DEF DownOK
  <1> HIDE DEF relays
  <1>5. ASSUME NEW s \in Signer PROVE DownOK(toS'[s], Fixed) /\ Kept(toS[s], toS'[s])
    <2>1. PICK dn : dn = toS[s]
      OBVIOUS
    <2>2. DownOK(dn, P) /\ dn \in Seq(DownFrame)
      BY <1>2, <2>1 DEF SharingInv, Connection, DownOK
    <2>3. CASE s \notin Listed
      BY <1>1, <1>2, <2>1, <2>2, <2>3, KeptSame
    <2>4. CASE s \in Listed
      <3>1. PICK x : x = relays(s)
        OBVIOUS
      <3>2. DownOK(x, P) /\ x \in Seq(DownFrame) /\ \A i \in DOMAIN x : ~IsStart(x[i])
        BY <1>4, <2>4, <3>1
      <3>3. DownOK(dn \o x, P) /\ Kept(dn, dn \o x)
        BY <2>2, <3>2, DownConcat, KeptConcat
      <3> QED
        BY <1>1, <1>2, <2>1, <2>4, <3>1, <3>3
    <2> QED
      BY <2>3, <2>4
  <1> QED
    BY <1>1, <1>5

LEMMA NoteR1Sharing ==
  ASSUME SharingInv, Handling, NEW s \in Signer, NEW f \in UpFrame, UpFits(s, f, Fixed),
         f.type \in {"ROUND1_PKG", "REFRESH_R1"},
         NEW type \in {"RELAY_R1", "RELAY_REFRESH_R1"}, NoteR1(s, f, type)
  PROVE  SharingInv'
  <1>1. PICK e0 \in EntryRecord : e0 = entry[s]
    BY DEF SharingInv, TablesOK
  <1>2. PICK e : e = [e0 EXCEPT !.r1 = [pkg |-> f.pkg, sig |-> f.sig]]
    OBVIOUS
  <1>3. f.pkg \in Poly /\ f.sig \in Sig /\ f.pkg \in Fixed /\ f.pkg.by = s
    BY UpFrameFacts DEF UpFits
  <1>4. e \in EntryRecord /\ e.r1 = [pkg |-> f.pkg, sig |-> f.sig]
    BY <1>2, <1>3 DEF EntryRecord
  <1>5. EntryFits(s, e, Fixed)
    BY <1>3, <1>4 DEF EntryFits
  <1>6. PICK entries : entries = [entry EXCEPT ![s].r1 = [pkg |-> f.pkg, sig |-> f.sig]]
    OBVIOUS
  <1>7. entries = [entry EXCEPT ![s] = e]
    BY <1>1, <1>2, <1>6 DEF SharingInv, TablesOK
  <1>8. entry' = entry \/ entry' = [entry EXCEPT ![s] = e]
    BY <1>6, <1>7, Zenon DEF NoteR1
  <1>9. /\ entry' \in [Signer -> EntryRecord]
        /\ \A d \in Signer : EntryFits(d, entry'[d], Fixed)
    BY <1>4, <1>5, <1>8, EntriesFit
  <1>10. UNCHANGED <<mode, list, count, done, stored, running, pubFile>>
    BY DEF NoteR1
  <1>11. \/ dkgState' = dkgState /\ toS' = toS
         \/ dkgState' = "R2" /\ entry' = entries /\ toS' = RelayAllR1(entries, type)
    BY <1>6, Zenon DEF NoteR1
  <1>12. StateOK'
    BY <1>10, <1>11 DEF SharingInv, StateOK, Handling
  <1>13. /\ toS' = [d \in Signer |-> toS'[d]]
         /\ \A d \in Signer : DownOK(toS'[d], Fixed) /\ Kept(toS[d], toS'[d])
    <2>1. CASE toS' = toS
      BY <2>1, SameStreams
    <2>2. CASE entry' = entries /\ toS' = RelayAllR1(entries, type)
      <3>1. PICK P : P = Fixed
        OBVIOUS
      <3>2. entries \in [Signer -> EntryRecord] /\ \A d \in Signer : EntryFits(d, entries[d], Fixed)
        BY <1>9, <2>2
      <3> QED
        BY <2>2, <3>2, RelayFits
    <2> QED
      BY <1>11, <2>1, <2>2
  <1> QED
    BY <1>9, <1>11, <1>12, <1>13, HandledSharing

LEMMA PassR2Sharing ==
  ASSUME SharingInv, Handling, NEW f \in UpFrame, f.type \in {"ROUND2_PKG", "REFRESH_R2"},
         NEW type \in {"RELAY_R2", "RELAY_REFRESH_R2"}, PassR2(f, type)
  PROVE  SharingInv'
  <1>1. PICK g : g = [f EXCEPT !.type = type]
    OBVIOUS
  <1>2. f.box \in Box /\ f.sig \in BoxSig /\ f.box.to \in Signer
    BY UpFrameFacts DEF Box
  <1>3. f \in [type : {"ROUND2_PKG", "REFRESH_R2"}, box : Box, sig : BoxSig]
    BY DEF UpFrame
  <1>4. g \in DownFrame /\ g.type = type
    BY <1>1, <1>3 DEF DownFrame
  <1>5. ~IsStart(g) /\ DownFits(g, Fixed)
    BY <1>4 DEF IsStart, DownFits
  <1>6. PICK d \in Signer : d = f.box.to
    BY <1>2
  <1>7. toS' = toS \/ toS' = [toS EXCEPT ![d] = Append(@, g)]
    BY <1>1, <1>6, Zenon DEF PassR2
  <1>8. /\ toS' = [s \in Signer |-> toS'[s]]
        /\ \A s \in Signer : DownOK(toS'[s], Fixed) /\ Kept(toS[s], toS'[s])
    <2>1. CASE toS' = toS
      BY <2>1, SameStreams
    <2>2. CASE toS' = [toS EXCEPT ![d] = Append(@, g)]
      <3>1. toS \in [Signer -> Seq(DownFrame)]
        BY DEF SharingInv, TablesOK
      <3>2. /\ toS' = [s \in Signer |-> toS'[s]]
            /\ \A s \in Signer : toS'[s] = IF s = d THEN Append(toS[d], g) ELSE toS[s]
        BY <2>2, <3>1
      <3>3. PICK P, dn : P = Fixed /\ dn = toS[d]
        OBVIOUS
      <3>4. DownOK(dn, P) /\ dn \in Seq(DownFrame)
        BY <3>3 DEF SharingInv, Connection, DownOK
      <3>5. DownOK(Append(dn, g), P) /\ Kept(dn, Append(dn, g))
        BY <1>4, <1>5, <3>3, <3>4, DownAppend, KeptAppend
      <3>6. \A s \in Signer : DownOK(toS[s], Fixed) /\ Kept(toS[s], toS[s])
        BY KeptSame DEF SharingInv, Connection
      <3> QED
        BY <3>2, <3>3, <3>5, <3>6
    <2> QED
      BY <1>7, <2>1, <2>2
  <1>9. /\ entry' \in [Signer -> EntryRecord]
        /\ \A s \in Signer : EntryFits(s, entry'[s], Fixed)
    BY DEF SharingInv, TablesOK, Connection, PassR2, coordVars
  <1>10. StateOK' /\ dkgState' = dkgState
    BY DEF SharingInv, StateOK, PassR2, coordVars, Handling
  <1> QED
    BY <1>8, <1>9, <1>10, HandledSharing

LEMMA NoticeFits ==
  ASSUME NEW type \in {"DKG_DONE", "REFRESH_FINALIZE", "REFRESH_CONFIRMED"}, NEW P
  PROVE  /\ Notice(type) \in DownFrame /\ DownFits(Notice(type), P)
         /\ ~IsStart(Notice(type))
  BY DEF Notice, DownFrame, DownFits, IsStart

LEMMA NoteR2CompleteSharing ==
  ASSUME SharingInv, Handling, NEW s \in Signer,
         NEW answer \in {"DKG_DONE", "REFRESH_FINALIZE"}, NoteR2Complete(s, answer)
  PROVE  SharingInv'
  <1>1. PICK e0 \in EntryRecord : e0 = entry[s]
    BY DEF SharingInv, TablesOK
  <1>2. PICK e : e = [e0 EXCEPT !.r2Complete = TRUE]
    OBVIOUS
  <1>3. e \in EntryRecord /\ e.r1 = e0.r1
    BY <1>2 DEF EntryRecord
  <1>4. EntryFits(s, e, Fixed)
    BY <1>1, <1>3 DEF SharingInv, Connection, EntryFits
  <1>5. entry' = [entry EXCEPT ![s] = e]
    BY <1>1, <1>2 DEF SharingInv, TablesOK, NoteR2Complete
  <1>6. /\ entry' \in [Signer -> EntryRecord]
        /\ \A d \in Signer : EntryFits(d, entry'[d], Fixed)
    BY <1>3, <1>4, <1>5, EntriesFit
  <1>7. UNCHANGED <<mode, list, count, done, stored, running, pubFile>>
    BY DEF NoteR2Complete
  <1>8. \/ dkgState' = dkgState /\ toS' = toS
        \/ dkgState' = "COMPLETE" /\ toS' = Broadcast(toS, Notice(answer))
    BY DEF NoteR2Complete
  <1>9. StateOK'
    BY <1>7, <1>8 DEF SharingInv, StateOK, Handling
  <1>10. /\ toS' = [d \in Signer |-> toS'[d]]
         /\ \A d \in Signer : DownOK(toS'[d], Fixed) /\ Kept(toS[d], toS'[d])
    BY <1>8, SameStreams, NoticeFits, BroadcastFits
  <1> QED
    BY <1>6, <1>8, <1>9, <1>10, HandledSharing

LEMMA CountPubFits ==
  ASSUME SharingInv, NEW s \in Signer, NEW pub \in SUBSET Poly, CountPub(s, pub)
  PROVE  /\ entry' \in [Signer -> EntryRecord]
         /\ \A d \in Signer : EntryFits(d, entry'[d], Fixed)
  <1>1. PICK e0 \in EntryRecord : e0 = entry[s]
    BY DEF SharingInv, TablesOK
  <1>2. PICK e : e = [e0 EXCEPT !.pub = pub]
    OBVIOUS
  <1>3. e \in EntryRecord /\ e.r1 = e0.r1
    BY <1>2 DEF EntryRecord
  <1>4. EntryFits(s, e, Fixed)
    BY <1>1, <1>3 DEF SharingInv, Connection, EntryFits
  <1>5. entry' = [entry EXCEPT ![s] = e]
    BY <1>1, <1>2 DEF SharingInv, TablesOK, CountPub
  <1> QED
    BY <1>3, <1>4, <1>5, EntriesFit

LEMMA OnPubKeyPkgSharing ==
  ASSUME SharingInv, Handling, NEW s \in Signer, NEW f \in UpFrame, f.type = "PUB_KEY_PKG",
         OnPubKeyPkg(s, f)
  PROVE  SharingInv'
  <1>1. f.pub \in SUBSET Poly
    BY UpFrameFacts
  <1>2. /\ entry' \in [Signer -> EntryRecord]
        /\ \A d \in Signer : EntryFits(d, entry'[d], Fixed)
    BY <1>1, CountPubFits DEF OnPubKeyPkg
  <1>3. /\ UNCHANGED <<mode, dkgState, list, running, toS>>
        /\ count' = count + 1
        /\ done' = done \/ done' = TRUE
        /\ stored' = stored \/ stored' = TRUE
        /\ pubFile' \in {pubFile, f.pub, Torn}
    BY Zenon DEF OnPubKeyPkg, CountPub, WritePub
  <1>4. StateOK'
    <2>1. pubFile' = Absent \/ pubFile' \in SUBSET Poly
      BY <1>1, <1>3 DEF SharingInv, StateOK, Torn
    <2>2. done \in BOOLEAN /\ stored \in BOOLEAN /\ count \in Nat
      BY DEF SharingInv, StateOK
    <2>4. done' \in BOOLEAN /\ stored' \in BOOLEAN
      BY <1>3, <2>2, Zenon
    <2>5. count' \in Nat
      BY <1>3, <2>2
    <2>3. UNCHANGED <<mode, dkgState, list, running, run>> /\ disturbed' \in BOOLEAN
      BY <1>3 DEF Handling
    <2> QED
      BY <2>1, <2>3, <2>4, <2>5 DEF SharingInv, StateOK
  <1> QED
    BY <1>2, <1>3, <1>4, SameStreams, HandledSharing

LEMMA OnRefreshCompleteSharing ==
  ASSUME SharingInv, Handling, NEW s \in Signer, NEW f \in UpFrame,
         f.type = "REFRESH_COMPLETE", OnRefreshComplete(s, f)
  PROVE  SharingInv'
  <1>1. f.pub \in SUBSET Poly
    BY UpFrameFacts
  <1>2. /\ entry' \in [Signer -> EntryRecord]
        /\ \A d \in Signer : EntryFits(d, entry'[d], Fixed)
    BY <1>1, CountPubFits DEF OnRefreshComplete
  <1>3. /\ UNCHANGED <<mode, dkgState, list, running>>
        /\ count' = count + 1
        /\ done' = done \/ done' = TRUE
        /\ stored' = stored \/ stored' = TRUE
        /\ pubFile' \in {pubFile, f.pub, Torn}
        /\ toS' = toS \/ toS' = Broadcast(toS, Notice("REFRESH_CONFIRMED"))
    BY Zenon DEF OnRefreshComplete, CountPub, WritePub
  <1>4. StateOK'
    <2>1. pubFile' = Absent \/ pubFile' \in SUBSET Poly
      BY <1>1, <1>3 DEF SharingInv, StateOK, Torn
    <2>2. done \in BOOLEAN /\ stored \in BOOLEAN /\ count \in Nat
      BY DEF SharingInv, StateOK
    <2>4. done' \in BOOLEAN /\ stored' \in BOOLEAN
      BY <1>3, <2>2, Zenon
    <2>5. count' \in Nat
      BY <1>3, <2>2
    <2>3. UNCHANGED <<mode, dkgState, list, running, run>> /\ disturbed' \in BOOLEAN
      BY <1>3 DEF Handling
    <2> QED
      BY <2>1, <2>3, <2>4, <2>5 DEF SharingInv, StateOK
  <1>5. /\ toS' = [d \in Signer |-> toS'[d]]
        /\ \A d \in Signer : DownOK(toS'[d], Fixed) /\ Kept(toS[d], toS'[d])
    BY <1>3, SameStreams, NoticeFits, BroadcastFits
  <1> QED
    BY <1>2, <1>3, <1>4, <1>5, HandledSharing

LEMMA OnClosedSharing ==
  ASSUME SharingInv, Handling, NEW s \in Listed, OnClosed(s)
  PROVE  SharingInv'
  <1>1. s \in Signer
    BY DEF SharingInv, StateOK, Listed
  <1>2. /\ list' = Without(s) /\ UNCHANGED <<mode, dkgState, count, done, stored, running, pubFile>>
    BY DEF OnClosed
  <1>3. StateOK'
    <2>1. list' \in Seq(Signer) /\ \A i, j \in DOMAIN list' : list'[i] = list'[j] => i = j
      BY <1>2, WithoutList DEF SharingInv
    <2> QED
      BY <1>2, <2>1 DEF SharingInv, StateOK, Handling
  <1>4. toS \in [Signer -> Seq(DownFrame)] /\ toS' = [toS EXCEPT ![s] = <<>>]
    BY DEF SharingInv, TablesOK, OnClosed
  <1>5. /\ toS' = [d \in Signer |-> toS'[d]]
        /\ \A d \in Signer : toS'[d] = IF d = s THEN <<>> ELSE toS[d]
    BY <1>1, <1>4
  <1>6. \A d \in Signer : DownOK(toS'[d], Fixed) /\ Kept(toS[d], toS'[d])
    BY <1>5, NoFrames, KeptSame DEF SharingInv, Connection
  <1>7. /\ entry' \in [Signer -> EntryRecord]
        /\ \A d \in Signer : EntryFits(d, entry'[d], Fixed)
    BY DEF SharingInv, TablesOK, Connection, OnClosed
  <1> QED
    BY <1>2, <1>3, <1>5, <1>6, <1>7, HandledSharing

LEMMA CoordinatorStepSharing ==
  ASSUME SharingInv, NEW s \in Signer, CoordinatorStep(s)
  PROVE  SharingInv'
  <1>1. PICK f : f = Head(toC[s])
    OBVIOUS
  <1>2. /\ toC[s] # <<>> /\ toC' = [toC EXCEPT ![s] = Tail(@)] /\ Note /\ s \in Listed
        /\ UNCHANGED <<signer, keyFile, run>> /\ ProcessSignerFrame(s, f)
    BY <1>1 DEF CoordinatorStep
  <1>3. Handling /\ f \in UpFrame /\ UpFits(s, f, Fixed)
    BY <1>1, <1>2, PopUp
  <1>4. CASE \/ f.type = "ROUND1_PKG" /\ OnRound1Pkg(s, f)
             \/ f.type = "REFRESH_R1" /\ OnRefreshR1(s, f)
    BY <1>3, <1>4, NoteR1Sharing, DroppedSharing DEF OnRound1Pkg, OnRefreshR1
  <1>5. CASE \/ f.type = "ROUND2_PKG" /\ OnRound2Pkg(f)
             \/ f.type = "REFRESH_R2" /\ OnRefreshR2(f)
    BY <1>3, <1>5, PassR2Sharing, DroppedSharing DEF OnRound2Pkg, OnRefreshR2
  <1>6. CASE OnR2Complete(s) \/ OnRefreshR2Complete(s)
    BY <1>3, <1>6, NoteR2CompleteSharing, DroppedSharing DEF OnR2Complete, OnRefreshR2Complete
  <1>7. CASE f.type = "PUB_KEY_PKG" /\ OnPubKeyPkg(s, f)
    BY <1>3, <1>7, OnPubKeyPkgSharing
  <1>8. CASE f.type = "REFRESH_COMPLETE" /\ OnRefreshComplete(s, f)
    BY <1>3, <1>8, OnRefreshCompleteSharing
  <1>9. CASE OnShareLoadFail
    BY <1>3, <1>9, DroppedSharing DEF OnShareLoadFail
  <1>10. CASE OnClosed(s)
    BY <1>2, <1>3, <1>10, OnClosedSharing
  <1> QED
    BY <1>2, <1>4, <1>5, <1>6, <1>7, <1>8, <1>9, <1>10 DEF ProcessSignerFrame

-----------------------------------------------------------------------------
(* The coordinator ends.                                                   *)

LEMMA HandlingSame ==
  ASSUME SharingInv, UNCHANGED <<signer, toC, keyFile, run>>, Note
  PROVE  Handling
  <1>1. disturbed' \in BOOLEAN
    BY Zenon DEF Note
  <1> QED
    BY <1>1 DEF Handling, SharingInv, TablesOK, Connection

LEMMA ExitSharing ==
  ASSUME SharingInv, CoordinatorExit
  PROVE  SharingInv'
  <1>1. /\ Handling /\ running' = FALSE /\ toS' = Broadcast(toS, Closed)
        /\ UNCHANGED <<mode, dkgState, list, entry, count, done, stored, pubFile>>
    BY HandlingSame DEF CoordinatorExit, Exit
  <1>2. Closed \in DownFrame /\ DownFits(Closed, Fixed) /\ ~IsStart(Closed)
    BY DEF Closed, DownFrame, DownFits, IsStart
  <1>3. StateOK'
    BY <1>1 DEF SharingInv, StateOK, Handling
  <1>4. /\ entry' \in [Signer -> EntryRecord]
        /\ \A d \in Signer : EntryFits(d, entry'[d], Fixed)
    BY <1>1 DEF SharingInv, TablesOK, Connection
  <1> QED
    BY <1>1, <1>2, <1>3, <1>4, BroadcastFits, HandledSharing

LEMMA KillSharing ==
  ASSUME SharingInv, Kill
  PROVE  SharingInv'
  <1>1. PICK k \in [Signer -> 0..(2 * N)] :
          /\ \A s \in Signer : k[s] <= Len(toS[s])
          /\ toS' = [s \in Signer |-> IF s \in Listed
                                        THEN Append(SubSeq(toS[s], 1, k[s]), Closed)
                                        ELSE toS[s]]
    BY DEF Kill
  <1>2. /\ Handling /\ running' = FALSE
        /\ UNCHANGED <<mode, dkgState, list, entry, count, done, stored>>
        /\ pubFile' \in {pubFile, Torn}
    BY HandlingSame DEF Kill
  <1>3. ASSUME NEW s \in Signer PROVE DownOK(toS'[s], Fixed) /\ Kept(toS[s], toS'[s])
    <2>1. PICK P, dn, j : P = Fixed /\ dn = toS[s] /\ j = k[s]
      OBVIOUS
    <2>2. DownOK(dn, P) /\ dn \in Seq(DownFrame)
      BY <2>1 DEF SharingInv, Connection, DownOK
    <2>3. j \in 0..Len(dn)
      BY <1>1, <2>1, <2>2, PolyFacts
    <2>4. /\ DownOK(Append(SubSeq(dn, 1, j), Closed), P) /\ Kept(dn, dn)
          /\ Kept(dn, Append(SubSeq(dn, 1, j), Closed))
      BY <2>2, <2>3, DownClosed, KeptClosed, KeptSame
    <2>5. toS'[s] = dn \/ toS'[s] = Append(SubSeq(dn, 1, j), Closed)
      BY <1>1, <2>1
    <2> QED
      BY <2>1, <2>2, <2>4, <2>5
  <1>4. toS' = [s \in Signer |-> toS'[s]]
    BY <1>1
  <1>5. StateOK'
    BY <1>2 DEF SharingInv, StateOK, Handling, Torn
  <1>6. /\ entry' \in [Signer -> EntryRecord]
        /\ \A d \in Signer : EntryFits(d, entry'[d], Fixed)
    BY <1>2 DEF SharingInv, TablesOK, Connection
  <1> QED
    BY <1>2, <1>3, <1>4, <1>5, <1>6, HandledSharing

-----------------------------------------------------------------------------
(* Steps of a signer.                                                      *)

PubOK(x) == x = Absent \/ x \in SUBSET Poly

\* Signer s has become r, its stream up, and its file x; P stands.
Effect(s, r, up, x, P) ==
  /\ signer' = [signer EXCEPT ![s] = r] /\ r \in SignerRecord
  /\ SignerFits(s, r, P, run)
  /\ toC' = [toC EXCEPT ![s] = up] /\ UpOK(s, up, P)
  /\ keyFile' = [keyFile EXCEPT ![s] = x] /\ FileFits(x, P, run)
  /\ r.key \cup (x \ {NoPoly}) \subseteq Held(s) \cup P
  /\ PubOK(pubFile')

LEMMA SignerSide ==
  ASSUME SharingInv, NEW s \in Signer, NEW r, NEW up, NEW dn, NEW x, NEW Q,
         Effect(s, r, up, x, Q), Q = Fixed', Fixed \subseteq Q,
         run' = run, UNCHANGED coordVars, disturbed' \in BOOLEAN,
         toS' = [toS EXCEPT ![s] = dn], DownOK(dn, Q), StartOnce(s)'
  PROVE  SharingInv'
  <1>1. /\ signer \in [Signer -> SignerRecord] /\ toC \in [Signer -> Seq(UpFrame)]
        /\ toS \in [Signer -> Seq(DownFrame)] /\ entry \in [Signer -> EntryRecord]
        /\ keyFile \in [Signer -> SUBSET (Poly \cup {NoPoly})]
        /\ \A d \in Signer : Connection(d)
    BY DEF SharingInv, TablesOK
  <1>2. /\ up \in Seq(UpFrame) /\ dn \in Seq(DownFrame)
    BY DEF Effect, UpOK, DownOK
  <1>3. TablesOK'
    <2>1. signer' \in [Signer -> SignerRecord] /\ toC' \in [Signer -> Seq(UpFrame)]
      BY <1>1, <1>2 DEF Effect
    <2>2. toS' \in [Signer -> Seq(DownFrame)]
      BY <1>1, <1>2
    <2>3. x \in SUBSET (Poly \cup {NoPoly})
      BY DEF Effect, FileFits, ShareFits, Absent
    <2>4. keyFile' \in [Signer -> SUBSET (Poly \cup {NoPoly})]
      BY <1>1, <2>3 DEF Effect
    <2> QED
      BY <1>1, <2>1, <2>2, <2>4 DEF TablesOK, coordVars
  <1>4. StateOK'
    BY DEF SharingInv, StateOK, coordVars, Effect, PubOK
  <1>5. /\ signer'[s] = r /\ toC'[s] = up /\ toS'[s] = dn /\ keyFile'[s] = x
        /\ \A d \in Signer \ {s} : /\ signer'[d] = signer[d] /\ toC'[d] = toC[d]
                                   /\ toS'[d] = toS[d] /\ keyFile'[d] = keyFile[d]
    BY <1>1 DEF Effect
  <1>6. ASSUME NEW d \in Signer, d # s PROVE Connection(d)'
    <2>1. PICK P, rd, upd, dnd, e, xd, n :
            /\ P = Fixed /\ rd = signer[d] /\ upd = toC[d] /\ dnd = toS[d]
            /\ e = entry[d] /\ xd = keyFile[d] /\ n = run
      OBVIOUS
    <2>2. /\ SignerFits(d, rd, P, n) /\ UpOK(d, upd, P) /\ DownOK(dnd, P)
          /\ EntryFits(d, e, P) /\ FileFits(xd, P, n)
      BY <1>1, <2>1 DEF Connection
    <2>3. /\ SignerFits(d, rd, Q, n) /\ UpOK(d, upd, Q) /\ DownOK(dnd, Q)
          /\ EntryFits(d, e, Q) /\ FileFits(xd, Q, n)
      BY <2>1, <2>2, SignerMono, UpMono, DownMono, EntryMono, FileMono
    <2>4. StartOnce(d)'
      BY <1>1, <1>5, <1>6 DEF Connection, StartOnce, coordVars
    <2>5. entry' = entry
      BY DEF coordVars
    <2> QED
      BY <1>5, <1>6, <2>1, <2>3, <2>4, <2>5 DEF Connection
  <1>7. Connection(s)'
    <2>1. PICK P, e : P = Fixed /\ e = entry[s]
      OBVIOUS
    <2>2. EntryFits(s, e, P)
      BY <1>1, <2>1 DEF Connection
    <2>3. EntryFits(s, e, Q)
      BY <2>1, <2>2, EntryMono
    <2>4. entry'[s] = e
      BY <2>1 DEF coordVars
    <2> QED
      BY <1>5, <2>3, <2>4 DEF Connection, Effect
  <1>8. \A d \in Signer : Held(d)' \subseteq Held(d) \cup Fixed'
    BY <1>5 DEF Held, Effect
  <1>9. Agree'
    BY <1>3, <1>4, <1>6, <1>7, <1>8, AgreeStep DEF SharingInv
  <1> QED
    BY <1>3, <1>4, <1>6, <1>7, <1>9 DEF SharingInv

LEMMA EffectMono ==
  ASSUME NEW s, NEW r, NEW up, NEW x, NEW P, NEW Q, P \subseteq Q, Effect(s, r, up, x, P)
  PROVE  Effect(s, r, up, x, Q)
  <1>1. PICK n : n = run
    OBVIOUS
  <1>2. SignerFits(s, r, P, n) /\ UpOK(s, up, P) /\ FileFits(x, P, n)
    BY <1>1 DEF Effect
  <1>3. SignerFits(s, r, Q, n) /\ UpOK(s, up, Q) /\ FileFits(x, Q, n)
    BY <1>2, SignerMono, UpMono, FileMono
  <1> QED
    BY <1>1, <1>3 DEF Effect

\* What is known of signer s before its step.
LEMMA SignerNow ==
  ASSUME SharingInv, NEW s \in Signer
  PROVE  /\ signer[s] \in SignerRecord /\ SignerFits(s, signer[s], Fixed, run)
         /\ UpOK(s, toC[s], Fixed) /\ FileFits(keyFile[s], Fixed, run)
         /\ keyFile = [keyFile EXCEPT ![s] = keyFile[s]]
         /\ PubOK(pubFile)
  BY DEF SharingInv, StateOK, TablesOK, Connection, PubOK

\* A handler returns; the file is as it was, or holds the share in memory.
LEMMA ReturnEffect ==
  ASSUME SharingInv, NEW s \in Signer, NEW P, P = Fixed,
         NEW r \in SignerRecord, SignerFits(s, r, P, run), r.key \subseteq Held(s) \cup P,
         NEW out, UpOK(s, out, P), Return(s, r, out),
         keyFile' = keyFile \/ \E y \in {r.key, Torn} : keyFile' = [keyFile EXCEPT ![s] = y],
         pubFile' \in {pubFile, r.pub, Torn}
  PROVE  \E up, x : Effect(s, r, up, x, P)
  <1>1. PICK u, x : /\ u = toC[s] /\ x \in {keyFile[s], r.key, Torn}
                    /\ keyFile' = [keyFile EXCEPT ![s] = x]
    <2>1. CASE keyFile' = keyFile
      BY <2>1, SignerNow DEF SharingInv, TablesOK
    <2> QED
      BY <2>1
  <1>2. PICK up : up = u \o out
    OBVIOUS
  <1>3. UpOK(s, up, P) /\ toC' = [toC EXCEPT ![s] = up]
    <2>1. UpOK(s, u, P)
      BY <1>1, SignerNow
    <2>2. toC' = [toC EXCEPT ![s] = up]
      BY <1>1, <1>2 DEF Return
    <2> QED
      BY <1>2, <2>1, <2>2, UpConcat
  <1>4. FileFits(x, P, run)
    <2>1. FileFits(keyFile[s], P, run)
      BY SignerNow
    <2>2. ShareFits(r.key, P, run) /\ ShareFits(Torn, P, run)
      BY ShareEmpty DEF SignerFits, Torn
    <2> QED
      BY <1>1, <2>1, <2>2 DEF FileFits
  <1>5. x \ {NoPoly} \subseteq Held(s) \cup P
    BY <1>1 DEF Held, Torn
  <1>6. PubOK(pubFile')
    BY SignerNow DEF PubOK, SignerRecord, Torn
  <1>7. signer' = [signer EXCEPT ![s] = r]
    BY DEF Return
  <1> QED
    BY <1>1, <1>3, <1>4, <1>5, <1>6, <1>7 DEF Effect

\* A process that is not running.
LEMMA BlankFits ==
  ASSUME NEW s, NEW r \in SignerRecord, NEW P, NEW n
  PROVE  /\ Down(r.drawn) \in SignerRecord /\ SignerFits(s, Down(r.drawn), P, n)
         /\ FreshSigner(r.drawn) \in SignerRecord /\ SignerFits(s, FreshSigner(r.drawn), P, n)
         /\ Down(r.drawn).drawn = r.drawn /\ FreshSigner(r.drawn).drawn = r.drawn
         /\ Down(r.drawn).key = {} /\ FreshSigner(r.drawn).key = {}
         /\ Down(r.drawn) = [FreshSigner(r.drawn) EXCEPT !.up = FALSE]
  <1>1. PICK m \in Nat : m = r.drawn
    BY DEF SignerRecord
  <1>2. ShareFits({}, P, n)
    BY ShareEmpty
  <1>3. /\ FreshSigner(m) \in SignerRecord /\ Down(m) \in SignerRecord
        /\ Down(m).drawn = m /\ FreshSigner(m).drawn = m
        /\ Down(m).key = {} /\ FreshSigner(m).key = {}
    <2>1. <<>> \in Seq([from : Signer, pkg : Poly])
          /\ <<>> \in Seq([from : 0..N, pkg : Poly \cup {NoPoly}])
      OBVIOUS
    <2>2. FreshSigner(m) \in SignerRecord
      BY <2>1 DEF FreshSigner, SignerRecord, NoPackage
    <2>3. PICK q \in SignerRecord : q = FreshSigner(m)
      BY <2>2
    <2>4. /\ Down(m) \in SignerRecord
          /\ Down(m).drawn = q.drawn /\ Down(m).key = q.key
      BY <2>3 DEF Down, SignerRecord
    <2>5. FreshSigner(m).drawn = m /\ FreshSigner(m).key = {}
      BY DEF FreshSigner, NoPackage
    <2> QED
      BY <2>2, <2>3, <2>4, <2>5
  <1>4. SignerFits(s, FreshSigner(m), P, n)
    BY <1>2 DEF FreshSigner, SignerFits, NoPackage
  <1>5. SignerFits(s, Down(m), P, n)
    BY <1>2 DEF FreshSigner, Down, SignerFits, NoPackage
  <1> QED
    BY <1>1, <1>3, <1>4, <1>5 DEF Down

LEMMA DieEffect ==
  ASSUME SharingInv, NEW s \in Signer, NEW P, P = Fixed, Die(s),
         NEW r \in SignerRecord, SignerFits(s, r, P, run), r.key \subseteq Held(s) \cup P,
         NEW x \in {keyFile[s], r.key, Torn}, keyFile' = [keyFile EXCEPT ![s] = x],
         pubFile' \in {pubFile, Torn}
  PROVE  \E up : Effect(s, Down(signer[s].drawn), up, x, P)
  <1>1. PICK r0 \in SignerRecord : r0 = signer[s]
    BY SignerNow
  <1>2. PICK u : u = toC[s]
    OBVIOUS
  <1>3. PICK k \in 0..Len(u) : toC' = [toC EXCEPT ![s] = Append(SubSeq(@, 1, k), Closed)]
    BY <1>2 DEF Die
  <1>4. PICK up : up = Append(SubSeq(u, 1, k), Closed)
    OBVIOUS
  <1>5. toC' = [toC EXCEPT ![s] = up] /\ UpOK(s, up, P)
    <2>1. UpOK(s, u, P)
      BY <1>2, SignerNow
    <2> QED
      BY <1>2, <1>3, <1>4, <2>1, UpClosed
  <1>6. PICK rd : rd = Down(r0.drawn)
    OBVIOUS
  <1>7. rd \in SignerRecord /\ SignerFits(s, rd, P, run) /\ rd.key = {}
    BY <1>6, BlankFits
  <1>8. signer' = [signer EXCEPT ![s] = rd]
    BY <1>1, <1>6, Zenon DEF Die, Down
  <1>9. FileFits(x, P, run)
    <2>1. FileFits(keyFile[s], P, run)
      BY SignerNow
    <2>2. ShareFits(r.key, P, run)
      BY DEF SignerFits
    <2>3. ShareFits(Torn, P, run)
      BY ShareEmpty DEF Torn
    <2> QED
      BY <2>1, <2>2, <2>3 DEF FileFits
  <1>10. rd.key \cup (x \ {NoPoly}) \subseteq Held(s) \cup P
    BY <1>7 DEF Held, Torn
  <1>11. PubOK(pubFile')
    BY SignerNow DEF PubOK, Torn
  <1> QED
    BY <1>1, <1>5, <1>6, <1>7, <1>8, <1>9, <1>10, <1>11 DEF Effect

-----------------------------------------------------------------------------
(* Its handlers.  P are the polynomials that stand when the frame is       *)
(* handled; only START adds one.                                           *)

LEMMA HelloAckEffect ==
  ASSUME SharingInv, NEW s \in Signer, NEW P, P = Fixed, signer[s].up, NEW m, OnHelloAck(s, m)
  PROVE  \E r, up, x : Effect(s, r, up, x, P) /\ r.drawn = signer[s].drawn
  <1>1. PICK r0 \in SignerRecord : r0 = signer[s]
    BY SignerNow
  <1>2. SignerFits(s, r0, P, run) /\ r0.key \subseteq Held(s) \cup P
    BY <1>1, SignerNow DEF Held
  <1>3. keyFile' = keyFile /\ pubFile' = pubFile
    BY DEF OnHelloAck, KeepFiles
  <1>4. PICK pub : pub = (IF Readable(pubFile) THEN pubFile ELSE NoPackage)
    OBVIOUS
  <1>5. pub \in SUBSET Poly
    BY <1>4, SignerNow DEF PubOK, Readable, NoPackage
  <1>6. PICK r : r = [r0 EXCEPT !.key = keyFile[s], !.pub = pub]
    OBVIOUS
  <1>7. \/ Return(s, r0, <<>>) \/ Return(s, r0, <<ShareLoadFail>>)
        \/ Readable(keyFile[s]) /\ Return(s, r, <<>>)
    BY <1>1, <1>4, <1>6, Zenon DEF OnHelloAck
  <1>8. UpOK(s, <<>>, P) /\ UpOK(s, <<ShareLoadFail>>, P)
    BY NoFrames DEF UpOK, UpFrame, UpFits, ShareLoadFail
  <1>9. CASE Return(s, r0, <<>>) \/ Return(s, r0, <<ShareLoadFail>>)
    BY <1>1, <1>2, <1>3, <1>8, <1>9, ReturnEffect
  <1>10. CASE Readable(keyFile[s]) /\ Return(s, r, <<>>)
    <2>1. PICK x : x = keyFile[s]
      OBVIOUS
    <2>2. ShareFits(x, P, run) /\ x \in SUBSET Poly
      BY <1>10, <2>1, SignerNow DEF FileFits, Readable, ShareFits
    <2>3. /\ r \in SignerRecord /\ r.key = x /\ r.drawn = r0.drawn /\ r.up = r0.up
          /\ r.secret1 = r0.secret1 /\ r.secret2 = r0.secret2 /\ r.r1 = r0.r1
      BY <1>5, <1>6, <2>1, <2>2 DEF SignerRecord
    <2>4. x \subseteq Held(s) \cup P
      BY <2>1, <2>2, PolyFacts DEF Held
    <2>5. SignerFits(s, r, P, run)
      BY <1>1, <1>2, <2>2, <2>3 DEF SignerFits
    <2> QED
      BY <1>1, <1>3, <1>8, <1>10, <2>3, <2>4, <2>5, ReturnEffect
  <1> QED
    BY <1>7, <1>9, <1>10

\* START: nothing of the process stood before, and its new polynomial does.
LEMMA StartEffect ==
  ASSUME SharingInv, NEW s \in Signer, NEW Q, Q = Fixed', Fixed \subseteq Q,
         signer[s].up, Pending(s), Begun(s)', run' = run,
         NEW type \in {"ROUND1_PKG", "REFRESH_R1"}, Start(s, type)
  PROVE  \E r, up, x : Effect(s, r, up, x, Q)
  <1>1. PICK r0 \in SignerRecord : r0 = signer[s]
    BY SignerNow
  <1>2. PICK P : P = Fixed
    OBVIOUS
  <1>3. /\ SignerFits(s, r0, P, run) /\ UpOK(s, toC[s], P) /\ FileFits(keyFile[s], P, run)
        /\ PubOK(pubFile)
    BY <1>1, <1>2, SignerNow
  <1>4. r0.secret1 = NoPoly /\ r0.secret2 = NoPoly
    <2>1. ~Begun(s)
      BY DEF Begun
    <2>2. \A p \in P : p.by # s
      BY <1>2, <2>1 DEF Fixed
    <2> QED
      BY <1>3, <2>2 DEF SignerFits
  <1> DEFINE no == r0.drawn + 1
             p == [by |-> s, run |-> run, no |-> no]
             r == [r0 EXCEPT !.secret1 = p, !.drawn = no]
  <1>5. no \in Nat
    BY DEF SignerRecord
  <1>6. p \in Poly /\ p.by = s
    BY <1>5, PolyFacts DEF SharingInv, StateOK, Poly
  <1>7. /\ r \in SignerRecord /\ r.secret1 = p /\ r.secret2 = NoPoly /\ r.drawn = no
        /\ r.r1 = r0.r1 /\ r.key = r0.key /\ r.up = r0.up
    BY <1>4, <1>5, <1>6 DEF SignerRecord
  <1>8. /\ \/ Return(s, r, <<Round1(type, s, p)>>)
           \/ Return(s, r0, <<>>)
        /\ keyFile' = keyFile /\ pubFile' = pubFile
    BY <1>1, <1>5, Zenon DEF Start, KeepFiles
  <1>9. keyFile' = [keyFile EXCEPT ![s] = keyFile[s]]
    BY <1>8, SignerNow
  <1>10. PICK u, x, n : u = toC[s] /\ x = keyFile[s] /\ n = run
    OBVIOUS
  <1>11. UpOK(s, u, Q) /\ FileFits(x, Q, n) /\ SignerFits(s, r0, Q, n)
    BY <1>2, <1>3, <1>10, UpMono, FileMono, SignerMono
  <1>12. r0.key \cup (x \ {NoPoly}) \subseteq Held(s) \cup Q
    BY <1>1, <1>10 DEF Held
  <1>13. CASE Return(s, r0, <<>>)
    <2>1. PICK up : up = u \o <<>>
      OBVIOUS
    <2>2. UpOK(s, up, Q)
      BY <1>11, <2>1, NoFrames, UpConcat
    <2> QED
      BY <1>3, <1>8, <1>9, <1>10, <1>11, <1>12, <1>13, <2>1, <2>2 DEF Effect, Return
  <1>14. CASE Return(s, r, <<Round1(type, s, p)>>)
    <2>1. p \in Q
      <3>1. signer'[s] = r
        BY <1>14 DEF Return, SharingInv, TablesOK
      <3>2. p = [by |-> s, run |-> run', no |-> signer'[s].drawn]
        BY <1>7, <3>1
      <3> QED
        BY <3>2, Zenon DEF Fixed
    <2>2. UpOK(s, <<Round1(type, s, p)>>, Q)
      <3>1. Round1(type, s, p) \in UpFrame
        BY <1>6, PolyFacts DEF Round1, UpFrame, Sig, Signed
      <3>2. UpFits(s, Round1(type, s, p), Q)
        BY <1>6, <2>1 DEF UpFits, Round1
      <3> QED
        BY <3>1, <3>2 DEF UpOK
    <2>3. PICK out : out = <<Round1(type, s, p)>>
      OBVIOUS
    <2>4. PICK up : up = u \o out
      OBVIOUS
    <2>5. UpOK(s, up, Q)
      BY <1>11, <2>2, <2>3, <2>4, UpConcat
    <2>6. SignerFits(s, r, Q, n)
      BY <1>1, <1>6, <1>7, <1>11, <2>1 DEF SignerFits
    <2>7. r.key \cup (x \ {NoPoly}) \subseteq Held(s) \cup Q
      BY <1>7, <1>12
    <2>8. signer' = [signer EXCEPT ![s] = r] /\ toC' = [toC EXCEPT ![s] = up]
      BY <1>10, <1>14, <2>3, <2>4 DEF Return
    <2> QED
      BY <1>3, <1>7, <1>8, <1>9, <1>10, <1>11, <2>5, <2>6, <2>7, <2>8 DEF Effect
  <1> QED
    BY <1>8, <1>13, <1>14

LEMMA SameEffect ==
  ASSUME SharingInv, NEW s \in Signer, NEW P, P = Fixed,
         Return(s, signer[s], <<>>), keyFile' = keyFile, pubFile' = pubFile
  PROVE  \E r, up, x : Effect(s, r, up, x, P) /\ r.drawn = signer[s].drawn
  <1>1. PICK r0 \in SignerRecord : r0 = signer[s]
    BY SignerNow
  <1>2. SignerFits(s, r0, P, run) /\ r0.key \subseteq Held(s) \cup P
    BY <1>1, SignerNow DEF Held
  <1>3. \E up, x : Effect(s, r0, up, x, P)
    BY <1>1, <1>2, NoFrames, ReturnEffect
  <1> QED
    BY <1>1, <1>3

\* Part 2's packages.
LEMMA Round2FramesFit ==
  ASSUME NEW s \in Signer, NEW P, NEW r, r.secret1 \in Poly, NEW type \in {"ROUND2_PKG", "REFRESH_R2"}
  PROVE  /\ UpOK(s, Round2Frames(s, r, type), P)
         /\ UpOK(s, <<Notice("REFRESH_R2_COMPLETE")>>, P)
  <1>1. PICK p \in Poly : p = r.secret1
    OBVIOUS
  <1>2. ASSUME NEW i \in 1..(N - 1)
        PROVE  /\ Round2(type, Sealed(s, IF i < s THEN i ELSE i + 1, p)) \in UpFrame
               /\ UpFits(s, Round2(type, Sealed(s, IF i < s THEN i ELSE i + 1, p)), P)
    <2>1. PICK d \in Signer : d = IF i < s THEN i ELSE i + 1
      BY PolyFacts
    <2>2. Sealed(s, d, p) \in Box /\ Sealed(s, d, p).from = s
      BY DEF Sealed, Box
    <2>3. Round2(type, Sealed(s, d, p)) \in UpFrame /\ UpFits(s, Round2(type, Sealed(s, d, p)), P)
      BY <2>2 DEF Round2, UpFrame, UpFits, Signed, BoxSig
    <2> QED
      BY <2>1, <2>3
  <1>3. PICK x : x = Round2Frames(s, r, type)
    OBVIOUS
  <1>4. x = [i \in 1..(N - 1) |-> Round2(type, Sealed(s, IF i < s THEN i ELSE i + 1, p))]
    BY <1>1, <1>3 DEF Round2Frames
  <1>5. /\ DOMAIN x = 1..(N - 1) /\ N - 1 \in Nat
        /\ \A i \in 1..(N - 1) : x[i] \in UpFrame /\ UpFits(s, x[i], P)
    BY <1>2, <1>4, PolyFacts
  <1>6. x \in Seq(UpFrame)
    BY <1>4, <1>5
  <1>7. UpOK(s, <<Notice("REFRESH_R2_COMPLETE")>>, P)
    BY DEF UpOK, UpFrame, UpFits, Notice
  <1> QED
    BY <1>3, <1>5, <1>6, <1>7 DEF UpOK

\* RELAY_R1: an accepted package is the polynomial of the signer it names.
LEMMA CollectR1Effect ==
  ASSUME SharingInv, NEW s \in Signer, NEW P, P = Fixed, signer[s].up,
         NEW f \in DownFrame, DownFits(f, P), f.type \in {"RELAY_R1", "RELAY_REFRESH_R1"},
         NEW type \in {"ROUND2_PKG", "REFRESH_R2"},
         NEW then \in {<<>>, <<Notice("REFRESH_R2_COMPLETE")>>},
         CollectR1(s, f, type, then)
  PROVE  \E r, up, x : Effect(s, r, up, x, P) /\ r.drawn = signer[s].drawn
  <1>1. PICK r0 \in SignerRecord : r0 = signer[s]
    BY SignerNow
  <1>2. SignerFits(s, r0, P, run) /\ r0.key \subseteq Held(s) \cup P
    BY <1>1, SignerNow DEF Held
  <1>3. keyFile' = keyFile /\ pubFile' = pubFile
    BY DEF CollectR1, KeepFiles
  <1> DEFINE g == [from |-> f.from, pkg |-> f.pkg]
             r == [r0 EXCEPT !.r1 = Append(@, g)]
             r2 == [r EXCEPT !.secret2 = r.secret1]
  <1>4. CASE f.sig # Signed(f.from, f.pkg)
    BY <1>3, <1>4, SameEffect DEF CollectR1
  <1>5. CASE f.sig = Signed(f.from, f.pkg)
    <2>1. f.pkg \in P /\ f.pkg.by = f.from /\ f.from \in Signer /\ f.pkg \in Poly
      BY <1>5, FixedFacts, DownFrameFacts DEF DownFits, SharingInv
    <2>2. /\ r \in SignerRecord /\ r.r1 = Append(r0.r1, g) /\ r.key = r0.key
          /\ r.secret1 = r0.secret1 /\ r.secret2 = r0.secret2 /\ r.up = r0.up
          /\ r.drawn = r0.drawn /\ r0.r1 \in Seq([from : Signer, pkg : Poly])
      <3>1. r0.r1 \in Seq([from : Signer, pkg : Poly]) /\ g \in [from : Signer, pkg : Poly]
        <4>1. r0.r1 \in Seq([from : Signer, pkg : Poly])
          BY DEF SignerRecord
        <4>2. g \in [from : Signer, pkg : Poly]
          BY <2>1
        <4> QED
          BY <4>1, <4>2
      <3>2. PICK q \in Seq([from : Signer, pkg : Poly]) : q = Append(r0.r1, g)
        <4>1. PICK Item, z, h : Item = [from : Signer, pkg : Poly] /\ z = g /\ h = r0.r1
          OBVIOUS
        <4>2. Append(h, z) \in Seq(Item)
          BY <3>1, <4>1
        <4> QED
          BY <4>1, <4>2
      <3>3. r = [r0 EXCEPT !.r1 = q]
        BY <3>2
      <3> HIDE DEF r
      <3> QED
        BY <3>1, <3>2, <3>3 DEF SignerRecord
    <2>3. \A i \in DOMAIN r.r1 : r.r1[i].pkg \in P /\ r.r1[i].pkg.by = r.r1[i].from
      <3>1. PICK q \in Seq([from : Signer, pkg : Poly]) : q = r0.r1
        BY <2>2
      <3>2. \A i \in DOMAIN q : q[i].pkg \in P /\ q[i].pkg.by = q[i].from
        BY <1>2, <3>1 DEF SignerFits
      <3>3. g.pkg \in P /\ g.pkg.by = g.from /\ g \in [from : Signer, pkg : Poly]
        BY <2>1
      <3> QED
        BY <2>2, <3>1, <3>2, <3>3
    <2>4. SignerFits(s, r, P, run)
      BY <1>1, <1>2, <2>2, <2>3 DEF SignerFits
    <2>5. /\ r2 \in SignerRecord /\ r2.secret2 = r.secret1 /\ r2.r1 = r.r1 /\ r2.key = r.key
          /\ r2.secret1 = r.secret1 /\ r2.up = r.up /\ r2.drawn = r.drawn
      <3> HIDE DEF r
      <3> QED
        BY <2>2 DEF SignerRecord
    <2>6. SignerFits(s, r2, P, run)
      BY <1>1, <2>2, <2>4, <2>5 DEF SignerFits
    <2>7. \/ Return(s, r, <<>>)
          \/ r.secret1 # NoPoly /\ Return(s, r2, Round2Frames(s, r, type) \o then)
      BY <1>1, <1>5, Zenon DEF CollectR1, Part2Accepts
    <2> HIDE DEF r, r2
    <2>8. CASE Return(s, r, <<>>)
      <3>1. \E up, x : Effect(s, r, up, x, P)
        BY <1>1, <1>2, <1>3, <2>2, <2>4, <2>8, NoFrames, ReturnEffect
      <3> QED
        BY <1>1, <2>2, <3>1
    <2>9. CASE r.secret1 # NoPoly /\ Return(s, r2, Round2Frames(s, r, type) \o then)
      <3>1. r.secret1 \in Poly
        BY <2>2, <2>9 DEF SignerRecord
      <3>2. PICK out : out = Round2Frames(s, r, type) \o then
        OBVIOUS
      <3>3. UpOK(s, out, P)
        <4>1. UpOK(s, Round2Frames(s, r, type), P) /\ UpOK(s, then, P)
          BY <3>1, Round2FramesFit, NoFrames
        <4> QED
          BY <3>2, <4>1, UpConcat
      <3>4. \E up, x : Effect(s, r2, up, x, P)
        BY <1>1, <1>2, <1>3, <2>2, <2>5, <2>6, <2>9, <3>2, <3>3, ReturnEffect
      <3> QED
        BY <1>1, <2>2, <2>5, <3>4
    <2> QED
      BY <2>7, <2>8, <2>9
  <1> QED
    BY <1>4, <1>5

\* A round-2 package changes the buffer of round 2 only.
LEMMA WithR2Fits ==
  ASSUME SharingInv, NEW s \in Signer, NEW P, P = Fixed, signer[s].up,
         NEW f \in DownFrame, f.type \in {"RELAY_R2", "RELAY_REFRESH_R2"}
  PROVE  /\ WithR2(s, f) \in SignerRecord /\ SignerFits(s, WithR2(s, f), P, run)
         /\ WithR2(s, f).key = signer[s].key /\ WithR2(s, f).drawn = signer[s].drawn
         /\ WithR2(s, f).up = signer[s].up /\ WithR2(s, f).r1 = signer[s].r1
         /\ WithR2(s, f).secret1 = signer[s].secret1
         /\ WithR2(s, f).secret2 = signer[s].secret2
  <1>1. PICK r0 \in SignerRecord : r0 = signer[s]
    BY SignerNow
  <1>2. SignerFits(s, r0, P, run)
    BY <1>1, SignerNow
  <1>3. PICK Item, slot : /\ Item = [from : 0..N, pkg : Poly \cup {NoPoly}]
                          /\ slot = IF Opens(s, f) THEN [from |-> f.box.from, pkg |-> f.box.pkg]
                                    ELSE [from |-> 0, pkg |-> NoPoly]
    OBVIOUS
  <1>4. slot \in Item
    <2>1. f.box.from \in 0..N /\ f.box.pkg \in Poly
      BY DownFrameFacts, PolyFacts DEF Box
    <2>2. 0 \in 0..N
      BY PolyFacts
    <2> QED
      BY <1>3, <2>1, <2>2
  <1>5. PICK h : h = r0.r2
    OBVIOUS
  <1>6. h \in Seq(Item)
    BY <1>3, <1>5 DEF SignerRecord
  <1>7. PICK q \in Seq(Item) : q = Append(h, slot)
    <2>1. Append(h, slot) \in Seq(Item)
      BY <1>4, <1>6
    <2> QED
      BY <2>1
  <1>8. PICK r : r = [r0 EXCEPT !.r2 = q]
    OBVIOUS
  <1>9. WithR2(s, f) = r \/ WithR2(s, f) = r0
    <2>1. r = [signer[s] EXCEPT !.r2 = Append(@, slot)]
      BY <1>1, <1>5, <1>7, <1>8
    <2> QED
      BY <1>1, <1>3, <2>1, Zenon DEF WithR2
  <1>10. /\ r \in SignerRecord /\ r.key = r0.key /\ r.drawn = r0.drawn /\ r.up = r0.up
         /\ r.r1 = r0.r1 /\ r.secret1 = r0.secret1 /\ r.secret2 = r0.secret2
    BY <1>3, <1>8 DEF SignerRecord
  <1>11. SignerFits(s, r, P, run)
    BY <1>1, <1>2, <1>10 DEF SignerFits
  <1> QED
    BY <1>1, <1>2, <1>9, <1>10, <1>11

\* What part 3 and refresh_shares add up: a polynomial of every signer.
LEMMA ContributionsFit ==
  ASSUME SharingInv, NEW s \in Signer, NEW P, P = Fixed, NEW r \in SignerRecord,
         SignerFits(s, r, P, run), Part3Accepts(s, r)
  PROVE  /\ ShareFits(Contributions(r), P, run) /\ Contributions(r) \in SUBSET Poly
         /\ Contributions(r) \subseteq P /\ Contributions(r) # {}
  <1>1. r.secret2 \in P /\ r.secret2.by = s
    BY DEF Part3Accepts, SignerFits
  <1>2. \A i \in DOMAIN r.r1 : r.r1[i].pkg \in P /\ r.r1[i].pkg.by = r.r1[i].from
    BY DEF SignerFits
  <1>3. PICK x : x = Contributions(r)
    OBVIOUS
  <1>4. x \subseteq P /\ r.secret2 \in x
    BY <1>1, <1>2, <1>3 DEF Contributions, Packages
  <1>5. /\ P \subseteq Poly
        /\ \A p \in P : p.run = run
        /\ run \in Nat
    BY FixedFacts DEF SharingInv, StateOK
  <1>6. ASSUME NEW d \in Signer PROVE \E q \in x : q.by = d
    <2>1. CASE d = s
      BY <1>1, <1>4, <2>1
    <2>2. CASE d # s
      <3>1. PICK i \in DOMAIN r.r2 : r.r2[i].from = d
        BY <2>2 DEF Part3Accepts, Senders
      <3>2. PICK j \in DOMAIN r.r1 : r.r1[j] = r.r2[i]
        BY <3>1 DEF Part3Accepts
      <3>3. r.r1[j].pkg \in x
        BY <1>3, <3>2 DEF Contributions, Packages
      <3> QED
        BY <1>2, <3>1, <3>2, <3>3
    <2> QED
      BY <2>1, <2>2
  <1>7. ShareFits(x, P, run)
    BY <1>4, <1>5, <1>6 DEF ShareFits
  <1> QED
    BY <1>3, <1>4, <1>5, <1>7

LEMMA SaveFacts ==
  ASSUME NEW s, NEW r, NEW ok, SaveKeyMaterial(s, r, ok)
  PROVE  /\ keyFile' = keyFile \/ \E y \in {r.key, Torn} : keyFile' = [keyFile EXCEPT ![s] = y]
         /\ pubFile' \in {pubFile, r.pub, Torn}
  BY DEF SaveKeyMaterial, KeepFiles

\* The new share is saved, or the process dies while it is.
LEMMA SaveEffect ==
  ASSUME SharingInv, NEW s \in Signer, NEW P, P = Fixed,
         NEW r \in SignerRecord, SignerFits(s, r, P, run), r.key \subseteq Held(s) \cup P,
         r.drawn = signer[s].drawn, r.key \in SUBSET Poly, r.pub \in SUBSET Poly,
         NEW out, UpOK(s, out, P), NEW ok,
         \/ Return(s, r, out) /\ SaveKeyMaterial(s, r, ok)
         \/ DieSaving(s, r)
  PROVE  \E r2, up, x : Effect(s, r2, up, x, P) /\ r2.drawn = signer[s].drawn
  <1>1. CASE Return(s, r, out) /\ SaveKeyMaterial(s, r, ok)
    <2>1. \E up, x : Effect(s, r, up, x, P)
      BY <1>1, SaveFacts, ReturnEffect
    <2> QED
      BY <2>1
  <1>2. CASE DieSaving(s, r)
    <2>1. PICK x \in {r.key, Torn} : keyFile' = [keyFile EXCEPT ![s] = x] /\ pubFile' \in {pubFile, Torn}
      BY <1>2 DEF DieSaving
    <2>2. Die(s)
      BY <1>2 DEF DieSaving
    <2>3. PICK rd : rd = Down(signer[s].drawn)
      OBVIOUS
    <2>4. \E up : Effect(s, rd, up, x, P)
      BY <2>1, <2>2, <2>3, DieEffect
    <2>5. rd.drawn = signer[s].drawn
      BY <2>3, SignerNow, BlankFits
    <2> QED
      BY <2>4, <2>5
  <1> QED
    BY <1>1, <1>2

LEMMA SetKey ==
  ASSUME NEW s \in Signer, NEW P, NEW n, NEW r, SignerFits(s, r, P, n), r.up,
         NEW new, ShareFits(new.key, P, n), new.up = r.up, new.r1 = r.r1,
         new.secret1 = r.secret1, new.secret2 = r.secret2
  PROVE  SignerFits(s, new, P, n)
  BY DEF SignerFits

LEMMA ReportsFit ==
  ASSUME NEW s, NEW P, NEW pub \in SUBSET Poly
  PROVE  /\ UpOK(s, <<Notice("R2_COMPLETE"), PubKeyPkg(pub)>>, P)
         /\ UpOK(s, <<RefreshComplete(pub)>>, P)
  <1>1. /\ Notice("R2_COMPLETE") \in UpFrame /\ PubKeyPkg(pub) \in UpFrame
        /\ RefreshComplete(pub) \in UpFrame
    BY DEF Notice, PubKeyPkg, RefreshComplete, UpFrame
  <1>2. /\ UpFits(s, Notice("R2_COMPLETE"), P) /\ UpFits(s, PubKeyPkg(pub), P)
        /\ UpFits(s, RefreshComplete(pub), P)
    BY DEF Notice, PubKeyPkg, RefreshComplete, UpFits
  <1> QED
    BY <1>1, <1>2 DEF UpOK

\* RELAY_R2: the new share is the polynomials of this run.
LEMMA RelayR2Effect ==
  ASSUME SharingInv, NEW s \in Signer, NEW P, P = Fixed, signer[s].up,
         NEW f \in DownFrame, f.type = "RELAY_R2", OnRelayR2(s, f)
  PROVE  \E r, up, x : Effect(s, r, up, x, P) /\ r.drawn = signer[s].drawn
  <1>1. PICK r : r = WithR2(s, f)
    OBVIOUS
  <1>2. /\ r \in SignerRecord /\ SignerFits(s, r, P, run) /\ r.up
        /\ r.key = signer[s].key /\ r.drawn = signer[s].drawn
    BY <1>1, WithR2Fits
  <1>3. r.key \subseteq Held(s) \cup P
    BY <1>2 DEF Held
  <1>4. PICK c : c = Contributions(r)
    OBVIOUS
  <1>5. PICK new : new = [r EXCEPT !.key = c, !.pub = c]
    OBVIOUS
  <1>6. \/ Return(s, r, <<>>) /\ KeepFiles
        \/ /\ Part3Accepts(s, r)
           /\ \/ /\ Return(s, new, <<Notice("R2_COMPLETE"), PubKeyPkg(new.pub)>>)
                 /\ \E ok \in BOOLEAN : SaveKeyMaterial(s, new, ok)
              \/ DieSaving(s, new)
    BY <1>1, <1>4, <1>5, Zenon DEF OnRelayR2
  <1>7. CASE Return(s, r, <<>>) /\ KeepFiles
    <2>1. \E up, x : Effect(s, r, up, x, P)
      BY <1>2, <1>3, <1>7, NoFrames, ReturnEffect DEF KeepFiles
    <2> QED
      BY <1>2, <2>1
  <1>8. CASE /\ Part3Accepts(s, r)
             /\ \/ /\ Return(s, new, <<Notice("R2_COMPLETE"), PubKeyPkg(new.pub)>>)
                   /\ \E ok \in BOOLEAN : SaveKeyMaterial(s, new, ok)
                \/ DieSaving(s, new)
    <2>1. ShareFits(c, P, run) /\ c \in SUBSET Poly /\ c \subseteq P
      BY <1>2, <1>4, <1>8, ContributionsFit
    <2>2. /\ new \in SignerRecord /\ SignerFits(s, new, P, run)
          /\ new.key = c /\ new.pub = c /\ new.drawn = signer[s].drawn
      <3>1. PICK n : n = run
        OBVIOUS
      <3>2. SignerFits(s, r, P, n) /\ ShareFits(c, P, n)
        BY <1>2, <2>1, <3>1
      <3>3. c \in SUBSET Poly
        BY <3>2 DEF ShareFits
      <3>4. /\ new \in SignerRecord /\ new.key = c /\ new.pub = c /\ new.drawn = r.drawn
            /\ new.up = r.up /\ new.r1 = r.r1 /\ new.secret1 = r.secret1
            /\ new.secret2 = r.secret2
        BY <1>2, <1>5, <3>3 DEF SignerRecord
      <3>5. SignerFits(s, new, P, n)
        BY <1>2, <3>2, <3>4, SetKey
      <3> QED
        BY <1>2, <3>1, <3>4, <3>5
    <2>3. PICK out : out = <<Notice("R2_COMPLETE"), PubKeyPkg(new.pub)>>
      OBVIOUS
    <2>4. UpOK(s, out, P)
      BY <2>1, <2>2, <2>3, ReportsFit
    <2>5. new.key \subseteq Held(s) \cup P
      BY <2>1, <2>2
    <2>6. CASE DieSaving(s, new)
      BY <2>1, <2>2, <2>4, <2>5, <2>6, SaveEffect
    <2>7. CASE Return(s, new, out) /\ \E ok \in BOOLEAN : SaveKeyMaterial(s, new, ok)
      <3>1. PICK ok \in BOOLEAN : SaveKeyMaterial(s, new, ok)
        BY <2>7
      <3> QED
        BY <2>1, <2>2, <2>4, <2>5, <2>7, <3>1, SaveEffect
    <2> QED
      BY <1>8, <2>3, <2>6, <2>7, Zenon
  <1> QED
    BY <1>6, <1>7, <1>8

LEMMA RelayRefreshR2Effect ==
  ASSUME SharingInv, NEW s \in Signer, NEW P, P = Fixed, signer[s].up,
         NEW f \in DownFrame, f.type = "RELAY_REFRESH_R2", OnRelayRefreshR2(s, f)
  PROVE  \E r, up, x : Effect(s, r, up, x, P) /\ r.drawn = signer[s].drawn
  <1>1. PICK r : r = WithR2(s, f)
    OBVIOUS
  <1>2. /\ r \in SignerRecord /\ SignerFits(s, r, P, run)
        /\ r.key = signer[s].key /\ r.drawn = signer[s].drawn
    BY <1>1, WithR2Fits
  <1>3. r.key \subseteq Held(s) \cup P
    BY <1>2 DEF Held
  <1>4. Return(s, r, <<>>) /\ keyFile' = keyFile /\ pubFile' = pubFile
    BY <1>1 DEF OnRelayRefreshR2, KeepFiles
  <1>5. \E up, x : Effect(s, r, up, x, P)
    BY <1>2, <1>3, <1>4, NoFrames, ReturnEffect
  <1> QED
    BY <1>2, <1>5

\* REFRESH_FINALIZE: the new share is the old one and the polynomials of this
\* run.
LEMMA FinalizeEffect ==
  ASSUME SharingInv, NEW s \in Signer, NEW P, P = Fixed, signer[s].up, OnRefreshFinalize(s)
  PROVE  \E r, up, x : Effect(s, r, up, x, P) /\ r.drawn = signer[s].drawn
  <1>1. PICK r \in SignerRecord : r = signer[s]
    BY SignerNow
  <1>2. SignerFits(s, r, P, run) /\ r.key \subseteq Held(s) \cup P /\ r.up
    BY <1>1, SignerNow DEF Held
  <1>3. PICK c : c = Contributions(r)
    OBVIOUS
  <1>4. PICK key, pub : key = r.key \cup c /\ pub = r.pub \cup c
    OBVIOUS
  <1>5. PICK new : new = [r EXCEPT !.key = key, !.pub = pub]
    OBVIOUS
  <1>6. new = [r EXCEPT !.key = @ \cup Contributions(r), !.pub = @ \cup Contributions(r)]
    BY <1>3, <1>4, <1>5
  <1>7. \/ Return(s, r, <<>>) /\ KeepFiles
        \/ /\ Part3Accepts(s, r)
           /\ \/ \E ok \in BOOLEAN :
                   /\ Return(s, new, IF ok THEN <<RefreshComplete(new.pub)>> ELSE <<>>)
                   /\ SaveKeyMaterial(s, new, ok)
              \/ DieSaving(s, new)
    BY <1>1, <1>6, Zenon DEF OnRefreshFinalize
  <1>8. CASE Return(s, r, <<>>) /\ KeepFiles
    BY <1>1, <1>8, SameEffect DEF KeepFiles
  <1>9. CASE /\ Part3Accepts(s, r)
             /\ \/ \E ok \in BOOLEAN :
                     /\ Return(s, new, IF ok THEN <<RefreshComplete(new.pub)>> ELSE <<>>)
                     /\ SaveKeyMaterial(s, new, ok)
                \/ DieSaving(s, new)
    <2>1. ShareFits(c, P, run) /\ c \in SUBSET Poly /\ c \subseteq P
      BY <1>2, <1>3, <1>9, ContributionsFit
    <2>2. ShareFits(key, P, run)
      BY <1>2, <1>4, <2>1, ShareUnion DEF SignerFits
    <2>3. pub \in SUBSET Poly
      BY <1>4, <2>1 DEF SignerRecord
    <2>4. /\ new \in SignerRecord /\ SignerFits(s, new, P, run)
          /\ new.key = key /\ new.pub = pub /\ new.drawn = signer[s].drawn
      <3>1. PICK n : n = run
        OBVIOUS
      <3>2. SignerFits(s, r, P, n) /\ ShareFits(key, P, n)
        BY <1>2, <2>2, <3>1
      <3>3. key \in SUBSET Poly
        BY <3>2 DEF ShareFits
      <3>4. /\ new \in SignerRecord /\ new.key = key /\ new.pub = pub /\ new.drawn = r.drawn
            /\ new.up = r.up /\ new.r1 = r.r1 /\ new.secret1 = r.secret1
            /\ new.secret2 = r.secret2
        BY <1>5, <2>3, <3>3 DEF SignerRecord
      <3>5. SignerFits(s, new, P, n)
        BY <1>2, <3>2, <3>4, SetKey
      <3> QED
        BY <1>1, <3>1, <3>4, <3>5
    <2>5. UpOK(s, <<RefreshComplete(new.pub)>>, P) /\ UpOK(s, <<>>, P)
      BY <2>3, <2>4, ReportsFit, NoFrames
    <2>6. new.key \subseteq Held(s) \cup P /\ new.key \in SUBSET Poly /\ new.pub \in SUBSET Poly
      BY <1>2, <1>4, <2>1, <2>2, <2>3, <2>4 DEF ShareFits
    <2>7. r.drawn = signer[s].drawn
      BY <1>1
    <2>8. CASE DieSaving(s, new)
      BY <2>4, <2>5, <2>6, <2>7, <2>8, SaveEffect
    <2>9. ASSUME NEW ok \in BOOLEAN,
                 Return(s, new, IF ok THEN <<RefreshComplete(new.pub)>> ELSE <<>>),
                 SaveKeyMaterial(s, new, ok)
          PROVE  \E r2, up, x : Effect(s, r2, up, x, P) /\ r2.drawn = signer[s].drawn
      <3>1. PICK out : out = IF ok THEN <<RefreshComplete(new.pub)>> ELSE <<>>
        OBVIOUS
      <3>2. UpOK(s, out, P)
        BY <2>5, <3>1
      <3>3. Return(s, new, out)
        BY <2>9, <3>1
      <3> QED
        BY <2>4, <2>6, <2>7, <2>9, <3>2, <3>3, SaveEffect
    <2> QED
      BY <1>9, <2>8, <2>9
  <1> QED
    BY <1>7, <1>8, <1>9

LEMMA CoordClosedEffect ==
  ASSUME SharingInv, NEW s \in Signer, NEW P, P = Fixed, OnCoordClosed(s)
  PROVE  \E r, up, x : Effect(s, r, up, x, P) /\ r.drawn = signer[s].drawn
  <1>1. PICK r0 \in SignerRecord : r0 = signer[s]
    BY SignerNow
  <1>2. PICK r : r = Down(r0.drawn)
    OBVIOUS
  <1>3. /\ r \in SignerRecord /\ SignerFits(s, r, P, run) /\ r.drawn = r0.drawn /\ r.key = {}
    BY <1>2, BlankFits
  <1>4. /\ signer' = [signer EXCEPT ![s] = r] /\ toC' = toC /\ keyFile' = keyFile
        /\ pubFile' = pubFile
    BY <1>1, <1>2, Zenon DEF OnCoordClosed, KeepFiles, Down
  <1>5. toC' = [toC EXCEPT ![s] = toC[s]] /\ keyFile' = [keyFile EXCEPT ![s] = keyFile[s]]
    BY <1>4, SignerNow DEF SharingInv, TablesOK
  <1>6. PICK up, x : up = toC[s] /\ x = keyFile[s]
    OBVIOUS
  <1>7. UpOK(s, up, P) /\ FileFits(x, P, run) /\ PubOK(pubFile')
    BY <1>4, <1>6, SignerNow
  <1>8. r.key \cup (x \ {NoPoly}) \subseteq Held(s) \cup P
    BY <1>3, <1>6 DEF Held
  <1>9. Effect(s, r, up, x, P)
    BY <1>3, <1>4, <1>5, <1>6, <1>7, <1>8 DEF Effect
  <1> QED
    BY <1>1, <1>3, <1>9

\* A signer takes the next frame.
LEMMA PopDown ==
  ASSUME SharingInv, NEW s \in Signer, NEW dn, dn = toS[s], dn # <<>>,
         NEW f, f = Head(dn), NEW rest, rest = Tail(dn),
         toS' = [toS EXCEPT ![s] = rest], dkgState' = dkgState
  PROVE  /\ StartOnce(s)' /\ \A d \in Signer : Pending(d)' => Pending(d)
         /\ IsStart(f) => Pending(s) /\ Begun(s)'
  <1>1. toS \in [Signer -> Seq(DownFrame)] /\ StartOnce(s)
    BY DEF SharingInv, TablesOK, Connection
  <1>2. dn \in Seq(DownFrame) /\ Tail(dn) \in Seq(DownFrame)
    BY <1>1
  <1>3. /\ Len(dn) \in Nat \ {0} /\ DOMAIN dn = 1..Len(dn)
        /\ DOMAIN Tail(dn) = 1..(Len(dn) - 1) /\ Head(dn) = dn[1]
        /\ \A i \in 1..(Len(dn) - 1) : Tail(dn)[i] = dn[i + 1]
    BY <1>2
  <1>4. toS'[s] = Tail(dn) /\ \A d \in Signer \ {s} : toS'[d] = toS[d]
    BY <1>1
  <1>5. \A i, j \in DOMAIN dn : IsStart(dn[i]) /\ IsStart(dn[j]) => dkgState # "IDLE" /\ i = j
    BY <1>1 DEF StartOnce
  <1>6. \A i \in 1..(Len(dn) - 1) : i + 1 \in DOMAIN dn /\ i \in Int
    BY <1>3
  <1>7. StartOnce(s)'
    <2>1. PICK q : q = Tail(dn)
      OBVIOUS
    <2>2. ASSUME NEW i \in DOMAIN q, NEW j \in DOMAIN q, IsStart(q[i]), IsStart(q[j])
          PROVE  dkgState # "IDLE" /\ i = j
      <3>1. /\ i \in 1..(Len(dn) - 1) /\ j \in 1..(Len(dn) - 1)
            /\ q[i] = dn[i + 1] /\ q[j] = dn[j + 1]
        BY <1>3, <2>1
      <3>2. dkgState # "IDLE" /\ i + 1 = j + 1
        BY <1>5, <1>6, <2>2, <3>1
      <3> QED
        BY <1>6, <3>1, <3>2
    <2>3. toS'[s] = q
      BY <1>4, <2>1
    <2> QED
      BY <2>2, <2>3, Zenon DEF StartOnce
  <1>8. \A d \in Signer : Pending(d)' => Pending(d)
    BY <1>3, <1>4, <1>6 DEF Pending
  <1>9. ASSUME IsStart(f) PROVE Pending(s) /\ Begun(s)'
    <2>1. 1 \in DOMAIN dn /\ IsStart(dn[1])
      BY <1>3, <1>9
    <2>2. Pending(s) /\ dkgState # "IDLE"
      BY <1>5, <2>1 DEF Pending
    <2>3. \A i \in 1..(Len(dn) - 1) : ~IsStart(dn[i + 1])
      BY <1>3, <1>5, <1>6, <2>1
    <2>4. ~Pending(s)'
      BY <1>3, <1>4, <2>3 DEF Pending
    <2> QED
      BY <2>2, <2>4 DEF Begun
  <1> QED
    BY <1>7, <1>8, <1>9

\* A handler that draws no polynomial.
LEMMA EffectSharing ==
  ASSUME SharingInv, NEW s \in Signer, NEW P, P = Fixed,
         NEW r, NEW up, NEW x, Effect(s, r, up, x, P), r.drawn = signer[s].drawn,
         run' = run, UNCHANGED coordVars, disturbed' \in BOOLEAN,
         NEW dn, toS' = [toS EXCEPT ![s] = dn], DownOK(dn, P), StartOnce(s)',
         \A d \in Signer : Pending(d)' => Pending(d)
  PROVE  SharingInv'
  <1>1. \A d \in Signer : signer'[d].drawn = signer[d].drawn
    BY DEF SharingInv, TablesOK, Effect
  <1>2. dkgState' = dkgState
    BY DEF coordVars
  <1>3. \A d \in Signer : Begun(d) => ~Pending(d)' /\ signer'[d].drawn = signer[d].drawn
    BY <1>1 DEF Begun
  <1>4. PICK Q : Q = Fixed'
    OBVIOUS
  <1>5. P \subseteq Q
    BY <1>2, <1>3, <1>4, FixedGrows
  <1>6. Effect(s, r, up, x, Q) /\ DownOK(dn, Q)
    BY <1>5, EffectMono, DownMono
  <1> QED
    BY <1>4, <1>5, <1>6, SignerSide

\* START: the signer's polynomial stands from now on.
LEMMA StartSharing ==
  ASSUME SharingInv, NEW s \in Signer, signer[s].up, Pending(s), Begun(s)',
         NEW type \in {"ROUND1_PKG", "REFRESH_R1"}, Start(s, type),
         run' = run, UNCHANGED coordVars, disturbed' \in BOOLEAN,
         NEW dn, toS' = [toS EXCEPT ![s] = dn], DownOK(dn, Fixed), StartOnce(s)',
         \A d \in Signer : Pending(d)' => Pending(d)
  PROVE  SharingInv'
  <1>1. \A d \in Signer \ {s} : signer'[d] = signer[d]
    BY DEF SharingInv, TablesOK, Start, Return
  <1>2. dkgState' = dkgState /\ ~Begun(s)
    BY DEF coordVars, Begun
  <1>3. \A d \in Signer : Begun(d) => ~Pending(d)' /\ signer'[d].drawn = signer[d].drawn
    BY <1>1, <1>2 DEF Begun
  <1>4. PICK P, Q : P = Fixed /\ Q = Fixed'
    OBVIOUS
  <1>5. P \subseteq Q
    BY <1>2, <1>3, <1>4, FixedGrows
  <1>6. DownOK(dn, Q)
    BY <1>4, <1>5, DownMono
  <1>7. PICK r, up, x : Effect(s, r, up, x, Q)
    BY <1>4, <1>5, StartEffect
  <1> QED
    BY <1>4, <1>5, <1>6, <1>7, SignerSide

LEMMA SignerStepSharing ==
  ASSUME SharingInv, NEW s \in Signer, SignerStep(s)
  PROVE  SharingInv'
  <1>1. PICK P, dn : P = Fixed /\ dn = toS[s]
    OBVIOUS
  <1>2. PICK f, rest : f = Head(dn) /\ rest = Tail(dn)
    OBVIOUS
  <1>3. /\ signer[s].up /\ dn # <<>> /\ ProcessCoordFrame(s, f)
        /\ toS' = [toS EXCEPT ![s] = Tail(@)] /\ run' = run /\ UNCHANGED coordVars /\ Note
    BY <1>1, <1>2 DEF SignerStep
  <1>4. disturbed' \in BOOLEAN
    BY <1>3, Zenon DEF Note
  <1>5. dkgState' = dkgState
    BY <1>3 DEF coordVars
  <1>6. /\ StartOnce(s)' /\ toS' = [toS EXCEPT ![s] = rest]
        /\ \A d \in Signer : Pending(d)' => Pending(d)
        /\ IsStart(f) => Pending(s) /\ Begun(s)'
    <2>1. toS' = [toS EXCEPT ![s] = rest]
      BY <1>1, <1>2, <1>3
    <2>2. StartOnce(s)' /\ \A d \in Signer : Pending(d)' => Pending(d)
      BY <1>1, <1>2, <1>3, <1>5, <2>1, PopDown
    <2>3. IsStart(f) => Pending(s) /\ Begun(s)'
      BY <1>1, <1>2, <1>3, <1>5, <2>1, PopDown
    <2> QED
      BY <2>1, <2>2, <2>3
  <1>7. DownOK(rest, P) /\ f \in DownFrame /\ DownFits(f, P)
    <2>1. DownOK(dn, P)
      BY <1>1 DEF SharingInv, Connection
    <2> QED
      BY <1>2, <1>3, <2>1, DownTail
  <1>8. CASE \/ f.type = "START_DKG" /\ OnStartDkg(s)
             \/ f.type = "START_REFRESH" /\ OnStartRefresh(s)
    <2>1. PICK type \in {"ROUND1_PKG", "REFRESH_R1"} : Start(s, type)
      BY <1>8 DEF OnStartDkg, OnStartRefresh
    <2>2. Pending(s) /\ Begun(s)'
      BY <1>6, <1>8 DEF IsStart
    <2> QED
      BY <1>1, <1>3, <1>4, <1>6, <1>7, <2>1, <2>2, StartSharing
  <1>9. CASE ~(\/ f.type = "START_DKG" /\ OnStartDkg(s)
               \/ f.type = "START_REFRESH" /\ OnStartRefresh(s))
    <2>1. \E r, up, x : Effect(s, r, up, x, P) /\ r.drawn = signer[s].drawn
      <3>1. CASE f.type = "HELLO_ACK" /\ OnHelloAck(s, f.mode)
        BY <1>1, <1>3, <3>1, HelloAckEffect
      <3>2. CASE \/ f.type = "RELAY_R1" /\ OnRelayR1(s, f)
                 \/ f.type = "RELAY_REFRESH_R1" /\ OnRelayRefreshR1(s, f)
        BY <1>1, <1>3, <1>7, <3>2, CollectR1Effect DEF OnRelayR1, OnRelayRefreshR1
      <3>3. CASE f.type = "RELAY_R2" /\ OnRelayR2(s, f)
        BY <1>1, <1>3, <1>7, <3>3, RelayR2Effect
      <3>4. CASE f.type = "RELAY_REFRESH_R2" /\ OnRelayRefreshR2(s, f)
        BY <1>1, <1>3, <1>7, <3>4, RelayRefreshR2Effect
      <3>5. CASE f.type = "REFRESH_FINALIZE" /\ OnRefreshFinalize(s)
        BY <1>1, <1>3, <3>5, FinalizeEffect
      <3>6. CASE f.type \in {"DKG_DONE", "REFRESH_CONFIRMED"} /\ OnAnnouncement(s)
        BY <1>1, <3>6, SameEffect DEF OnAnnouncement, KeepFiles
      <3>7. CASE f.type = "CLOSED" /\ OnCoordClosed(s)
        BY <1>1, <3>7, CoordClosedEffect
      <3> QED
        BY <1>3, <1>9, <3>1, <3>2, <3>3, <3>4, <3>5, <3>6, <3>7 DEF ProcessCoordFrame
    <2>2. PICK r, up, x : Effect(s, r, up, x, P) /\ r.drawn = signer[s].drawn
      BY <2>1
    <2> QED
      BY <1>1, <1>3, <1>4, <1>6, <1>7, <2>2, EffectSharing
  <1> QED
    BY <1>8, <1>9

LEMMA CrashSharing ==
  ASSUME SharingInv, NEW s \in Signer, Crash(s)
  PROVE  SharingInv'
  <1>1. PICK P, dn, x : P = Fixed /\ dn = toS[s] /\ x = keyFile[s]
    OBVIOUS
  <1>2. /\ Die(s) /\ keyFile' = keyFile /\ pubFile' = pubFile /\ run' = run /\ toS' = toS
        /\ UNCHANGED coordVars /\ Note
    BY DEF Crash, KeepFiles
  <1>3. disturbed' \in BOOLEAN
    BY <1>2, Zenon DEF Note
  <1>4. PICK r0 \in SignerRecord : r0 = signer[s]
    BY SignerNow
  <1>5. SignerFits(s, r0, P, run) /\ r0.key \subseteq Held(s) \cup P
    BY <1>1, <1>4, SignerNow DEF Held
  <1>6. keyFile' = [keyFile EXCEPT ![s] = x] /\ toS' = [toS EXCEPT ![s] = dn]
    BY <1>1, <1>2 DEF SharingInv, TablesOK
  <1>7. PICK r : r = Down(r0.drawn)
    OBVIOUS
  <1>8. \E up : Effect(s, r, up, x, P)
    BY <1>1, <1>2, <1>4, <1>5, <1>6, <1>7, DieEffect
  <1>9. PICK up : Effect(s, r, up, x, P)
    BY <1>8
  <1>10. r.drawn = signer[s].drawn
    BY <1>4, <1>7, BlankFits
  <1>11. DownOK(dn, P) /\ StartOnce(s)' /\ \A d \in Signer : Pending(d)' => Pending(d)
    BY <1>1, <1>2 DEF SharingInv, Connection, StartOnce, Pending, coordVars
  <1> QED
    BY <1>1, <1>2, <1>3, <1>6, <1>9, <1>10, <1>11, EffectSharing

-----------------------------------------------------------------------------
(* A signer connects.                                                      *)

LEMMA PromotedFrames ==
  ASSUME mode \in Modes, NEW P
  PROVE  /\ DownOK(<<HelloAck(mode)>>, P) /\ ~IsStart(HelloAck(mode))
         /\ StartFrame \in DownFrame /\ DownFits(StartFrame, P)
  <1>1. mode \in {"D", "R"}
    BY KeyCeremonyAssumption
  <1>2. /\ HelloAck(mode) \in DownFrame /\ DownFits(HelloAck(mode), P)
        /\ ~IsStart(HelloAck(mode))
    BY <1>1 DEF HelloAck, DownFrame, DownFits, IsStart
  <1>3. StartFrame \in DownFrame /\ DownFits(StartFrame, P)
    BY DEF StartFrame, StartDkg, StartRefresh, DownFrame, DownFits
  <1> QED
    BY <1>2, <1>3 DEF DownOK

\* What a promotion does to the stream of d.
LEMMA PromotedStreams ==
  ASSUME SharingInv, NEW s \in Signer, Promote(s), NEW d \in Signer, NEW P, DownOK(toS[d], P)
  PROVE  /\ DownOK(toS'[d], P) /\ StartOnce(d)'
         /\ dkgState # "IDLE" => dkgState' # "IDLE" /\ (Pending(d)' => Pending(d))
  <1>1. toS \in [Signer -> Seq(DownFrame)] /\ StartOnce(d) /\ mode \in Modes
    BY DEF SharingInv, StateOK, TablesOK, Connection
  <1>2. PICK ack, start : ack = HelloAck(mode) /\ start = StartFrame
    OBVIOUS
  <1>3. PICK old : old = IF d = s THEN <<ack>> ELSE toS[d]
    OBVIOUS
  <1>4. /\ DownOK(<<ack>>, P) /\ ~IsStart(ack) /\ start \in DownFrame /\ DownFits(start, P)
    BY <1>1, <1>2, PromotedFrames
  <1>5. old \in Seq(DownFrame) /\ DownOK(old, P)
    BY <1>3, <1>4 DEF DownOK
  <1>6. [toS EXCEPT ![s] = <<ack>>][d] = old
    BY <1>1, <1>3
  <1>7. \A i \in DOMAIN old : IsStart(old[i]) => d # s
    BY <1>3, <1>4
  <1>8. CASE dkgState' = dkgState /\ toS'[d] = old
    BY <1>1, <1>3, <1>5, <1>7, <1>8 DEF StartOnce, Pending
  <1>9. CASE dkgState = "IDLE" /\ dkgState' = "R1" /\ toS'[d] \in {old, Append(old, start)}
    <2>1. \A i \in DOMAIN old : ~IsStart(old[i])
      BY <1>1, <1>3, <1>7, <1>9 DEF StartOnce
    <2>2. DownOK(Append(old, start), P)
      BY <1>4, <1>5, DownAppend
    <2>3. PICK new : new = toS'[d]
      OBVIOUS
    <2>4. \A i \in DOMAIN new : IsStart(new[i]) => i = Len(old) + 1
      <3>1. CASE new = old
        BY <2>1, <3>1
      <3>2. CASE new = Append(old, start)
        BY <1>4, <1>5, <2>1, <3>2
      <3> QED
        BY <1>9, <2>3, <3>1, <3>2
    <2>5. StartOnce(d)'
      BY <1>9, <2>3, <2>4 DEF StartOnce
    <2> QED
      BY <1>5, <1>9, <2>2, <2>5
  <1>10. \/ dkgState' = dkgState /\ toS' = [toS EXCEPT ![s] = <<ack>>]
         \/ /\ dkgState = "IDLE" /\ dkgState' = "R1"
            /\ toS' = [e \in Signer |-> IF e \in Listed \cup {s}
                                          THEN Append([toS EXCEPT ![s] = <<ack>>][e], start)
                                          ELSE [toS EXCEPT ![s] = <<ack>>][e]]
    BY <1>2, Zenon DEF Promote, Starts
  <1>11. CASE dkgState' = dkgState /\ toS' = [toS EXCEPT ![s] = <<ack>>]
    BY <1>6, <1>8, <1>11
  <1>12. CASE /\ dkgState = "IDLE" /\ dkgState' = "R1"
              /\ toS' = [e \in Signer |-> IF e \in Listed \cup {s}
                                            THEN Append([toS EXCEPT ![s] = <<ack>>][e], start)
                                            ELSE [toS EXCEPT ![s] = <<ack>>][e]]
    <2>1. toS'[d] \in {old, Append(old, start)}
      BY <1>6, <1>12, Zenon
    <2> QED
      BY <1>9, <1>12, <2>1
  <1> QED
    BY <1>10, <1>11, <1>12

LEMMA BlankEntryFits ==
  ASSUME NEW s, NEW P PROVE BlankEntry \in EntryRecord /\ EntryFits(s, BlankEntry, P)
  <1>1. NoR1 \in [pkg : Poly \cup {NoPoly}, sig : Sig]
    BY PolyFacts DEF NoR1, Signed, Sig
  <1> QED
    BY <1>1 DEF BlankEntry, EntryRecord, EntryFits, NoPackage

LEMMA ConnectSharing ==
  ASSUME SharingInv, NEW s \in Signer, Connect(s)
  PROVE  SharingInv'
  <1>1. /\ s \notin Listed /\ toC' = [toC EXCEPT ![s] = <<>>] /\ Promote(s) /\ Note
        /\ signer' = [signer EXCEPT ![s] = FreshSigner(@.drawn)]
        /\ UNCHANGED <<keyFile, pubFile, run>>
    BY DEF Connect, KeepFiles
  <1>2. /\ signer \in [Signer -> SignerRecord] /\ toC \in [Signer -> Seq(UpFrame)]
        /\ toS \in [Signer -> Seq(DownFrame)] /\ entry \in [Signer -> EntryRecord]
        /\ keyFile \in [Signer -> SUBSET (Poly \cup {NoPoly})]
        /\ \A d \in Signer : Connection(d)
    BY DEF SharingInv, TablesOK
  <1>3. /\ list' = <<s>> \o list /\ entry' = [entry EXCEPT ![s] = BlankEntry]
        /\ UNCHANGED <<mode, count, done, stored, running>>
        /\ dkgState' \in {dkgState, "R1"}
    BY <1>1 DEF Promote
  <1>4. StateOK'
    <2>1. PICK new, old : new = list' /\ old = list
      OBVIOUS
    <2>2. old \in Seq(Signer) /\ \A i, j \in DOMAIN old : old[i] = old[j] => i = j
      BY <2>1 DEF SharingInv, StateOK
    <2>3. \A i \in DOMAIN old : old[i] # s
      BY <1>1, <2>1 DEF Listed
    <2>4. new \in Seq(Signer)
      BY <1>3, <2>1, <2>2
    <2>5. /\ Len(old) \in Nat /\ DOMAIN old = 1..Len(old) /\ DOMAIN new = 1..(Len(old) + 1)
          /\ new[1] = s /\ \A i \in 2..(Len(old) + 1) : new[i] = old[i - 1]
      BY <1>3, <2>1, <2>2
    <2>6. ASSUME NEW i \in DOMAIN new, NEW j \in DOMAIN new, new[i] = new[j] PROVE i = j
      <3>1. CASE i = 1 \/ j = 1
        BY <2>3, <2>5, <2>6, <3>1
      <3>2. CASE i # 1 /\ j # 1
        <4>1. /\ i - 1 \in DOMAIN old /\ j - 1 \in DOMAIN old
              /\ old[i - 1] = old[j - 1]
          BY <2>5, <2>6, <3>2
        <4>2. i - 1 = j - 1
          BY <2>2, <4>1
        <4> QED
          BY <2>5, <4>2
      <3> QED
        BY <3>1, <3>2
    <2>7. disturbed' \in BOOLEAN
      BY <1>1, Zenon DEF Note
    <2>8. UNCHANGED <<pubFile, run>>
      BY <1>1
    <2> QED
      BY <1>3, <2>1, <2>4, <2>6, <2>7, <2>8 DEF SharingInv, StateOK
  <1>5. PICK P, Q : P = Fixed /\ Q = Fixed'
    OBVIOUS
  <1>6. PICK r0 \in SignerRecord : r0 = signer[s]
    BY <1>2
  <1>7. PICK r : r = FreshSigner(r0.drawn)
    OBVIOUS
  <1>8. /\ r \in SignerRecord /\ SignerFits(s, r, Q, run) /\ r.drawn = r0.drawn /\ r.key = {}
    BY <1>7, BlankFits
  <1>9. signer' = [signer EXCEPT ![s] = r]
    BY <1>1, <1>6, <1>7
  <1>10. /\ signer'[s] = r /\ toC'[s] = <<>> /\ entry'[s] = BlankEntry
         /\ \A d \in Signer \ {s} : /\ signer'[d] = signer[d] /\ toC'[d] = toC[d]
                                    /\ entry'[d] = entry[d]
    BY <1>1, <1>2, <1>3, <1>9
  <1>11. \A d \in Signer :
           /\ DownOK(toS'[d], P) /\ StartOnce(d)'
           /\ dkgState # "IDLE" => dkgState' # "IDLE" /\ (Pending(d)' => Pending(d))
    <2> SUFFICES ASSUME NEW d \in Signer
                 PROVE  /\ DownOK(toS'[d], P) /\ StartOnce(d)'
                        /\ dkgState # "IDLE" => dkgState' # "IDLE" /\ (Pending(d)' => Pending(d))
      OBVIOUS
    <2>1. DownOK(toS[d], P)
      BY <1>2, <1>5 DEF Connection
    <2> QED
      BY <1>1, <2>1, PromotedStreams
  <1>12. P \subseteq Q
    <2>1. \A d \in Signer : signer'[d].drawn = signer[d].drawn
      BY <1>6, <1>8, <1>10
    <2>2. \A d \in Signer : Begun(d) => ~Pending(d)' /\ signer'[d].drawn = signer[d].drawn
      BY <1>11, <2>1 DEF Begun
    <2>3. dkgState # "IDLE" => dkgState' # "IDLE"
      BY <1>6, <1>11
    <2> QED
      BY <1>1, <1>5, <2>2, <2>3, FixedGrows
  <1>13. TablesOK'
    <2>1. signer' \in [Signer -> SignerRecord]
      BY <1>2, <1>8, <1>9
    <2>2. toC' \in [Signer -> Seq(UpFrame)]
      <3>1. <<>> \in Seq(UpFrame)
        OBVIOUS
      <3> QED
        BY <1>1, <1>2, <3>1
    <2>3. entry' \in [Signer -> EntryRecord]
      BY <1>2, <1>3, BlankEntryFits
    <2>4. toS' \in [Signer -> Seq(DownFrame)]
      <3>1. \A d \in Signer : toS'[d] \in Seq(DownFrame)
        BY <1>11 DEF DownOK
      <3>2. toS' = [d \in Signer |-> toS'[d]]
        BY <1>1, <1>2 DEF Promote
      <3> QED
        BY <3>1, <3>2, Zenon
    <2> QED
      BY <1>1, <1>2, <2>1, <2>2, <2>3, <2>4 DEF TablesOK
  <1>14. ASSUME NEW d \in Signer PROVE Connection(d)'
    <2>1. PICK rd, upd, dnd, e, xd, n :
            /\ rd = signer[d] /\ upd = toC[d] /\ dnd = toS'[d]
            /\ e = entry[d] /\ xd = keyFile[d] /\ n = run
      OBVIOUS
    <2>2. /\ SignerFits(d, rd, P, n) /\ UpOK(d, upd, P) /\ DownOK(dnd, P)
          /\ EntryFits(d, e, P) /\ FileFits(xd, P, n)
      BY <1>2, <1>5, <1>11, <2>1 DEF Connection
    <2>3. /\ SignerFits(d, rd, Q, n) /\ UpOK(d, upd, Q) /\ DownOK(dnd, Q)
          /\ EntryFits(d, e, Q) /\ FileFits(xd, Q, n)
      BY <1>12, <2>2, SignerMono, UpMono, DownMono, EntryMono, FileMono
    <2>4. SignerFits(d, signer'[d], Q, n) /\ UpOK(d, toC'[d], Q) /\ EntryFits(d, entry'[d], Q)
      <3>1. CASE d = s
        BY <1>8, <1>10, <2>1, <3>1, NoFrames, BlankEntryFits
      <3>2. CASE d # s
        BY <1>10, <2>1, <2>3, <3>2
      <3> QED
        BY <3>1, <3>2
    <2> QED
      BY <1>1, <1>5, <1>11, <2>1, <2>3, <2>4 DEF Connection
  <1>15. \A d \in Signer : Held(d)' \subseteq Held(d) \cup Fixed'
    BY <1>1, <1>8, <1>10 DEF Held
  <1>16. Agree'
    BY <1>4, <1>13, <1>14, <1>15, AgreeStep DEF SharingInv
  <1> QED
    BY <1>4, <1>13, <1>14, <1>16 DEF SharingInv

-----------------------------------------------------------------------------
(* Runs.                                                                   *)

LEMMA NextRunShare ==
  ASSUME NEW P, NEW Q, NEW n \in Nat, NEW x, FileFits(x, P, n)
  PROVE  FileFits(x, Q, n + 1)
  <1>1. CASE x = Absent
    BY <1>1 DEF FileFits
  <1>2. CASE ShareFits(x, P, n)
    <2>1. \A p \in x : p.run \in Nat /\ p.run <= n
      BY <1>2, PolyFacts DEF ShareFits
    <2>2. \A p \in x : p.run <= n + 1 /\ p.run # n + 1
      BY <2>1
    <2> QED
      BY <1>2, <2>2 DEF FileFits, ShareFits
  <1> QED
    BY <1>1, <1>2 DEF FileFits

LEMMA NewRunSharing ==
  ASSUME SharingInv, NEW m \in Modes, NewRun(m)
  PROVE  SharingInv'
  <1>1. /\ run < MaxRuns /\ \A s \in Signer : ~signer[s].up
        /\ run' = run + 1 /\ mode' = m /\ dkgState' = "IDLE" /\ list' = <<>>
        /\ entry' = [s \in Signer |-> BlankEntry]
        /\ count' = 0 /\ done' = FALSE /\ stored' = FALSE /\ running' = TRUE
        /\ toC' = [s \in Signer |-> <<>>] /\ toS' = [s \in Signer |-> <<>>]
        /\ UNCHANGED <<keyFile, pubFile, signer>> /\ Note
    BY DEF NewRun, KeepFiles
  <1>2. /\ signer \in [Signer -> SignerRecord]
        /\ keyFile \in [Signer -> SUBSET (Poly \cup {NoPoly})]
        /\ \A d \in Signer : Connection(d)
        /\ run \in 1..MaxRuns
    BY DEF SharingInv, StateOK, TablesOK
  <1>3. StateOK'
    <2>1. disturbed' \in BOOLEAN
      BY <1>1, Zenon DEF Note
    <2>2. run' \in 1..MaxRuns
      BY <1>1, <1>2, PolyFacts
    <2>3. <<>> \in Seq(Signer)
      OBVIOUS
    <2>4. done' \in BOOLEAN /\ stored' \in BOOLEAN /\ running' \in BOOLEAN
      BY <1>1, Zenon
    <2>5. /\ list' \in Seq(Signer) /\ \A i, j \in DOMAIN list' : list'[i] = list'[j] => i = j
          /\ mode' \in Modes /\ dkgState' \in {"IDLE", "R1", "R2", "COMPLETE"} /\ count' \in Nat
      BY <1>1, <2>3
    <2>6. pubFile' = Absent \/ pubFile' \in SUBSET Poly
      BY <1>1 DEF SharingInv, StateOK
    <2> QED
      BY <2>1, <2>2, <2>4, <2>5, <2>6, Zenon DEF StateOK
  <1>4. TablesOK'
    <2>1. /\ <<>> \in Seq(UpFrame) /\ <<>> \in Seq(DownFrame)
      OBVIOUS
    <2>2. toC' \in [Signer -> Seq(UpFrame)] /\ toS' \in [Signer -> Seq(DownFrame)]
      BY <1>1, <2>1
    <2>3. entry' \in [Signer -> EntryRecord]
      BY <1>1, BlankEntryFits
    <2> QED
      BY <1>1, <1>2, <2>2, <2>3 DEF TablesOK
  <1>5. PICK P, Q, n : P = Fixed /\ Q = Fixed' /\ n = run
    OBVIOUS
  <1>6. n \in Nat /\ run' = n + 1
    BY <1>1, <1>2, <1>5
  <1>7. ASSUME NEW d \in Signer PROVE Connection(d)'
    <2>1. PICK r \in SignerRecord : r = signer[d]
      BY <1>2
    <2>2. PICK x : x = keyFile[d]
      OBVIOUS
    <2>3. SignerFits(d, r, P, n) /\ FileFits(x, P, n)
      BY <1>2, <1>5, <2>1, <2>2 DEF Connection
    <2>4. r = Down(r.drawn)
      BY <1>1, <2>1, <2>3 DEF SignerFits
    <2>5. SignerFits(d, Down(r.drawn), Q, n + 1)
      BY BlankFits
    <2>6. SignerFits(d, r, Q, n + 1)
      BY <2>4, <2>5
    <2>7. FileFits(x, Q, n + 1)
      BY <1>6, <2>3, NextRunShare
    <2>8. toC'[d] = <<>> /\ toS'[d] = <<>> /\ entry'[d] = BlankEntry
      BY <1>1
    <2>9. UpOK(d, toC'[d], Q) /\ DownOK(toS'[d], Q) /\ EntryFits(d, entry'[d], Q)
      BY <2>8, NoFrames, BlankEntryFits
    <2>10. StartOnce(d)'
      BY <2>8 DEF StartOnce
    <2> QED
      BY <1>1, <1>5, <1>6, <2>1, <2>2, <2>6, <2>7, <2>9, <2>10 DEF Connection
  <1>8. Agree'
    BY <1>1 DEF SharingInv, Agree, Held
  <1> QED
    BY <1>3, <1>4, <1>7, <1>8 DEF SharingInv

LEMMA InitSharing ==
  ASSUME Init
  PROVE  SharingInv
  <1>1. /\ mode \in Modes
        /\ keyFile = [s \in Signer |-> IF mode = "R" THEN Generation0 ELSE Absent]
        /\ pubFile = (IF mode = "R" THEN Generation0 ELSE Absent)
        /\ signer = [s \in Signer |-> Down(0)]
        /\ toC = [s \in Signer |-> <<>>] /\ toS = [s \in Signer |-> <<>>]
        /\ run = 1 /\ disturbed = FALSE
        /\ dkgState = "IDLE" /\ list = <<>> /\ entry = [s \in Signer |-> BlankEntry]
        /\ count = 0 /\ done = FALSE /\ stored = FALSE /\ running = TRUE
    BY DEF Init
  <1>2. PICK P : P = Fixed
    OBVIOUS
  <1>3. /\ Generation0 \subseteq Poly
        /\ \A p \in Generation0 : p.run = 0 /\ p.no = 0 /\ p.by \in Signer
        /\ \A d \in Signer : \E p \in Generation0 : p.by = d
        /\ \A p, q \in Generation0 : p.by = q.by => p = q
    <2>1. 0 \in 0..MaxRuns
      BY PolyFacts
    <2> QED
      <3>1. ASSUME NEW d \in Signer PROVE \E p \in Generation0 : p.by = d
        <4>1. [by |-> d, run |-> 0, no |-> 0] \in Generation0
          BY Zenon DEF Generation0
        <4>2. [by |-> d, run |-> 0, no |-> 0].by = d
          OBVIOUS
        <4> QED
          BY <4>1, <4>2, Zenon
      <3>2. ASSUME NEW p \in Generation0
            PROVE  p \in Poly /\ p = [by |-> p.by, run |-> 0, no |-> 0] /\ p.by \in Signer
        <4>1. PICK d \in Signer : p = [by |-> d, run |-> 0, no |-> 0]
          BY DEF Generation0
        <4> QED
          BY <2>1, <4>1 DEF Poly
      <3>3. \A p \in Generation0 : p.run = 0 /\ p.no = 0
        BY <3>2
      <3>4. \A p, q \in Generation0 : p.by = q.by => p = q
        BY <3>2, Zenon
      <3> QED
        BY <3>1, <3>2, <3>3, <3>4
  <1>4. FileFits(Generation0, P, 1) /\ FileFits(Absent, P, 1)
    BY <1>3 DEF FileFits, ShareFits
  <1>5. /\ Down(0) \in SignerRecord /\ \A s \in Signer : SignerFits(s, Down(0), P, 1)
        /\ Down(0).key = {}
    <2>1. PICK r : r = FreshSigner(0)
      OBVIOUS
    <2>2. r \in SignerRecord /\ r.drawn = 0
      <3>1. <<>> \in Seq([from : Signer, pkg : Poly])
            /\ <<>> \in Seq([from : 0..N, pkg : Poly \cup {NoPoly}])
        OBVIOUS
      <3> QED
        BY <2>1, <3>1 DEF FreshSigner, SignerRecord, NoPackage
    <2> QED
      BY <2>2, BlankFits
  <1>6. StateOK
    <2>1. <<>> \in Seq(Signer)
      OBVIOUS
    <2>2. /\ list \in Seq(Signer) /\ \A i, j \in DOMAIN list : list[i] = list[j] => i = j
          /\ dkgState \in {"IDLE", "R1", "R2", "COMPLETE"} /\ count \in Nat
      BY <1>1, <2>1
    <2>3. run \in 1..MaxRuns
      BY <1>1, PolyFacts
    <2>4. /\ done \in BOOLEAN /\ stored \in BOOLEAN /\ running \in BOOLEAN
          /\ disturbed \in BOOLEAN
      BY <1>1, Zenon
    <2>5. pubFile = Absent \/ pubFile \in SUBSET Poly
      BY <1>1, <1>3
    <2> QED
      BY <1>1, <2>2, <2>3, <2>4, <2>5, Zenon DEF StateOK
  <1>7. TablesOK
    <2>1. <<>> \in Seq(UpFrame) /\ <<>> \in Seq(DownFrame)
      OBVIOUS
    <2>2. Absent \in SUBSET (Poly \cup {NoPoly}) /\ Generation0 \in SUBSET (Poly \cup {NoPoly})
      BY <1>3 DEF Absent
    <2>3. keyFile \in [Signer -> SUBSET (Poly \cup {NoPoly})]
      BY <1>1, <2>2
    <2>4. toC \in [Signer -> Seq(UpFrame)] /\ toS \in [Signer -> Seq(DownFrame)]
      BY <1>1, <2>1
    <2>5. signer \in [Signer -> SignerRecord] /\ entry \in [Signer -> EntryRecord]
      BY <1>1, <1>5, BlankEntryFits
    <2> QED
      BY <2>3, <2>4, <2>5 DEF TablesOK
  <1>8. ASSUME NEW s \in Signer PROVE Connection(s)
    <2>1. /\ signer[s] = Down(0) /\ toC[s] = <<>> /\ toS[s] = <<>> /\ entry[s] = BlankEntry
          /\ keyFile[s] = Generation0 \/ keyFile[s] = Absent
      BY <1>1
    <2>2. /\ SignerFits(s, signer[s], P, run) /\ FileFits(keyFile[s], P, run)
          /\ UpOK(s, toC[s], P) /\ DownOK(toS[s], P) /\ EntryFits(s, entry[s], P)
      BY <1>1, <1>4, <1>5, <2>1, NoFrames, BlankEntryFits
    <2>3. StartOnce(s)
      BY <2>1 DEF StartOnce
    <2> QED
      BY <1>2, <2>2, <2>3 DEF Connection
  <1>9. Agree
    <2>1. \A s \in Signer : Held(s) \subseteq Generation0
      BY <1>1, <1>5 DEF Held, Absent
    <2> QED
      BY <1>3, <2>1 DEF Agree
  <1> QED
    BY <1>6, <1>7, <1>8, <1>9 DEF SharingInv

LEMMA NextSharing ==
  ASSUME SharingInv, [Next]_vars
  PROVE  SharingInv'
  <1>1. ASSUME NEW s \in Signer, Connect(s) PROVE SharingInv'
    BY <1>1, ConnectSharing
  <1>2. ASSUME NEW s \in Signer, SignerStep(s) PROVE SharingInv'
    BY <1>2, SignerStepSharing
  <1>3. ASSUME NEW s \in Signer, CoordinatorStep(s) PROVE SharingInv'
    BY <1>3, CoordinatorStepSharing
  <1>4. ASSUME NEW s \in Signer, Crash(s) PROVE SharingInv'
    BY <1>4, CrashSharing
  <1>5. CASE CoordinatorExit
    BY <1>5, ExitSharing
  <1>6. CASE Kill
    BY <1>6, KillSharing
  <1>7. ASSUME NEW m \in Modes, NewRun(m) PROVE SharingInv'
    BY <1>7, NewRunSharing
  <1>8. CASE UNCHANGED vars
    <2>1. /\ UNCHANGED <<mode, dkgState, list, entry, count, done, stored, running>>
          /\ UNCHANGED <<signer, toC, keyFile, pubFile, run, toS, disturbed>>
      BY <1>8 DEF vars, coordVars
    <2>2. StateOK' /\ TablesOK'
      BY <2>1 DEF SharingInv, StateOK, TablesOK
    <2>3. Fixed' = Fixed
      BY <2>1 DEF Fixed, Begun, Pending
    <2>4. \A s \in Signer : Connection(s)'
      BY <2>1, <2>3 DEF SharingInv, Connection, StartOnce
    <2>5. Agree'
      BY <2>1 DEF SharingInv, Agree, Held
    <2> QED
      BY <2>2, <2>4, <2>5 DEF SharingInv
  <1> QED
    BY <1>1, <1>2, <1>3, <1>4, <1>5, <1>6, <1>7, <1>8 DEF Next

\* In every reachable state, all that is in memory, under way or on disk of
\* this run was made with the one polynomial each signer drew for it, and no
\* two shares hold different polynomials of one signer and one run.
THEOREM CeremonySharing == Spec => []SharingInv
  <1>1. Init => SharingInv
    BY InitSharing
  <1>2. SharingInv /\ [Next]_vars => SharingInv'
    BY NextSharing
  <1> QED
    BY <1>1, <1>2, PTL DEF Spec

-----------------------------------------------------------------------------
(* The shares on disk.                                                     *)

\* One polynomial for each signer: they are N.
LEMMA OneOfEach ==
  ASSUME NEW x, \A p \in x : p.by \in Signer, \A d \in Signer : \E p \in x : p.by = d,
         \A p, q \in x : p.by = q.by => p = q
  PROVE  Complete(x)
  <1>1. {p.by : p \in x} = Signer
    OBVIOUS
  <1>2. N \in Nat /\ Signer = 1..N
    BY PolyFacts
  <1> DEFINE f == [p \in x |-> p.by]
  <1>3. f \in Injection(x, Signer) /\ f \in Surjection(x, Signer)
    <2>1. f \in [x -> Signer]
      OBVIOUS
    <2>2. \A p, q \in x : f[p] = f[q] => p = q
      OBVIOUS
    <2>3. \A d \in Signer : \E p \in x : f[p] = d
      OBVIOUS
    <2> QED
      BY <2>1, <2>2, <2>3 DEF Injection, Surjection, IsInjective
  <1>4. IsFiniteSet(Signer) /\ Cardinality(Signer) = N
    BY <1>2, FS_Interval
  <1>5. Cardinality(x) = N
    BY <1>3, <1>4, FS_Injection
  <1> QED
    BY <1>1, <1>5 DEF Complete

LEMMA SharingImpliesSame ==
  ASSUME SharingInv
  PROVE  SameSharing
  <1> SUFFICES ASSUME NEW s \in Signer, NEW d \in Signer, NEW r \in 0..MaxRuns,
                      Readable(keyFile[s]), Readable(keyFile[d])
               PROVE  /\ Part(keyFile[s], r) = {} \/ Complete(Part(keyFile[s], r))
                      /\ \/ Part(keyFile[s], r) = {} \/ Part(keyFile[d], r) = {}
                         \/ Part(keyFile[s], r) = Part(keyFile[d], r)
    BY DEF SameSharing
  <1>1. ASSUME NEW e \in Signer, Readable(keyFile[e])
        PROVE  /\ keyFile[e] \subseteq Held(e) /\ keyFile[e] \subseteq Poly
               /\ \A p \in keyFile[e] : \A c \in Signer :
                    \E q \in keyFile[e] : q.run = p.run /\ q.by = c
    <2>1. FileFits(keyFile[e], Fixed, run) /\ keyFile[e] # Absent
      BY <1>1 DEF SharingInv, Connection, Readable
    <2>2. ShareFits(keyFile[e], Fixed, run)
      BY <2>1 DEF FileFits
    <2>3. keyFile[e] \subseteq Poly
      BY <2>2 DEF ShareFits
    <2>4. keyFile[e] \subseteq Held(e)
      BY <2>3, PolyFacts DEF Held
    <2> QED
      BY <2>2, <2>3, <2>4 DEF ShareFits
  <1>2. PICK mine, theirs : mine = Part(keyFile[s], r) /\ theirs = Part(keyFile[d], r)
    OBVIOUS
  <1>3. \A p \in mine \cup theirs : \A q \in mine \cup theirs : p.by = q.by => p = q
    BY <1>1, <1>2 DEF SharingInv, Agree, Part
  <1>4. \A p \in mine \cup theirs : p.by \in Signer
    BY <1>1, <1>2, PolyFacts DEF Part
  <1>5. /\ mine # {} => \A c \in Signer : \E q \in mine : q.by = c
        /\ theirs # {} => \A c \in Signer : \E q \in theirs : q.by = c
    BY <1>1, <1>2, SMTT(30) DEF Part
  <1>6. mine = {} \/ Complete(mine)
    BY <1>3, <1>4, <1>5, OneOfEach
  <1>7. ASSUME mine # {}, theirs # {} PROVE mine = theirs
    <2>1. ASSUME NEW p \in mine PROVE p \in theirs
      <3>1. PICK q \in theirs : q.by = p.by
        BY <1>4, <1>5, <1>7
      <3> QED
        BY <1>3, <3>1
    <2>2. ASSUME NEW p \in theirs PROVE p \in mine
      <3>1. PICK q \in mine : q.by = p.by
        BY <1>4, <1>5, <1>7
      <3> QED
        BY <1>3, <3>1
    <2> QED
      BY <2>1, <2>2
  <1> QED
    BY <1>2, <1>6, <1>7

\* The shares on disk belong together, for every group, threshold, number of
\* runs and of faults: part 3 and refresh_shares never save a share of some of
\* the signers' polynomials, nor two signers shares of different polynomials of
\* one ceremony, whichever signers die, come back blank, or fail to save.
THEOREM CeremonySameSharing == Spec => []SameSharing
  <1>1. SharingInv => SameSharing
    BY SharingImpliesSame
  <1> QED
    BY <1>1, CeremonySharing, PTL
=============================================================================
