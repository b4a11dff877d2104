----------------------- MODULE KeyCeremonyOrderProofs -----------------------
(***************************************************************************)
(* Proofs about the order of a key ceremony, for every group, threshold,   *)
(* fault, number of runs and order of arrival: what the coordinator        *)
(* announces has been saved, no signer reports twice, and no share is      *)
(* overwritten while a signer still depends on a package.                  *)
(*                                                                         *)
(* The reason is that every package is in one place: it is sent once, the  *)
(* streams keep its order with the notices that follow it, and a process   *)
(* that comes back has no polynomial to send another with.                 *)
(***************************************************************************)
EXTENDS KeyCeremonyProofs

-----------------------------------------------------------------------------
(* Streams, and the frames of a set S in them.                             *)

Some(q, S) == \E i \in DOMAIN q : q[i] \in S

Few(q, S) == \A i, j \in DOMAIN q : q[i] \in S /\ q[j] \in S => i = j

\* Before a frame of B there is one of A.
Ahead(q, A, B) ==
  \A i \in DOMAIN q : q[i] \in B => \E j \in DOMAIN q : j < i /\ q[j] \in A

\* Stream x has come out of q with no frame of S added.
Thin(q, x, S) == (Some(x, S) => Some(q, S)) /\ (Few(q, S) => Few(x, S))

LEMMA ThinSame ==
  ASSUME NEW q, NEW S PROVE Thin(q, q, S) /\ Thin(q, <<>>, S)
  BY DEF Thin, Some, Few

LEMMA NoneIn ==
  ASSUME NEW S, NEW A PROVE ~Some(<<>>, S) /\ Few(<<>>, S) /\ Ahead(<<>>, A, S)
  BY DEF Some, Few, Ahead

LEMMA TailFacts ==
  ASSUME NEW F, NEW q \in Seq(F), q # <<>>
  PROVE  /\ Tail(q) \in Seq(F) /\ Head(q) \in F /\ Len(q) \in Nat \ {0}
         /\ DOMAIN q = 1..Len(q) /\ DOMAIN Tail(q) = 1..(Len(q) - 1)
         /\ Head(q) = q[1]
         /\ \A i \in 1..(Len(q) - 1) : Tail(q)[i] = q[i + 1]
  OBVIOUS

LEMMA SeqOf ==
  ASSUME NEW F, NEW n \in Nat, NEW x, x = [i \in 1..n |-> x[i]], \A i \in 1..n : x[i] \in F
  PROVE  x \in Seq(F)
  OBVIOUS

LEMMA ThinTail ==
  ASSUME NEW F, NEW q \in Seq(F), q # <<>>, NEW S
  PROVE  Thin(q, Tail(q), S)
  <1>1. PICK n \in Nat \ {0} : n = Len(q)
    BY TailFacts
  <1>2. PICK x : x = Tail(q)
    OBVIOUS
  <1>3. /\ DOMAIN q = 1..n /\ DOMAIN x = 1..(n - 1)
        /\ \A i \in 1..(n - 1) : x[i] = q[i + 1]
    BY <1>1, <1>2, TailFacts
  <1>4. Some(x, S) => Some(q, S)
    BY <1>3 DEF Some
  <1>5. ASSUME Few(q, S), NEW i \in DOMAIN x, NEW j \in DOMAIN x, x[i] \in S, x[j] \in S
        PROVE  i = j
    <2>1. i + 1 \in DOMAIN q /\ j + 1 \in DOMAIN q /\ i \in Int /\ j \in Int
      BY <1>3
    <2>2. q[i + 1] \in S /\ q[j + 1] \in S
      BY <1>3, <1>5
    <2>3. i + 1 = j + 1
      BY <1>5, <2>1, <2>2 DEF Few
    <2> QED
      BY <2>1, <2>3
  <1> QED
    BY <1>2, <1>4, <1>5 DEF Thin, Few

\* The frame that is read was the only one of its kind.
LEMMA HeadWasOnly ==
  ASSUME NEW F, NEW q \in Seq(F), q # <<>>, NEW S, Few(q, S), Head(q) \in S
  PROVE  ~Some(Tail(q), S) /\ Some(q, S)
  <1>1. PICK n \in Nat \ {0} : n = Len(q)
    BY TailFacts
  <1>2. PICK x : x = Tail(q)
    OBVIOUS
  <1>3. /\ DOMAIN q = 1..n /\ DOMAIN x = 1..(n - 1) /\ q[1] \in S
        /\ \A i \in 1..(n - 1) : x[i] = q[i + 1]
    BY <1>1, <1>2, TailFacts
  <1>4. ASSUME NEW i \in DOMAIN x, x[i] \in S PROVE FALSE
    <2>1. i + 1 \in DOMAIN q /\ 1 \in DOMAIN q /\ i + 1 # 1
      BY <1>3
    <2> QED
      BY <1>3, <1>4, <2>1 DEF Few
  <1>5. 1 \in DOMAIN q
    BY <1>3
  <1> QED
    BY <1>2, <1>3, <1>4, <1>5 DEF Some

LEMMA SomeHead ==
  ASSUME NEW F, NEW q \in Seq(F), q # <<>>, NEW S, Head(q) \in S
  PROVE  Some(q, S)
  <1>1. 1 \in DOMAIN q /\ q[1] \in S
    BY TailFacts
  <1> QED
    BY <1>1 DEF Some

LEMMA SomeTail ==
  ASSUME NEW F, NEW q \in Seq(F), q # <<>>, NEW S, Some(q, S), Head(q) \notin S
  PROVE  Some(Tail(q), S)
  <1>1. PICK n \in Nat \ {0} : n = Len(q)
    BY TailFacts
  <1>2. PICK x : x = Tail(q)
    OBVIOUS
  <1>3. /\ DOMAIN q = 1..n /\ DOMAIN x = 1..(n - 1) /\ q[1] \notin S
        /\ \A i \in 1..(n - 1) : x[i] = q[i + 1]
    BY <1>1, <1>2, TailFacts
  <1>4. PICK i \in DOMAIN q : q[i] \in S
    BY DEF Some
  <1>5. i - 1 \in DOMAIN x /\ (i - 1) + 1 = i /\ i - 1 \in 1..(n - 1)
    BY <1>3, <1>4
  <1>6. x[i - 1] \in S
    BY <1>3, <1>4, <1>5
  <1> QED
    BY <1>2, <1>5, <1>6 DEF Some

LEMMA ConcatFacts ==
  ASSUME NEW F, NEW q \in Seq(F), NEW out \in Seq(F)
  PROVE  /\ q \o out \in Seq(F) /\ Len(q) \in Nat /\ Len(out) \in Nat
         /\ DOMAIN q = 1..Len(q) /\ DOMAIN out = 1..Len(out)
         /\ DOMAIN (q \o out) = 1..(Len(q) + Len(out))
         /\ \A i \in 1..Len(q) : (q \o out)[i] = q[i]
         /\ \A i \in 1..Len(out) : (q \o out)[Len(q) + i] = out[i]
  OBVIOUS

\* Where a frame of the longer stream comes from.
LEMMA ConcatSplit ==
  ASSUME NEW F, NEW q \in Seq(F), NEW out \in Seq(F), NEW i \in DOMAIN (q \o out)
  PROVE  \/ i \in DOMAIN q /\ (q \o out)[i] = q[i]
         \/ i - Len(q) \in DOMAIN out /\ (q \o out)[i] = out[i - Len(q)]
  <1>0. PICK x : x = q \o out
    OBVIOUS
  <1>1. PICK n \in Nat, m \in Nat : n = Len(q) /\ m = Len(out)
    BY ConcatFacts
  <1>2. /\ DOMAIN q = 1..n /\ DOMAIN out = 1..m /\ DOMAIN x = 1..(n + m)
        /\ \A j \in 1..n : x[j] = q[j]
        /\ \A j \in 1..m : x[n + j] = out[j]
    BY <1>0, <1>1, ConcatFacts
  <1>3. i \in 1..(n + m)
    BY <1>0, <1>1, <1>2
  <1>4. CASE i <= n
    BY <1>0, <1>1, <1>2, <1>3, <1>4
  <1>5. CASE i > n
    <2>1. i - n \in 1..m /\ n + (i - n) = i
      BY <1>3, <1>5
    <2>2. x[i] = out[i - n]
      BY <1>2, <2>1
    <2> QED
      BY <1>0, <1>1, <1>2, <2>1, <2>2
  <1> QED
    BY <1>3, <1>4, <1>5

LEMMA SomeConcat ==
  ASSUME NEW F, NEW q \in Seq(F), NEW out \in Seq(F), NEW S
  PROVE  Some(q \o out, S) <=> Some(q, S) \/ Some(out, S)
  <1>1. ASSUME Some(q \o out, S) PROVE Some(q, S) \/ Some(out, S)
    <2>1. PICK i \in DOMAIN (q \o out) : (q \o out)[i] \in S
      BY <1>1 DEF Some
    <2> QED
      BY <2>1, ConcatSplit DEF Some
  <1>0. PICK x : x = q \o out
    OBVIOUS
  <1>2. PICK n \in Nat, m \in Nat : n = Len(q) /\ m = Len(out)
    BY ConcatFacts
  <1>3. /\ DOMAIN q = 1..n /\ DOMAIN out = 1..m /\ DOMAIN x = 1..(n + m)
        /\ \A j \in 1..n : x[j] = q[j]
        /\ \A j \in 1..m : x[n + j] = out[j]
    BY <1>0, <1>2, ConcatFacts
  <1>4. ASSUME Some(q, S) PROVE Some(x, S)
    BY <1>3, <1>4 DEF Some
  <1>5. ASSUME Some(out, S) PROVE Some(x, S)
    <2>1. PICK j \in 1..m : out[j] \in S
      BY <1>3, <1>5 DEF Some
    <2>2. n + j \in 1..(n + m) /\ x[n + j] \in S
      BY <1>3, <2>1
    <2> QED
      BY <1>3, <2>2 DEF Some
  <1> QED
    BY <1>0, <1>1, <1>2, <1>4, <1>5

LEMMA FewConcat ==
  ASSUME NEW F, NEW q \in Seq(F), NEW out \in Seq(F), NEW S,
         Few(q, S), Few(out, S), ~Some(q, S) \/ ~Some(out, S)
  PROVE  Few(q \o out, S)
  <1>0. PICK x : x = q \o out
    OBVIOUS
  <1>1. PICK n \in Nat : n = Len(q)
    BY ConcatFacts
  <1> SUFFICES ASSUME NEW i \in DOMAIN x, NEW j \in DOMAIN x, x[i] \in S, x[j] \in S
               PROVE  i = j
    BY <1>0, <1>1 DEF Few
  <1>2. /\ \/ i \in DOMAIN q /\ x[i] = q[i]
           \/ i - n \in DOMAIN out /\ x[i] = out[i - n]
        /\ \/ j \in DOMAIN q /\ x[j] = q[j]
           \/ j - n \in DOMAIN out /\ x[j] = out[j - n]
    BY <1>0, <1>1, ConcatSplit
  <1>3. i \in Int /\ j \in Int
    BY <1>0, <1>1, ConcatFacts
  <1>4. CASE ~Some(out, S)
    BY <1>2, <1>4 DEF Some, Few
  <1>5. CASE ~Some(q, S)
    <2>1. i - n \in DOMAIN out /\ out[i - n] \in S /\ j - n \in DOMAIN out /\ out[j - n] \in S
      BY <1>2, <1>5 DEF Some
    <2>2. i - n = j - n
      BY <2>1 DEF Few
    <2> QED
      BY <1>3, <2>2
  <1> QED
    BY <1>4, <1>5

LEMMA ThinConcat ==
  ASSUME NEW F, NEW q \in Seq(F), NEW out \in Seq(F), NEW S, ~Some(out, S)
  PROVE  Thin(q, q \o out, S)
  <1>1. Few(out, S)
    BY DEF Few, Some
  <1> QED
    BY <1>1, SomeConcat, FewConcat DEF Thin

LEMMA AppendIsConcat ==
  ASSUME NEW F, NEW q \in Seq(F), NEW f \in F
  PROVE  /\ Append(q, f) = q \o <<f>> /\ <<f>> \in Seq(F)
         /\ \A S : /\ Some(<<f>>, S) <=> f \in S
                   /\ Few(<<f>>, S)
  BY DEF Some, Few

LEMMA ThinAppend ==
  ASSUME NEW F, NEW q \in Seq(F), NEW f \in F, NEW S, f \notin S
  PROVE  Thin(q, Append(q, f), S)
  <1>1. PICK out \in Seq(F) : out = <<f>>
    BY AppendIsConcat
  <1>2. Append(q, f) = q \o out /\ ~Some(out, S)
    BY <1>1, AppendIsConcat
  <1> QED
    BY <1>2, ThinConcat

LEMMA SomeAppend ==
  ASSUME NEW F, NEW q \in Seq(F), NEW f \in F, NEW S
  PROVE  /\ Some(Append(q, f), S) <=> Some(q, S) \/ f \in S
         /\ Few(q, S) /\ ~Some(q, S) => Few(Append(q, f), S)
  <1>1. PICK out \in Seq(F) : out = <<f>>
    BY AppendIsConcat
  <1>2. Append(q, f) = q \o out /\ (Some(out, S) <=> f \in S) /\ Few(out, S)
    BY <1>1, AppendIsConcat
  <1>3. Some(q \o out, S) <=> Some(q, S) \/ Some(out, S)
    BY SomeConcat
  <1>4. Few(q, S) /\ ~Some(q, S) => Few(q \o out, S)
    BY <1>2, FewConcat
  <1> QED
    BY <1>2, <1>3, <1>4

\* A prefix of the stream, and c.
LEMMA CutFacts ==
  ASSUME NEW F, NEW q \in Seq(F), NEW k \in 0..Len(q), NEW c \in F
  PROVE  /\ Append(SubSeq(q, 1, k), c) \in Seq(F) /\ Len(q) \in Nat
         /\ DOMAIN q = 1..Len(q) /\ DOMAIN Append(SubSeq(q, 1, k), c) = 1..(k + 1)
         /\ \A i \in 1..k : Append(SubSeq(q, 1, k), c)[i] = q[i]
         /\ Append(SubSeq(q, 1, k), c)[k + 1] = c
  OBVIOUS

LEMMA ThinCut ==
  ASSUME NEW F, NEW q \in Seq(F), NEW k \in 0..Len(q), NEW c \in F, NEW S, c \notin S
  PROVE  Thin(q, Append(SubSeq(q, 1, k), c), S)
  <1>0. PICK x : x = Append(SubSeq(q, 1, k), c)
    OBVIOUS
  <1>1. PICK n \in Nat : n = Len(q)
    BY CutFacts
  <1>2. /\ DOMAIN q = 1..n /\ k \in 0..n /\ DOMAIN x = 1..(k + 1)
        /\ \A i \in 1..k : x[i] = q[i]
        /\ x[k + 1] = c
    BY <1>0, <1>1, CutFacts
  <1>3. \A i \in DOMAIN x : x[i] \in S => i \in DOMAIN q /\ q[i] = x[i]
    BY <1>2
  <1> QED
    BY <1>0, <1>1, <1>3 DEF Thin, Some, Few

LEMMA AheadCut ==
  ASSUME NEW F, NEW q \in Seq(F), NEW k \in 0..Len(q), NEW c \in F,
         NEW A, NEW B, Ahead(q, A, B), c \notin B
  PROVE  Ahead(Append(SubSeq(q, 1, k), c), A, B)
  <1>0. PICK x : x = Append(SubSeq(q, 1, k), c)
    OBVIOUS
  <1>1. PICK n \in Nat : n = Len(q)
    BY CutFacts
  <1>2. /\ DOMAIN q = 1..n /\ k \in 0..n /\ DOMAIN x = 1..(k + 1)
        /\ \A i \in 1..k : x[i] = q[i]
        /\ x[k + 1] = c
    BY <1>0, <1>1, CutFacts
  <1> SUFFICES ASSUME NEW i \in DOMAIN x, x[i] \in B
               PROVE  \E j \in DOMAIN x : j < i /\ x[j] \in A
    BY <1>0, <1>1 DEF Ahead
  <1>3. i \in 1..k /\ i \in DOMAIN q /\ q[i] \in B
    BY <1>2
  <1>4. PICK j \in DOMAIN q : j < i /\ q[j] \in A
    BY <1>3 DEF Ahead
  <1>5. j \in 1..k /\ j \in DOMAIN x
    BY <1>2, <1>3, <1>4
  <1> QED
    BY <1>2, <1>4, <1>5

LEMMA AheadTail ==
  ASSUME NEW F, NEW q \in Seq(F), q # <<>>, NEW A, NEW B, Ahead(q, A, B)
  PROVE  Head(q) \notin B /\ (Head(q) \notin A => Ahead(Tail(q), A, B))
  <1>1. PICK n \in Nat \ {0} : n = Len(q)
    BY TailFacts
  <1>2. PICK x : x = Tail(q)
    OBVIOUS
  <1>3. /\ DOMAIN q = 1..n /\ DOMAIN x = 1..(n - 1) /\ Head(q) = q[1]
        /\ \A i \in 1..(n - 1) : x[i] = q[i + 1]
    BY <1>1, <1>2, TailFacts
  <1>4. q[1] \notin B
    <2>1. 1 \in DOMAIN q /\ \A j \in DOMAIN q : ~(j < 1)
      BY <1>3
    <2> QED
      BY <2>1 DEF Ahead
  <1>5. ASSUME q[1] \notin A, NEW i \in DOMAIN x, x[i] \in B
        PROVE  \E j \in DOMAIN x : j < i /\ x[j] \in A
    <2>1. i \in 1..(n - 1) /\ i + 1 \in DOMAIN q /\ q[i + 1] \in B
      BY <1>3, <1>5
    <2>2. PICK j \in DOMAIN q : j < i + 1 /\ q[j] \in A
      BY <2>1 DEF Ahead
    <2>3. j - 1 \in 1..(n - 1) /\ j - 1 < i /\ (j - 1) + 1 = j
      BY <1>3, <1>5, <2>1, <2>2
    <2>4. x[j - 1] \in A
      BY <1>3, <2>2, <2>3
    <2> QED
      BY <1>3, <2>3, <2>4
  <1> QED
    BY <1>2, <1>3, <1>4, <1>5 DEF Ahead

LEMMA AheadConcat ==
  ASSUME NEW F, NEW q \in Seq(F), NEW out \in Seq(F), NEW A, NEW B,
         Ahead(q, A, B), Ahead(out, A, B)
  PROVE  Ahead(q \o out, A, B)
  <1>0. PICK x : x = q \o out
    OBVIOUS
  <1>1. PICK n \in Nat, m \in Nat : n = Len(q) /\ m = Len(out)
    BY ConcatFacts
  <1>2. /\ DOMAIN q = 1..n /\ DOMAIN out = 1..m /\ DOMAIN x = 1..(n + m)
        /\ \A j \in 1..n : x[j] = q[j]
        /\ \A j \in 1..m : x[n + j] = out[j]
    BY <1>0, <1>1, ConcatFacts
  <1> SUFFICES ASSUME NEW i \in DOMAIN x, x[i] \in B
               PROVE  \E j \in DOMAIN x : j < i /\ x[j] \in A
    BY <1>0, <1>1 DEF Ahead
  <1>3. CASE i \in DOMAIN q
    <2>1. PICK j \in DOMAIN q : j < i /\ q[j] \in A
      BY <1>2, <1>3 DEF Ahead
    <2> QED
      BY <1>2, <2>1
  <1>4. CASE i \notin DOMAIN q
    <2>1. i - n \in DOMAIN out /\ n + (i - n) = i
      BY <1>2, <1>4
    <2>2. out[i - n] \in B
      BY <1>2, <2>1
    <2>3. PICK j \in DOMAIN out : j < i - n /\ out[j] \in A
      BY <2>1, <2>2 DEF Ahead
    <2>4. n + j \in DOMAIN x /\ n + j < i
      BY <1>2, <2>3
    <2>5. x[n + j] \in A
      BY <1>2, <2>3
    <2> QED
      BY <2>4, <2>5
  <1> QED
    BY <1>3, <1>4

LEMMA NoneAhead ==
  ASSUME NEW q, NEW A, NEW B, ~Some(q, B) PROVE Ahead(q, A, B)
  BY DEF Some, Ahead

-----------------------------------------------------------------------------
(* The frames of a mode, and the kinds of frames that matter.              *)

\* Frames signer s sends in mode m.
UpKind(s, m) ==
  {f \in UpFrame :
     /\ m = "D" => f.type \notin {"REFRESH_R1", "REFRESH_R2", "REFRESH_R2_COMPLETE",
                                  "REFRESH_COMPLETE"}
     /\ m = "R" => f.type \notin {"ROUND1_PKG", "ROUND2_PKG", "R2_COMPLETE", "PUB_KEY_PKG"}
     /\ f.type \in {"ROUND2_PKG", "REFRESH_R2"} =>
          f.box.from = s /\ f.box.to # s /\ f.sig = Signed(s, f.box)}

\* Frames sent to signer d in mode m.
DownKind(d, m) ==
  {f \in DownFrame :
     /\ f.type = "HELLO_ACK" => f.mode = m
     /\ m = "D" => f.type \notin {"START_REFRESH", "RELAY_REFRESH_R1", "RELAY_REFRESH_R2",
                                  "REFRESH_FINALIZE", "REFRESH_CONFIRMED"}
     /\ m = "R" => f.type \notin {"START_DKG", "RELAY_R1", "RELAY_R2", "DKG_DONE"}
     /\ f.type \in {"RELAY_R1", "RELAY_REFRESH_R1"} => f.from # d
     /\ f.type \in {"RELAY_R2", "RELAY_REFRESH_R2"} =>
          f.box.to = d /\ f.box.from # d /\ f.sig = Signed(f.box.from, f.box)}

\* Round-2 packages for d; the notice that round 2 is over; reports of a new
\* share; the end of the connection; anything else.
Up2(d) == {f \in UpFrame : f.type \in {"ROUND2_PKG", "REFRESH_R2"} /\ f.box.to = d}
UpDone == {f \in UpFrame : f.type \in {"R2_COMPLETE", "REFRESH_R2_COMPLETE"}}
Report == {f \in UpFrame : f.type \in {"PUB_KEY_PKG", "REFRESH_COMPLETE"}}
UpEnd  == {f \in UpFrame : f.type = "CLOSED"}
Plain  == {f \in UpFrame : f.type \in {"ROUND1_PKG", "REFRESH_R1", "SHARE_LOAD_FAIL"}}

\* Packages of e in round 1 and in round 2; FINALIZE.
Down1(e) == {f \in DownFrame : f.type \in {"RELAY_R1", "RELAY_REFRESH_R1"} /\ f.from = e}
Down2(e) == {f \in DownFrame : f.type \in {"RELAY_R2", "RELAY_REFRESH_R2"} /\ f.box.from = e}
Final    == {f \in DownFrame : f.type = "REFRESH_FINALIZE"}

-----------------------------------------------------------------------------
(* The invariant.                                                          *)

\* The process has a polynomial; whose packages of round 1 and 2 it has; has
\* it done part 2; has it a key; is its share of this run on disk?
Alive(s) == signer[s].up /\ signer[s].secret1 # NoPoly
Got1(s)  == Senders(signer[s].r1)
Got2(s)  == Senders(signer[s].r2)
Sent2(s) == signer[s].secret2 # NoPoly
Keyed(s) == signer[s].key # NoPackage
Saved(s) == Part(keyFile[s], run) # {}

\* Or was its disk full, so that it is left with no share at all?
Settled(s) == Saved(s) \/ (s \in MayFail /\ keyFile[s] = Torn)

\* Has the notice that s is done with round 2 arrived, or is it on its way?
Done2(s) == entry[s].r2Complete \/ Some(toC[s], UpDone)

FrameInv ==
  \A s \in Signer : toC[s] \in Seq(UpKind(s, mode)) /\ toS[s] \in Seq(DownKind(s, mode))

\* The phases of the coordinator, and what signers do in them.
InRound2 == dkgState \in {"R2", "COMPLETE"}

PhaseOf(s) ==
  /\ Done2(s) => InRound2
  /\ running /\ signer[s].up => s \in Listed /\ ~Some(toC[s], UpEnd)
  /\ Sent2(s) => Got1(s) = Signer \ {s}
  /\ Got2(s) \subseteq Signer \ {s}

\* The round-1 package of e for s is in one place.
OnePlace1(s, e) ==
  /\ Some(toS[s], Down1(e)) \/ e \in Got1(s) => InRound2
  /\ Some(toS[s], Down1(e)) => e \notin Got1(s)
  /\ Few(toS[s], Down1(e))

PhaseInv ==
  /\ InRound2 => \A s \in Signer : Begun(s)
  /\ \A s \in Signer : PhaseOf(s)
  /\ \A s, e \in Signer : OnePlace1(s, e)

\* s may still send its round-2 packages.
CanSend2(s) == ~Begun(s) \/ (Alive(s) /\ ~Sent2(s))

\* The round-2 package of e for d is in one place.
OnePlace(e, d) ==
  /\ CanSend2(e) \/ Some(toC[e], Up2(d)) => ~Some(toS[d], Down2(e)) /\ e \notin Got2(d)
  /\ CanSend2(e) => ~Some(toC[e], Up2(d))
  /\ Some(toS[d], Down2(e)) => e \notin Got2(d)
  /\ Few(toC[e], Up2(d)) /\ Few(toS[d], Down2(e))

PlaceInv == \A e, d \in Signer : e # d => OnePlace(e, d)

Announced == dkgState = "COMPLETE"

\* s may still report a share.
CanReport(s) ==
  \/ ~Begun(s)
  \/ /\ Alive(s)
     /\ IF mode = "D" THEN ~Keyed(s) ELSE ~Announced \/ Some(toS[s], Final)

\* s has reported, and the report has been counted or lost.
Spent(s) == ~CanReport(s) /\ ~Some(toC[s], Report) /\ (mode = "R" => Settled(s))

ReportOf(s) ==
  /\ Some(toC[s], Report) => ~CanReport(s) /\ (mode = "R" => Settled(s))
  /\ Few(toC[s], Report) /\ Few(toS[s], Final)
  /\ Some(toS[s], Final) => Announced
  /\ mode = "D" /\ Keyed(s) => Got2(s) = Signer \ {s}
  /\ Announced /\ running /\ (Alive(s) \/ Some(toC[s], UpDone)) => entry[s].r2Complete
  /\ mode = "R" /\ Saved(s) => Announced
  /\ mode = "D" /\ (Done2(s) \/ Announced) => ~CanReport(s) /\ (s \in MayFail \/ Saved(s))

ReportInv ==
  /\ \A s \in Signer : ReportOf(s)
  /\ done => \A s \in Signer : Spent(s)
  /\ count <= Cardinality({s \in Signer : Spent(s)})

\* The package of e has reached d, or is about to.
Reach(e, d) == Some(toS[d], Down2(e)) \/ e \in Got2(d)

\* Before the notice that e is done with round 2 comes the package of e for d.
Delivery(e, d) ==
  /\ Reach(e, d) \/ Ahead(toC[e], Up2(d), UpDone)
  /\ entry[e].r2Complete \/ Announced => Reach(e, d)

DeliveryInv ==
  mode = "R" /\ running =>
    \A e, d \in Signer : e # d /\ Alive(d) => Delivery(e, d)

-----------------------------------------------------------------------------
(* What a signer does, in these terms.                                     *)

\* Nothing else changes.
Others(s) ==
  \A d \in Signer \ {s} : /\ signer'[d] = signer[d] /\ toC'[d] = toC[d]
                          /\ toS'[d] = toS[d] /\ keyFile'[d] = keyFile[d]

Steady == UNCHANGED <<run, mode, dkgState, list, entry, count, done, running>>

Says(s, out) == toC'[s] = toC[s] \o out

\* What a handler leaves alone, besides one part of the memory.
SameSecrets(s) ==
  /\ signer'[s].up
  /\ signer'[s].secret1 = signer[s].secret1 /\ signer'[s].secret2 = signer[s].secret2
SameKey(s) == (mode = "D" => signer'[s].key = signer[s].key) /\ keyFile'[s] = keyFile[s]

\* It draws its polynomial, loads its key, or does nothing.
Rests(s) ==
  /\ signer'[s].up /\ signer'[s].secret2 = signer[s].secret2 /\ SameKey(s)
  /\ ~Pending(s) => signer'[s].secret1 = signer[s].secret1
  /\ Got1(s)' = Got1(s) /\ Got2(s)' = Got2(s)
  /\ \E out \in Seq(Plain \cap UpKind(s, mode)) : Says(s, out)
  /\ \A e \in Signer : Head(toS[s]) \notin Down2(e)

\* It takes a package of round 1, which may be the last.
Takes1(s) ==
  \E e \in Signer \ {s} :
    /\ Head(toS[s]) \in Down1(e)
    /\ SameSecrets(s) /\ SameKey(s) /\ Got2(s)' = Got2(s)
    /\ Got1(s)' = Got1(s) \cup {e} /\ toC'[s] = toC[s]

\* Part 2's frames: one package for each of the others, and then the notice.
Round2Out(s, out) ==
  /\ ~Some(out, Report) /\ ~Some(out, UpEnd)
  /\ mode = "D" => ~Some(out, UpDone)
  /\ \A d \in Signer \ {s} : Few(out, Up2(d)) /\ Ahead(out, Up2(d), UpDone)

Sends2(s) ==
  \E e \in Signer \ {s}, out \in Seq(UpKind(s, mode)) :
    /\ Head(toS[s]) \in Down1(e)
    /\ signer'[s].up /\ SameKey(s) /\ Got2(s)' = Got2(s)
    /\ signer[s].secret1 # NoPoly /\ signer'[s].secret1 = signer[s].secret1
    /\ signer'[s].secret2 = signer[s].secret1
    /\ Got1(s)' = Got1(s) \cup {e} /\ Got1(s)' = Signer \ {s}
    /\ Says(s, out) /\ Round2Out(s, out)

\* It takes a package of round 2.
Takes2(s) ==
  \E e \in Signer \ {s} :
    /\ Head(toS[s]) \in Down2(e)
    /\ SameSecrets(s) /\ SameKey(s) /\ Got1(s)' = Got1(s)
    /\ Got2(s)' = Got2(s) \cup {e} /\ toC'[s] = toC[s]

\* It is about to write a share: the last package of a DKG, or FINALIZE.
Writes(s) ==
  /\ Sent2(s)
  /\ IF mode = "D"
       THEN \E e \in Signer \ {s} : Head(toS[s]) \in Down2(e) /\ Got2(s) \cup {e} = Signer \ {s}
       ELSE Head(toS[s]) \in Final

\* Part 3 of a DKG.
Saves(s) ==
  /\ mode = "D" /\ Writes(s)
  /\ SameSecrets(s) /\ Got1(s)' = Got1(s)
  /\ Got2(s)' = Signer \ {s} /\ Keyed(s)'
  /\ s \in MayFail \/ Saved(s)'
  /\ \E a \in UpDone \cap UpKind(s, mode), b \in Report \cap UpKind(s, mode) : Says(s, <<a, b>>)

\* FINALIZE.
Finalizes(s) ==
  /\ mode = "R" /\ Writes(s)
  /\ SameSecrets(s) /\ Got1(s)' = Got1(s) /\ Got2(s)' = Got2(s)
  /\ \/ toC'[s] = toC[s]
     \/ Settled(s)' /\ \E b \in Report \cap UpKind(s, mode) : toC'[s] = Append(toC[s], b)

\* It ends, on its own or because the coordinator has, and may leave a share.
Falls(s) ==
  /\ ~signer'[s].up /\ ~Sent2(s)' /\ Got1(s)' = {} /\ Got2(s)' = {} /\ ~Keyed(s)'
  /\ \/ toC'[s] = toC[s]
     \/ \E k \in 0..Len(toC[s]) : toC'[s] = Append(SubSeq(toC[s], 1, k), Closed)
  /\ keyFile'[s] = keyFile[s] \/ Writes(s)

SignerDoes(s) ==
  \/ Rests(s) \/ Takes1(s) \/ Sends2(s) \/ Takes2(s) \/ Saves(s) \/ Finalizes(s) \/ Falls(s)

LEMMA SendersAppend ==
  ASSUME NEW Item, NEW q \in Seq(Item), NEW x \in Item
  PROVE  Senders(Append(q, x)) = Senders(q) \cup {x.from}
  <1>1. PICK n \in Nat : n = Len(q)
    OBVIOUS
  <1>2. PICK a : a = Append(q, x)
    OBVIOUS
  <1>3. /\ DOMAIN q = 1..n /\ DOMAIN a = 1..(n + 1) /\ a[n + 1] = x
        /\ \A i \in 1..n : a[i] = q[i]
    BY <1>1, <1>2
  <1>4. \A i \in DOMAIN a : i \in DOMAIN q \/ i = n + 1
    BY <1>3
  <1>5. \A i \in DOMAIN q : i \in DOMAIN a /\ a[i] = q[i]
    BY <1>3
  <1>6. n + 1 \in DOMAIN a
    BY <1>3
  <1>7. {a[i].from : i \in DOMAIN a} = {q[i].from : i \in DOMAIN q} \cup {x.from}
    BY <1>3, <1>4, <1>5, <1>6
  <1> QED
    BY <1>2, <1>7 DEF Senders

LEMMA ReturnFacts ==
  ASSUME SharingInv, NEW s \in Signer, NEW r, NEW out, Return(s, r, out)
  PROVE  /\ signer'[s] = r /\ Says(s, out)
         /\ \A d \in Signer \ {s} : signer'[d] = signer[d] /\ toC'[d] = toC[d]
  <1>1. DOMAIN signer = Signer /\ DOMAIN toC = Signer
    BY DEF SharingInv, TablesOK
  <1> QED
    BY <1>1 DEF Return, Says

\* The state of a process, as the provers want it.
LEMMA ProcessNow ==
  ASSUME SharingInv, NEW s \in Signer
  PROVE  /\ signer[s] \in SignerRecord
         /\ signer[s].r1 \in Seq([from : Signer, pkg : Poly])
         /\ signer[s].r2 \in Seq([from : 0..N, pkg : Poly \cup {NoPoly}])
         /\ signer[s].up \in BOOLEAN
         /\ Sent2(s) => signer[s].secret1 # NoPoly
         /\ ~signer[s].up => signer[s] = Down(signer[s].drawn)
  <1>1. PICK r \in SignerRecord : r = signer[s]
    BY DEF SharingInv, TablesOK
  <1>2. SignerFits(s, r, Fixed, run)
    BY <1>1 DEF SharingInv, Connection
  <1>3. r.secret2 # NoPoly => r.secret1 # NoPoly
    BY <1>2 DEF SignerFits
  <1>4. ~r.up => r = Down(r.drawn)
    BY <1>2 DEF SignerFits
  <1>5. r.r1 \in Seq([from : Signer, pkg : Poly])
        /\ r.r2 \in Seq([from : 0..N, pkg : Poly \cup {NoPoly}]) /\ r.up \in BOOLEAN
    BY Zenon DEF SignerRecord
  <1> QED
    BY <1>1, <1>3, <1>4, <1>5 DEF Sent2

LEMMA DownFacts ==
  ASSUME NEW n
  PROVE  /\ ~Down(n).up /\ Down(n).r1 = <<>> /\ Down(n).r2 = <<>> /\ Down(n).secret1 = NoPoly
         /\ Down(n).secret2 = NoPoly /\ Down(n).key = NoPackage
         /\ Senders(Down(n).r1) = {} /\ Senders(Down(n).r2) = {}
         /\ FreshSigner(n).up /\ FreshSigner(n).secret1 = NoPoly
         /\ FreshSigner(n).secret2 = NoPoly /\ FreshSigner(n).key = NoPackage
         /\ Senders(FreshSigner(n).r1) = {} /\ Senders(FreshSigner(n).r2) = {}
  BY DEF Down, FreshSigner, Senders

LEMMA ModeFacts ==
  ASSUME SharingInv PROVE mode \in {"D", "R"} /\ (mode # "D" <=> mode = "R")
  BY KeyCeremonyAssumption DEF SharingInv, StateOK

LEMMA NextFrame ==
  ASSUME FrameInv, NEW s \in Signer, toS[s] # <<>>
  PROVE  /\ Head(toS[s]) \in DownKind(s, mode) /\ Head(toS[s]) \in DownFrame
         /\ Head(toS[s]) = toS[s][1] /\ 1 \in DOMAIN toS[s]
  <1>1. PICK F, q : F = DownKind(s, mode) /\ q = toS[s]
    OBVIOUS
  <1>2. q \in Seq(F)
    BY <1>1 DEF FrameInv
  <1>3. Head(q) \in F /\ Head(q) = q[1] /\ 1 \in DOMAIN q
    BY <1>1, <1>2, TailFacts
  <1> QED
    BY <1>1, <1>3 DEF DownKind

LEMMA SaysNothing ==
  ASSUME SharingInv, NEW s \in Signer, Says(s, <<>>)
  PROVE  toC'[s] = toC[s] /\ \E out \in Seq(Plain \cap UpKind(s, mode)) : Says(s, out)
  <1>1. toC[s] \in Seq(UpFrame)
    BY DEF SharingInv, TablesOK
  <1>2. toC'[s] = toC[s]
    BY <1>1 DEF Says
  <1>3. <<>> \in Seq(Plain \cap UpKind(s, mode))
    OBVIOUS
  <1> QED
    BY <1>2, <1>3

\* A handler that does nothing.
LEMMA IdleDoes ==
  ASSUME SharingInv, NEW s \in Signer, signer[s].up, Return(s, signer[s], <<>>),
         keyFile' = keyFile, \A e \in Signer : Head(toS[s]) \notin Down2(e)
  PROVE  Rests(s)
  <1>1. PICK r : r = signer[s]
    OBVIOUS
  <1>2. PICK out : out = <<>>
    OBVIOUS
  <1>3. signer'[s] = r /\ Says(s, out)
    BY <1>1, <1>2, ReturnFacts
  <1>4. \E o \in Seq(Plain \cap UpKind(s, mode)) : Says(s, o)
    BY <1>2, <1>3, SaysNothing
  <1>5. signer'[s] = signer[s]
    BY <1>1, <1>3
  <1> QED
    BY <1>4, <1>5 DEF Rests, SameKey, Got1, Got2

LEMMA HelloAckDoes ==
  ASSUME SharingInv, NEW s \in Signer, signer[s].up, Head(toS[s]).type = "HELLO_ACK",
         OnHelloAck(s, mode)
  PROVE  Rests(s)
  <1>1. keyFile' = keyFile
    BY DEF OnHelloAck, KeepFiles
  <1>2. \A e \in Signer : Head(toS[s]) \notin Down2(e)
    BY DEF Down2
  <1>3. CASE Return(s, signer[s], <<>>)
    BY <1>1, <1>2, <1>3, IdleDoes
  <1>4. CASE mode = "R" /\ Return(s, signer[s], <<ShareLoadFail>>)
    <2>1. PICK r, out : r = signer[s] /\ out = <<ShareLoadFail>>
      OBVIOUS
    <2>2. signer'[s] = r /\ Says(s, out)
      BY <1>4, <2>1, ReturnFacts
    <2>3. ShareLoadFail \in Plain \cap UpKind(s, mode)
      BY <1>4 DEF ShareLoadFail, Plain, UpKind, UpFrame
    <2>4. out \in Seq(Plain \cap UpKind(s, mode))
      BY <2>1, <2>3
    <2>5. signer'[s] = signer[s]
      BY <2>1, <2>2
    <2> QED
      BY <1>1, <1>2, <2>2, <2>4, <2>5 DEF Rests, SameKey, Got1, Got2
  <1>5. ASSUME NEW pub, mode = "R",
               Return(s, [signer[s] EXCEPT !.key = keyFile[s], !.pub = pub], <<>>)
        PROVE  Rests(s)
    <2>1. PICK r0 \in SignerRecord : r0 = signer[s]
      BY ProcessNow
    <2>2. PICK r, out : r = [signer[s] EXCEPT !.key = keyFile[s], !.pub = pub] /\ out = <<>>
      OBVIOUS
    <2>3. signer'[s] = r /\ Says(s, out)
      BY <1>5, <2>2, ReturnFacts
    <2>4. /\ r.up = r0.up /\ r.secret1 = r0.secret1 /\ r.secret2 = r0.secret2
          /\ r.r1 = r0.r1 /\ r.r2 = r0.r2
      BY <2>1, <2>2 DEF SignerRecord
    <2>5. \E o \in Seq(Plain \cap UpKind(s, mode)) : Says(s, o)
      BY <2>2, <2>3, SaysNothing
    <2> QED
      BY <1>1, <1>2, <1>5, <2>1, <2>3, <2>4, <2>5 DEF Rests, SameKey, Got1, Got2
  <1> QED
    BY <1>3, <1>4, <1>5, ModeFacts DEF OnHelloAck

LEMMA StartDoes ==
  ASSUME SharingInv, NEW s \in Signer, signer[s].up, toS[s] # <<>>, IsStart(Head(toS[s])),
         FrameInv, NEW type, type = (IF mode = "D" THEN "ROUND1_PKG" ELSE "REFRESH_R1"),
         Start(s, type)
  PROVE  Rests(s)
  <1>1. keyFile' = keyFile
    BY DEF Start, KeepFiles
  <1>2. \A e \in Signer : Head(toS[s]) \notin Down2(e)
    BY DEF Down2, IsStart
  <1>3. Pending(s)
    BY NextFrame DEF Pending
  <1>4. PICK p : p = [by |-> s, run |-> run, no |-> signer[s].drawn + 1]
    OBVIOUS
  <1>5. PICK r : r = [signer[s] EXCEPT !.secret1 = p, !.drawn = signer[s].drawn + 1]
    OBVIOUS
  <1>6. Return(s, r, <<Round1(type, s, p)>>) \/ Return(s, signer[s], <<>>)
    BY <1>4, <1>5, Zenon DEF Start
  <1>7. CASE Return(s, signer[s], <<>>)
    BY <1>1, <1>2, <1>7, IdleDoes
  <1>8. CASE Return(s, r, <<Round1(type, s, p)>>)
    <2>1. PICK r0 \in SignerRecord : r0 = signer[s]
      BY ProcessNow
    <2>2. PICK out : out = <<Round1(type, s, p)>>
      OBVIOUS
    <2>3. signer'[s] = r /\ Says(s, out)
      BY <1>8, <2>2, ReturnFacts
    <2>4. /\ r.up = r0.up /\ r.secret2 = r0.secret2 /\ r.key = r0.key
          /\ r.r1 = r0.r1 /\ r.r2 = r0.r2
      BY <1>5, <2>1 DEF SignerRecord
    <2>5. Round1(type, s, p) \in Plain \cap UpKind(s, mode)
      <3>1. p \in Poly
        <4>1. signer[s].drawn + 1 \in Nat /\ run \in 0..MaxRuns
          BY ProcessNow, PolyFacts DEF SharingInv, StateOK, SignerRecord
        <4> QED
          BY <1>4, <4>1 DEF Poly
      <3>2. PICK f : f = Round1(type, s, p)
        OBVIOUS
      <3>3. f \in UpFrame /\ f.type = type
        BY <3>1, <3>2, ModeFacts, PolyFacts DEF Round1, UpFrame, Sig, Signed
      <3> QED
        BY <3>2, <3>3, ModeFacts DEF Plain, UpKind
    <2>6. out \in Seq(Plain \cap UpKind(s, mode))
      BY <2>2, <2>5
    <2> QED
      BY <1>1, <1>2, <1>3, <2>1, <2>3, <2>4, <2>6 DEF Rests, SameKey, Got1, Got2
  <1> QED
    BY <1>6, <1>7, <1>8

\* Part 2's packages: one for each of the others.
LEMMA Round2Each ==
  ASSUME NEW s \in Signer, NEW r, NEW p \in Poly, r.secret1 = p, NEW m \in {"D", "R"},
         NEW type, type = (IF m = "D" THEN "ROUND2_PKG" ELSE "REFRESH_R2")
  PROVE  /\ Round2Frames(s, r, type) \in Seq(UpKind(s, m))
         /\ ~Some(Round2Frames(s, r, type), Report) /\ ~Some(Round2Frames(s, r, type), UpEnd)
         /\ ~Some(Round2Frames(s, r, type), UpDone)
         /\ \A d \in Signer \ {s} : /\ Few(Round2Frames(s, r, type), Up2(d))
                                    /\ Some(Round2Frames(s, r, type), Up2(d))
  <1> DEFINE to(i) == IF i < s THEN i ELSE i + 1
  <1>1. /\ N - 1 \in Nat /\ Signer = 1..N /\ N \in Nat
        /\ \A i \in 1..(N - 1) : to(i) \in Signer /\ to(i) # s
        /\ \A i, j \in 1..(N - 1) : to(i) = to(j) => i = j
    BY PolyFacts
  <1>2. \A d \in Signer \ {s} : \E i \in 1..(N - 1) : to(i) = d
    <2> SUFFICES ASSUME NEW d \in Signer \ {s} PROVE \E i \in 1..(N - 1) : to(i) = d
      OBVIOUS
    <2>1. CASE d < s
      <3>1. d \in 1..(N - 1) /\ to(d) = d
        BY <1>1, <2>1
      <3> QED
        BY <3>1
    <2>2. CASE ~(d < s)
      <3>1. d - 1 \in 1..(N - 1) /\ to(d - 1) = d
        BY <1>1, <2>2
      <3> QED
        BY <3>1
    <2> QED
      BY <2>1, <2>2
  <1>3. PICK x : x = Round2Frames(s, r, type)
    OBVIOUS
  <1>4. x = [i \in 1..(N - 1) |-> Round2(type, Sealed(s, to(i), p))]
    BY <1>3 DEF Round2Frames
  <1> HIDE DEF to
  <1>5. ASSUME NEW d \in Signer \ {s}
        PROVE  /\ Round2(type, Sealed(s, d, p)) \in UpKind(s, m)
               /\ Round2(type, Sealed(s, d, p)).type = type
               /\ Round2(type, Sealed(s, d, p)).box.to = d
    <2>1. PICK b : b = Sealed(s, d, p)
      OBVIOUS
    <2>2. b \in Box /\ b.from = s /\ b.to = d
      BY <2>1 DEF Sealed, Box
    <2>3. PICK f : f = Round2(type, b)
      OBVIOUS
    <2>4. f \in UpFrame /\ f.type = type /\ f.box = b /\ f.sig = Signed(s, b)
      BY <2>2, <2>3 DEF Round2, UpFrame, Signed, BoxSig
    <2>5. f \in UpKind(s, m)
      BY <2>2, <2>4 DEF UpKind
    <2> QED
      BY <2>1, <2>2, <2>3, <2>4, <2>5
  <1>6. /\ DOMAIN x = 1..(N - 1)
        /\ \A i \in 1..(N - 1) :
             x[i] \in UpKind(s, m) /\ x[i].type = type /\ x[i].box.to = to(i)
    BY <1>1, <1>4, <1>5
  <1>7. x \in Seq(UpKind(s, m))
    BY <1>1, <1>4, <1>6
  <1>8. ~Some(x, Report) /\ ~Some(x, UpEnd) /\ ~Some(x, UpDone)
    BY <1>6 DEF Some, Report, UpEnd, UpDone
  <1>9. ASSUME NEW d \in Signer \ {s} PROVE Few(x, Up2(d)) /\ Some(x, Up2(d))
    <2>1. \A i \in 1..(N - 1) : x[i] \in Up2(d) => to(i) = d
      BY <1>6 DEF Up2
    <2>2. PICK i \in 1..(N - 1) : to(i) = d
      BY <1>2
    <2>3. x[i] \in Up2(d)
      BY <1>6, <2>2 DEF Up2, UpKind
    <2> QED
      BY <1>1, <1>6, <2>1, <2>2, <2>3 DEF Few, Some
  <1> QED
    BY <1>3, <1>7, <1>8, <1>9

\* The notice of a refresh goes last.
LEMMA Round2Then ==
  ASSUME NEW s \in Signer, NEW x, NEW m \in {"D", "R"}, x \in Seq(UpKind(s, m)),
         ~Some(x, Report), ~Some(x, UpEnd), ~Some(x, UpDone),
         \A d \in Signer \ {s} : Few(x, Up2(d)) /\ Some(x, Up2(d)),
         NEW then, then = (IF m = "D" THEN <<>> ELSE <<Notice("REFRESH_R2_COMPLETE")>>)
  PROVE  /\ x \o then \in Seq(UpKind(s, m))
         /\ ~Some(x \o then, Report) /\ ~Some(x \o then, UpEnd)
         /\ m = "D" => ~Some(x \o then, UpDone)
         /\ \A d \in Signer \ {s} : /\ Few(x \o then, Up2(d))
                                    /\ Ahead(x \o then, Up2(d), UpDone)
  <1>1. PICK F : F = UpKind(s, m)
    OBVIOUS
  <1>2. CASE m = "D"
    <2>1. x \o then = x
      BY <1>1, <1>2
    <2> QED
      BY <1>2, <2>1, NoneAhead
  <1>3. CASE m = "R"
    <2>1. PICK f : f = Notice("REFRESH_R2_COMPLETE")
      OBVIOUS
    <2>2. f \in F /\ f.type = "REFRESH_R2_COMPLETE"
      BY <1>1, <1>3, <2>1 DEF Notice, UpKind, UpFrame
    <2>3. x \o then = Append(x, f)
      BY <1>1, <1>3, <2>1, <2>2, AppendIsConcat
    <2>4. f \notin Report /\ f \notin UpEnd /\ \A d : f \notin Up2(d)
      BY <2>2 DEF Report, UpEnd, Up2
    <2>5. ~Some(Append(x, f), Report) /\ ~Some(Append(x, f), UpEnd)
      BY <1>1, <2>2, <2>4, SomeAppend
    <2>6. ASSUME NEW d \in Signer \ {s}
          PROVE  Few(Append(x, f), Up2(d)) /\ Ahead(Append(x, f), Up2(d), UpDone)
      <3>1. Thin(x, Append(x, f), Up2(d))
        BY <1>1, <2>2, <2>4, ThinAppend
      <3>2. PICK n, y : n = Len(x) /\ y = Append(x, f)
        OBVIOUS
      <3>3. /\ n \in Nat /\ DOMAIN x = 1..n /\ DOMAIN y = 1..(n + 1)
            /\ \A i \in 1..n : y[i] = x[i]
        BY <1>1, <2>2, <3>2
      <3>4. PICK j \in 1..n : x[j] \in Up2(d)
        BY <3>3 DEF Some
      <3>5. \A i \in DOMAIN y : y[i] \in UpDone => i = n + 1
        BY <3>3 DEF Some
      <3>6. j \in DOMAIN y /\ j < n + 1 /\ y[j] \in Up2(d)
        BY <3>3, <3>4
      <3>7. Ahead(y, Up2(d), UpDone)
        BY <3>5, <3>6 DEF Ahead
      <3> QED
        BY <3>1, <3>2, <3>7 DEF Thin
    <2>7. Append(x, f) \in Seq(F)
      BY <1>1, <2>2
    <2> QED
      BY <1>1, <1>3, <2>3, <2>5, <2>6, <2>7
  <1> QED
    BY <1>2, <1>3

LEMMA CollectR1Does ==
  ASSUME SharingInv, FrameInv, NEW s \in Signer, signer[s].up, toS[s] # <<>>,
         NEW f, f = Head(toS[s]), f.type \in {"RELAY_R1", "RELAY_REFRESH_R1"},
         NEW type, type = (IF mode = "D" THEN "ROUND2_PKG" ELSE "REFRESH_R2"),
         NEW then, then = (IF mode = "D" THEN <<>> ELSE <<Notice("REFRESH_R2_COMPLETE")>>),
         CollectR1(s, f, type, then)
  PROVE  SignerDoes(s)
  <1>1. PICK r0 \in SignerRecord : r0 = signer[s]
    BY ProcessNow
  <1>2. keyFile' = keyFile
    BY DEF CollectR1, KeepFiles
  <1>3. f \in DownKind(s, mode) /\ f \in DownFrame
    BY NextFrame
  <1>4. \A e \in Signer : Head(toS[s]) \notin Down2(e)
    BY DEF Down2
  <1>5. PICK e \in Signer \ {s} : e = f.from
    BY <1>3, DownFrameFacts DEF DownKind
  <1>6. Head(toS[s]) \in Down1(e)
    BY <1>3, <1>5 DEF Down1
  <1>7. CASE f.sig # Signed(f.from, f.pkg)
    <2>1. Return(s, signer[s], <<>>)
      BY <1>7, Zenon DEF CollectR1
    <2> QED
      BY <1>2, <1>4, <2>1, IdleDoes DEF SignerDoes
  <1>8. CASE f.sig = Signed(f.from, f.pkg)
    <2>1. f.pkg \in Poly
      <3>1. DownOK(toS[s], Fixed)
        BY DEF SharingInv, Connection
      <3>2. DownFits(f, Fixed)
        BY <3>1, NextFrame DEF DownOK
      <3>3. Fixed \subseteq Poly
        BY FixedFacts DEF SharingInv
      <3> QED
        BY <1>8, <3>2, <3>3 DEF DownFits
    <2>2. PICK Item, g, h : /\ Item = [from : Signer, pkg : Poly]
                            /\ g = [from |-> f.from, pkg |-> f.pkg] /\ h = r0.r1
      OBVIOUS
    <2>3. g \in Item /\ g.from = e
      BY <1>5, <2>1, <2>2
    <2>4. h \in Seq(Item)
      BY <1>1, <2>2, ProcessNow
    <2>5. PICK q \in Seq(Item) : q = Append(h, g)
      <3>1. Append(h, g) \in Seq(Item)
        BY <2>3, <2>4
      <3> QED
        BY <3>1
    <2>6. Senders(q) = Senders(h) \cup {e}
      BY <2>3, <2>4, <2>5, SendersAppend
    <2>7. PICK r : r = [r0 EXCEPT !.r1 = q]
      OBVIOUS
    <2>8. PICK r2 : r2 = [r EXCEPT !.secret2 = r.secret1]
      OBVIOUS
    <2>9. /\ r.r1 = q /\ r.up = r0.up /\ r.secret1 = r0.secret1 /\ r.secret2 = r0.secret2
          /\ r.key = r0.key /\ r.r2 = r0.r2 /\ DOMAIN r = DOMAIN r0
      BY <2>7 DEF SignerRecord
    <2>10. /\ r2.r1 = q /\ r2.up = r0.up /\ r2.secret1 = r0.secret1 /\ r2.secret2 = r0.secret1
           /\ r2.key = r0.key /\ r2.r2 = r0.r2
      BY <2>8, <2>9 DEF SignerRecord
    <2>11. r = [signer[s] EXCEPT !.r1 = Append(@, g)]
      BY <1>1, <2>2, <2>5, <2>7
    <2>12. \/ Return(s, r, <<>>)
           \/ Part2Accepts(s, r) /\ Return(s, r2, Round2Frames(s, r, type) \o then)
      BY <1>8, <2>2, <2>8, <2>11, Zenon DEF CollectR1
    <2>13. Got1(s) = Senders(h) /\ Got2(s) = Senders(r0.r2)
      BY <1>1, <2>2 DEF Got1, Got2
    <2>14. CASE Return(s, r, <<>>)
      <3>1. PICK out : out = <<>>
        OBVIOUS
      <3>2. signer'[s] = r /\ Says(s, out)
        BY <2>14, <3>1, ReturnFacts
      <3>3. toC'[s] = toC[s]
        BY <3>1, <3>2, SaysNothing
      <3>4. Got1(s)' = Got1(s) \cup {e} /\ Got2(s)' = Got2(s)
        BY <2>6, <2>9, <2>13, <3>2 DEF Got1, Got2
      <3>5. SameSecrets(s) /\ SameKey(s)
        BY <1>1, <1>2, <2>9, <3>2 DEF SameSecrets, SameKey
      <3>6. Takes1(s)
        BY <1>6, <3>3, <3>4, <3>5 DEF Takes1
      <3> QED
        BY <3>6 DEF SignerDoes
    <2>15. CASE Part2Accepts(s, r) /\ Return(s, r2, Round2Frames(s, r, type) \o then)
      <3>1. r.secret1 # NoPoly /\ Senders(r.r1) = Signer \ {s}
        BY <2>15 DEF Part2Accepts
      <3>2. PICK p \in Poly : p = r.secret1
        BY <2>9, <3>1 DEF SignerRecord
      <3>3. PICK x, m : x = Round2Frames(s, r, type) /\ m = mode
        OBVIOUS
      <3>4. m \in {"D", "R"}
        BY <3>3, ModeFacts
      <3>5. type = (IF m = "D" THEN "ROUND2_PKG" ELSE "REFRESH_R2")
        BY <3>3
      <3>6. /\ x \in Seq(UpKind(s, m)) /\ ~Some(x, Report) /\ ~Some(x, UpEnd) /\ ~Some(x, UpDone)
            /\ \A d \in Signer \ {s} : Few(x, Up2(d)) /\ Some(x, Up2(d))
        BY <3>2, <3>3, <3>4, <3>5, Round2Each
      <3>7. then = (IF m = "D" THEN <<>> ELSE <<Notice("REFRESH_R2_COMPLETE")>>)
        BY <3>3
      <3>8. PICK out : out = x \o then
        OBVIOUS
      <3>9. /\ out \in Seq(UpKind(s, m)) /\ ~Some(out, Report) /\ ~Some(out, UpEnd)
            /\ m = "D" => ~Some(out, UpDone)
            /\ \A d \in Signer \ {s} : Few(out, Up2(d)) /\ Ahead(out, Up2(d), UpDone)
        BY <3>4, <3>6, <3>7, <3>8, Round2Then
      <3>10. out \in Seq(UpKind(s, mode)) /\ Round2Out(s, out)
        BY <3>3, <3>9 DEF Round2Out
      <3>11. signer'[s] = r2 /\ Says(s, out)
        BY <2>15, <3>3, <3>8, ReturnFacts
      <3>12. Got1(s)' = Got1(s) \cup {e} /\ Got1(s)' = Signer \ {s} /\ Got2(s)' = Got2(s)
        BY <2>6, <2>9, <2>10, <2>13, <3>1, <3>11 DEF Got1, Got2
      <3>13. SameKey(s) /\ signer'[s].up /\ signer[s].secret1 # NoPoly
             /\ signer'[s].secret1 = signer[s].secret1 /\ signer'[s].secret2 = signer[s].secret1
        BY <1>1, <1>2, <2>9, <2>10, <3>1, <3>11 DEF SameKey
      <3>14. Sends2(s)
        BY <1>6, <3>10, <3>11, <3>12, <3>13 DEF Sends2
      <3> QED
        BY <3>14 DEF SignerDoes
    <2> QED
      BY <2>12, <2>14, <2>15
  <1> QED
    BY <1>7, <1>8

\* The process ends.
LEMMA DieFacts ==
  ASSUME SharingInv, NEW s \in Signer, Die(s)
  PROVE  /\ ~signer'[s].up /\ ~Sent2(s)' /\ Got1(s)' = {} /\ Got2(s)' = {} /\ ~Keyed(s)'
         /\ \E k \in 0..Len(toC[s]) : toC'[s] = Append(SubSeq(toC[s], 1, k), Closed)
         /\ \A d \in Signer \ {s} : signer'[d] = signer[d] /\ toC'[d] = toC[d]
  <1>1. DOMAIN signer = Signer /\ DOMAIN toC = Signer
    BY DEF SharingInv, TablesOK
  <1>2. PICK n : n = signer[s].drawn
    OBVIOUS
  <1>3. signer' = [signer EXCEPT ![s] = Down(n)]
    BY <1>2 DEF Die, Down
  <1>4. signer'[s] = Down(n) /\ \A d \in Signer \ {s} : signer'[d] = signer[d]
    BY <1>1, <1>3
  <1>5. /\ ~Down(n).up /\ Down(n).secret2 = NoPoly /\ Down(n).key = NoPackage
        /\ Senders(Down(n).r1) = {} /\ Senders(Down(n).r2) = {}
    BY DownFacts
  <1>6. PICK k \in 0..Len(toC[s]) : toC' = [toC EXCEPT ![s] = Append(SubSeq(@, 1, k), Closed)]
    BY DEF Die
  <1>7. /\ toC'[s] = Append(SubSeq(toC[s], 1, k), Closed)
        /\ \A d \in Signer \ {s} : toC'[d] = toC[d]
    BY <1>1, <1>6
  <1> QED
    BY <1>4, <1>5, <1>7 DEF Sent2, Got1, Got2, Keyed

LEMMA DieSavingDoes ==
  ASSUME SharingInv, NEW s \in Signer, NEW r, DieSaving(s, r), Writes(s)
  PROVE  Falls(s)
  <1>1. Die(s)
    BY DEF DieSaving
  <1> QED
    BY <1>1, DieFacts DEF Falls

\* A package of round 2 opens, and is taken.
LEMMA WithR2Facts ==
  ASSUME SharingInv, FrameInv, NEW s \in Signer, toS[s] # <<>>,
         NEW f, f = Head(toS[s]), f.type \in {"RELAY_R2", "RELAY_REFRESH_R2"}
  PROVE  \E e \in Signer \ {s} :
           /\ Opens(s, f) /\ f \in Down2(e)
           /\ Senders(WithR2(s, f).r2) = Got2(s) \cup {e}
           /\ WithR2(s, f) \in SignerRecord
           /\ WithR2(s, f).r1 = signer[s].r1 /\ WithR2(s, f).up = signer[s].up
           /\ WithR2(s, f).secret1 = signer[s].secret1
           /\ WithR2(s, f).secret2 = signer[s].secret2
           /\ WithR2(s, f).key = signer[s].key
  <1>1. PICK r0 \in SignerRecord : r0 = signer[s]
    BY ProcessNow
  <1>2. f \in DownKind(s, mode) /\ f \in DownFrame
    BY NextFrame
  <1>3. f.box \in Box /\ f.box.from # s /\ f.box.to = s /\ f.sig = Signed(f.box.from, f.box)
    BY <1>2, DownFrameFacts DEF DownKind
  <1>4. Verifies(f) /\ Opens(s, f)
    BY <1>3 DEF Verifies, Opens
  <1>5. PICK e \in Signer \ {s} : e = f.box.from
    BY <1>3 DEF Box
  <1>6. f \in Down2(e)
    BY <1>2, <1>5 DEF Down2
  <1>7. PICK Item, slot, h : /\ Item = [from : 0..N, pkg : Poly \cup {NoPoly}]
                             /\ slot = [from |-> f.box.from, pkg |-> f.box.pkg] /\ h = r0.r2
    OBVIOUS
  <1>8. slot \in Item /\ slot.from = e
    <2>1. f.box.from \in 0..N /\ f.box.pkg \in Poly
      BY <1>3, PolyFacts DEF Box
    <2> QED
      BY <1>5, <1>7, <2>1
  <1>9. h \in Seq(Item)
    BY <1>1, <1>7, ProcessNow
  <1>10. PICK q \in Seq(Item) : q = Append(h, slot)
    <2>1. Append(h, slot) \in Seq(Item)
      BY <1>8, <1>9
    <2> QED
      BY <2>1
  <1>11. Senders(q) = Senders(h) \cup {e}
    BY <1>8, <1>9, <1>10, SendersAppend
  <1>12. PICK r : r = [r0 EXCEPT !.r2 = q]
    OBVIOUS
  <1>13. WithR2(s, f) = r
    <2>1. r = [signer[s] EXCEPT !.r2 = Append(@, slot)]
      BY <1>1, <1>7, <1>10, <1>12
    <2> QED
      BY <1>4, <1>7, <2>1, Zenon DEF WithR2
  <1>14. /\ r \in SignerRecord /\ r.r2 = q /\ r.r1 = r0.r1 /\ r.up = r0.up
         /\ r.secret1 = r0.secret1 /\ r.secret2 = r0.secret2 /\ r.key = r0.key
    BY <1>7, <1>12 DEF SignerRecord
  <1>15. Got2(s) = Senders(h)
    BY <1>1, <1>7 DEF Got2
  <1>16. Senders(r.r2) = Got2(s) \cup {e}
    BY <1>11, <1>14, <1>15
  <1> QED
    BY <1>1, <1>4, <1>6, <1>13, <1>14, <1>16

\* What part 3 adds up is of this run.
LEMMA ContributionsSaved ==
  ASSUME SharingInv, NEW s \in Signer, NEW r \in SignerRecord, SignerFits(s, r, Fixed, run),
         Part3Accepts(s, r), NEW x, Contributions(r) \subseteq x, keyFile'[s] = x, run' = run
  PROVE  Saved(s)'
  <1>1. PICK P : P = Fixed
    OBVIOUS
  <1>2. SignerFits(s, r, P, run)
    BY <1>1
  <1>3. Contributions(r) \subseteq P /\ Contributions(r) # {}
    BY <1>1, <1>2, ContributionsFit
  <1>4. PICK p \in Contributions(r) : p \in Fixed
    BY <1>1, <1>3
  <1>5. p.run = run /\ p \in x
    BY <1>4, FixedFacts DEF SharingInv
  <1> QED
    BY <1>5 DEF Saved, Part

LEMMA RelayR2Does ==
  ASSUME SharingInv, FrameInv, NEW s \in Signer, signer[s].up, toS[s] # <<>>, run' = run,
         NEW f, f = Head(toS[s]), f.type = "RELAY_R2", mode = "D", OnRelayR2(s, f)
  PROVE  SignerDoes(s)
  <1>1. PICK r : r = WithR2(s, f)
    OBVIOUS
  <1>2. PICK e \in Signer \ {s} :
          /\ Opens(s, f) /\ f \in Down2(e) /\ Senders(r.r2) = Got2(s) \cup {e}
          /\ r \in SignerRecord /\ r.r1 = signer[s].r1 /\ r.up = signer[s].up
          /\ r.secret1 = signer[s].secret1 /\ r.secret2 = signer[s].secret2
          /\ r.key = signer[s].key
    BY <1>1, WithR2Facts
  <1>3. SignerFits(s, r, Fixed, run)
    <2>1. PICK P : P = Fixed
      OBVIOUS
    <2>2. f \in DownFrame /\ f.type \in {"RELAY_R2", "RELAY_REFRESH_R2"}
      BY NextFrame
    <2>3. SignerFits(s, r, P, run)
      BY <1>1, <2>1, <2>2, WithR2Fits
    <2> QED
      BY <2>1, <2>3
  <1>4. PICK c : c = Contributions(r)
    OBVIOUS
  <1>5. PICK new : new = [r EXCEPT !.key = c, !.pub = c]
    OBVIOUS
  <1>6. \/ Return(s, r, <<>>) /\ KeepFiles
        \/ /\ Part3Accepts(s, r)
           /\ \/ /\ Return(s, new, <<Notice("R2_COMPLETE"), PubKeyPkg(new.pub)>>)
                 /\ \E ok \in BOOLEAN : SaveKeyMaterial(s, new, ok)
              \/ DieSaving(s, new)
    BY <1>1, <1>4, <1>5, Zenon DEF OnRelayR2
  <1>7. CASE Return(s, r, <<>>) /\ KeepFiles
    <2>1. PICK out : out = <<>>
      OBVIOUS
    <2>2. signer'[s] = r /\ Says(s, out)
      BY <1>7, <2>1, ReturnFacts
    <2>3. toC'[s] = toC[s]
      BY <2>1, <2>2, SaysNothing
    <2>4. Got1(s)' = Got1(s) /\ Got2(s)' = Got2(s) \cup {e}
      BY <1>2, <2>2 DEF Got1, Got2
    <2>5. SameSecrets(s) /\ SameKey(s)
      BY <1>2, <1>7, <2>2 DEF SameSecrets, SameKey, KeepFiles
    <2>6. Takes2(s)
      BY <1>2, <2>3, <2>4, <2>5 DEF Takes2
    <2> QED
      BY <2>6 DEF SignerDoes
  <1>8. ASSUME Part3Accepts(s, r) PROVE Writes(s)
    <2>1. Sent2(s) /\ Got2(s) \cup {e} = Signer \ {s}
      BY <1>2, <1>8 DEF Part3Accepts, Sent2
    <2> QED
      BY <1>2, <2>1 DEF Writes
  <1>9. CASE Part3Accepts(s, r) /\ DieSaving(s, new)
    BY <1>8, <1>9, DieSavingDoes DEF SignerDoes
  <1>10. CASE /\ Part3Accepts(s, r)
              /\ Return(s, new, <<Notice("R2_COMPLETE"), PubKeyPkg(new.pub)>>)
              /\ \E ok \in BOOLEAN : SaveKeyMaterial(s, new, ok)
    <2>1. c \in SUBSET Poly /\ c # {}
      <3>1. PICK P : P = Fixed
        OBVIOUS
      <3>2. SignerFits(s, r, P, run)
        BY <1>3, <3>1
      <3> QED
        BY <1>2, <1>4, <1>10, <3>1, <3>2, ContributionsFit
    <2>2. /\ new.key = c /\ new.pub = c /\ new.up = r.up /\ new.r1 = r.r1 /\ new.r2 = r.r2
          /\ new.secret1 = r.secret1 /\ new.secret2 = r.secret2
      BY <1>2, <1>5 DEF SignerRecord
    <2>3. PICK a, b : a = Notice("R2_COMPLETE") /\ b = PubKeyPkg(new.pub)
      OBVIOUS
    <2>4. a \in UpDone \cap UpKind(s, mode)
      BY <2>3 DEF Notice, UpDone, UpKind, UpFrame
    <2>5. b \in Report \cap UpKind(s, mode)
      <3>1. b \in UpFrame /\ b.type = "PUB_KEY_PKG"
        BY <2>1, <2>2, <2>3 DEF PubKeyPkg, UpFrame
      <3> QED
        BY <3>1 DEF Report, UpKind
    <2>6. PICK out : out = <<a, b>>
      OBVIOUS
    <2>7. signer'[s] = new /\ Says(s, out)
      BY <1>10, <2>3, <2>6, ReturnFacts
    <2>8. Got1(s)' = Got1(s) /\ Got2(s)' = Signer \ {s} /\ Keyed(s)'
      BY <1>2, <1>10, <2>1, <2>2, <2>7 DEF Got1, Got2, Keyed, NoPackage, Part3Accepts
    <2>9. SameSecrets(s)
      BY <1>2, <2>2, <2>7 DEF SameSecrets
    <2>10. s \in MayFail \/ Saved(s)'
      <3>1. PICK ok \in BOOLEAN : SaveKeyMaterial(s, new, ok)
        BY <1>10
      <3>2. s \in MayFail \/ keyFile' = [keyFile EXCEPT ![s] = new.key]
        BY <3>1 DEF SaveKeyMaterial, MayFailNow
      <3>3. CASE keyFile' = [keyFile EXCEPT ![s] = new.key]
        <4>1. keyFile'[s] = c
          BY <2>2, <3>3 DEF SharingInv, TablesOK
        <4> QED
          BY <1>2, <1>3, <1>4, <1>10, <4>1, ContributionsSaved
      <3> QED
        BY <3>2, <3>3
    <2>11. Writes(s)
      BY <1>8, <1>10
    <2>12. Says(s, <<a, b>>)
      BY <2>6, <2>7
    <2>13. Saves(s)
      BY <2>4, <2>5, <2>8, <2>9, <2>10, <2>11, <2>12 DEF Saves
    <2> QED
      BY <2>13 DEF SignerDoes
  <1> QED
    BY <1>6, <1>7, <1>9, <1>10

LEMMA RelayRefreshR2Does ==
  ASSUME SharingInv, FrameInv, NEW s \in Signer, signer[s].up, toS[s] # <<>>,
         NEW f, f = Head(toS[s]), f.type = "RELAY_REFRESH_R2", OnRelayRefreshR2(s, f)
  PROVE  Takes2(s)
  <1>1. PICK r, out : r = WithR2(s, f) /\ out = <<>>
    OBVIOUS
  <1>2. PICK e \in Signer \ {s} :
          /\ f \in Down2(e) /\ Senders(r.r2) = Got2(s) \cup {e}
          /\ r.r1 = signer[s].r1 /\ r.up = signer[s].up
          /\ r.secret1 = signer[s].secret1 /\ r.secret2 = signer[s].secret2
          /\ r.key = signer[s].key
    BY <1>1, WithR2Facts
  <1>3. signer'[s] = r /\ Says(s, out) /\ keyFile' = keyFile
    BY <1>1, ReturnFacts DEF OnRelayRefreshR2, KeepFiles
  <1>4. toC'[s] = toC[s]
    BY <1>1, <1>3, SaysNothing
  <1>5. Got1(s)' = Got1(s) /\ Got2(s)' = Got2(s) \cup {e}
    BY <1>2, <1>3 DEF Got1, Got2
  <1>6. SameSecrets(s) /\ SameKey(s)
    BY <1>2, <1>3 DEF SameSecrets, SameKey
  <1> QED
    BY <1>2, <1>4, <1>5, <1>6 DEF Takes2

LEMMA FinalizeDoes ==
  ASSUME SharingInv, FrameInv, NEW s \in Signer, signer[s].up, toS[s] # <<>>, run' = run,
         Head(toS[s]).type = "REFRESH_FINALIZE", mode = "R", OnRefreshFinalize(s)
  PROVE  SignerDoes(s)
  <1>1. PICK r \in SignerRecord : r = signer[s]
    BY ProcessNow
  <1>2. PICK c : c = Contributions(r)
    OBVIOUS
  <1>3. PICK new : new = [r EXCEPT !.key = @ \cup c, !.pub = @ \cup c]
    OBVIOUS
  <1>4. \/ Return(s, signer[s], <<>>) /\ KeepFiles
        \/ /\ Part3Accepts(s, r)
           /\ \/ \E ok \in BOOLEAN :
                   /\ Return(s, new, IF ok THEN <<RefreshComplete(new.pub)>> ELSE <<>>)
                   /\ SaveKeyMaterial(s, new, ok)
              \/ DieSaving(s, new)
    BY <1>1, <1>2, <1>3, Zenon DEF OnRefreshFinalize
  <1>5. Head(toS[s]) \in Final
    BY NextFrame DEF Final
  <1>6. CASE Return(s, signer[s], <<>>) /\ KeepFiles
    <2>1. \A e \in Signer : Head(toS[s]) \notin Down2(e)
      BY DEF Down2
    <2> QED
      BY <1>6, <2>1, IdleDoes DEF SignerDoes, KeepFiles
  <1>7. ASSUME Part3Accepts(s, r) PROVE Writes(s)
    BY <1>1, <1>5, <1>7 DEF Part3Accepts, Sent2, Writes
  <1>8. CASE Part3Accepts(s, r) /\ DieSaving(s, new)
    BY <1>7, <1>8, DieSavingDoes DEF SignerDoes
  <1>9. ASSUME NEW ok \in BOOLEAN, Part3Accepts(s, r),
               Return(s, new, IF ok THEN <<RefreshComplete(new.pub)>> ELSE <<>>),
               SaveKeyMaterial(s, new, ok)
        PROVE  SignerDoes(s)
    <2>1. SignerFits(s, r, Fixed, run)
      BY <1>1, SignerNow
    <2>2. c \in SUBSET Poly
      <3>1. PICK P : P = Fixed
        OBVIOUS
      <3>2. SignerFits(s, r, P, run)
        BY <2>1, <3>1
      <3> QED
        BY <1>2, <1>9, <3>1, <3>2, ContributionsFit
    <2>3. /\ new.key = r.key \cup c /\ new.pub = r.pub \cup c /\ new.up = r.up
          /\ new.r1 = r.r1 /\ new.r2 = r.r2
          /\ new.secret1 = r.secret1 /\ new.secret2 = r.secret2 /\ r.pub \in SUBSET Poly
      BY <1>3 DEF SignerRecord
    <2>4. PICK out : out = IF ok THEN <<RefreshComplete(new.pub)>> ELSE <<>>
      OBVIOUS
    <2>5. signer'[s] = new /\ Says(s, out)
      BY <1>9, <2>4, ReturnFacts
    <2>6. SameSecrets(s) /\ Got1(s)' = Got1(s) /\ Got2(s)' = Got2(s)
      BY <1>1, <2>3, <2>5 DEF SameSecrets, Got1, Got2
    <2>7. CASE ~ok
      <3>1. out = <<>>
        BY <2>4, <2>7
      <3>2. toC'[s] = toC[s]
        BY <2>5, <3>1, SaysNothing
      <3> QED
        BY <1>7, <1>9, <2>6, <3>2 DEF SignerDoes, Finalizes
    <2>8. CASE ok
      <3>1. \/ keyFile' = [keyFile EXCEPT ![s] = new.key]
            \/ s \in MayFail /\ keyFile' = [keyFile EXCEPT ![s] = Torn]
        BY <1>9, <2>8 DEF SaveKeyMaterial, MayFailNow
      <3>2. keyFile'[s] = r.key \cup c \/ (s \in MayFail /\ keyFile'[s] = Torn)
        BY <2>3, <3>1 DEF SharingInv, TablesOK
      <3>3. c \subseteq r.key \cup c
        OBVIOUS
      <3>4. Settled(s)'
        <4>1. CASE keyFile'[s] = r.key \cup c
          BY <1>2, <1>9, <2>1, <3>3, <4>1, ContributionsSaved DEF Settled
        <4> QED
          BY <3>2, <4>1 DEF Settled
      <3>5. PICK b : b = RefreshComplete(new.pub)
        OBVIOUS
      <3>6. b \in Report \cap UpKind(s, mode)
        <4>1. b \in UpFrame /\ b.type = "REFRESH_COMPLETE"
          BY <2>2, <2>3, <3>5 DEF RefreshComplete, UpFrame
        <4> QED
          BY <4>1 DEF Report, UpKind
      <3>7. toC'[s] = Append(toC[s], b)
        <4>1. PICK F, q : F = UpKind(s, mode) /\ q = toC[s]
          OBVIOUS
        <4>2. q \in Seq(F) /\ b \in F
          BY <3>6, <4>1 DEF FrameInv
        <4>3. Append(q, b) = q \o <<b>>
          BY <4>2, AppendIsConcat
        <4> QED
          BY <2>4, <2>5, <2>8, <3>5, <4>1, <4>3 DEF Says
      <3> QED
        BY <1>7, <1>9, <2>6, <3>4, <3>6, <3>7 DEF SignerDoes, Finalizes
    <2> QED
      BY <2>7, <2>8
  <1> QED
    BY <1>4, <1>6, <1>8, <1>9

LEMMA CoordClosedDoes ==
  ASSUME SharingInv, NEW s \in Signer, OnCoordClosed(s)
  PROVE  Falls(s)
  <1>1. DOMAIN signer = Signer
    BY DEF SharingInv, TablesOK
  <1>2. PICK n : n = signer[s].drawn
    OBVIOUS
  <1>3. signer' = [signer EXCEPT ![s] = Down(n)] /\ toC' = toC /\ keyFile' = keyFile
    BY <1>2 DEF OnCoordClosed, Down, KeepFiles
  <1>4. signer'[s] = Down(n)
    BY <1>1, <1>3
  <1>5. /\ ~Down(n).up /\ Down(n).secret2 = NoPoly /\ Down(n).key = NoPackage
        /\ Senders(Down(n).r1) = {} /\ Senders(Down(n).r2) = {}
    BY DownFacts
  <1> QED
    BY <1>3, <1>4, <1>5 DEF Falls, Sent2, Got1, Got2, Keyed

\* The other signers do not notice.
LEMMA ElsewhereSame ==
  ASSUME SharingInv, NEW s \in Signer, NEW f, ProcessCoordFrame(s, f)
  PROVE  \A d \in Signer \ {s} : /\ signer'[d] = signer[d] /\ toC'[d] = toC[d]
                                 /\ keyFile'[d] = keyFile[d]
  <1>1. DOMAIN signer = Signer /\ DOMAIN toC = Signer /\ DOMAIN keyFile = Signer
    BY DEF SharingInv, TablesOK
  <1> DEFINE Apart == \A d \in Signer \ {s} : /\ signer'[d] = signer[d] /\ toC'[d] = toC[d]
                                              /\ keyFile'[d] = keyFile[d]
  <1>2. ASSUME NEW r, NEW out, Return(s, r, out)
        PROVE  \A d \in Signer \ {s} : signer'[d] = signer[d] /\ toC'[d] = toC[d]
    BY <1>2, ReturnFacts
  <1>3. ASSUME NEW r, NEW out, Return(s, r, out), KeepFiles PROVE Apart
    BY <1>2, <1>3 DEF KeepFiles
  <1>4. ASSUME NEW r, DieSaving(s, r) PROVE Apart
    <2>1. \A d \in Signer \ {s} : signer'[d] = signer[d] /\ toC'[d] = toC[d]
      BY <1>4, DieFacts DEF DieSaving
    <2>2. \A d \in Signer \ {s} : keyFile'[d] = keyFile[d]
      BY <1>1, <1>4 DEF DieSaving
    <2> QED
      BY <2>1, <2>2
  <1>5. ASSUME NEW r, NEW ok, NEW out, Return(s, r, out), SaveKeyMaterial(s, r, ok) PROVE Apart
    <2>1. \A d \in Signer \ {s} : keyFile'[d] = keyFile[d]
      BY <1>1, <1>5, SaveFacts
    <2> QED
      BY <1>2, <1>5, <2>1
  <1>6. CASE OnHelloAck(s, f.mode)
    <2>1. KeepFiles /\ \E r, out : Return(s, r, out)
      BY <1>6, Zenon DEF OnHelloAck
    <2> QED
      BY <1>3, <2>1
  <1>7. ASSUME NEW type, Start(s, type) PROVE Apart
    <2>1. KeepFiles /\ \E r, out : Return(s, r, out)
      BY <1>7, Zenon DEF Start
    <2> QED
      BY <1>3, <2>1
  <1>8. ASSUME NEW type, NEW then, CollectR1(s, f, type, then) PROVE Apart
    <2>1. KeepFiles /\ \E r, out : Return(s, r, out)
      BY <1>8, Zenon DEF CollectR1
    <2> QED
      BY <1>3, <2>1
  <1>9. CASE OnRelayR2(s, f)
    <2>1. \/ \E r, out : Return(s, r, out) /\ KeepFiles
          \/ \E r, out, ok : Return(s, r, out) /\ SaveKeyMaterial(s, r, ok)
          \/ \E r : DieSaving(s, r)
      BY <1>9, Zenon DEF OnRelayR2
    <2> QED
      BY <1>3, <1>4, <1>5, <2>1
  <1>10. CASE OnRelayRefreshR2(s, f)
    BY <1>3, <1>10 DEF OnRelayRefreshR2
  <1>11. CASE OnRefreshFinalize(s)
    <2>1. \/ \E r, out : Return(s, r, out) /\ KeepFiles
          \/ \E r, out, ok : Return(s, r, out) /\ SaveKeyMaterial(s, r, ok)
          \/ \E r : DieSaving(s, r)
      BY <1>11, Zenon DEF OnRefreshFinalize
    <2> QED
      BY <1>3, <1>4, <1>5, <2>1
  <1>12. CASE OnAnnouncement(s)
    BY <1>3, <1>12 DEF OnAnnouncement
  <1>13. CASE OnCoordClosed(s)
    BY <1>1, <1>13 DEF OnCoordClosed, KeepFiles
  <1> HIDE DEF Apart
  <1>14. CASE OnStartDkg(s) \/ OnStartRefresh(s)
    BY <1>7, <1>14 DEF OnStartDkg, OnStartRefresh, Apart
  <1>15. CASE OnRelayR1(s, f) \/ OnRelayRefreshR1(s, f)
    BY <1>8, <1>15 DEF OnRelayR1, OnRelayRefreshR1, Apart
  <1>16. Apart
    BY <1>6, <1>9, <1>10, <1>11, <1>12, <1>13, <1>14, <1>15 DEF ProcessCoordFrame, Apart
  <1> QED
    BY <1>16 DEF Apart

\* A signer reads a frame, or dies.
SignerActs(s) ==
  /\ signer[s].up /\ Others(s) /\ Steady
  /\ \/ toS[s] # <<>> /\ toS'[s] = Tail(toS[s]) /\ SignerDoes(s)
     \/ toS'[s] = toS[s] /\ Falls(s) /\ keyFile'[s] = keyFile[s]

LEMMA SignerStepActs ==
  ASSUME SharingInv, FrameInv, NEW s \in Signer, SignerStep(s)
  PROVE  SignerActs(s)
  <1>1. PICK f : f = Head(toS[s])
    OBVIOUS
  <1>2. /\ signer[s].up /\ toS[s] # <<>> /\ ProcessCoordFrame(s, f) /\ run' = run
        /\ toS' = [toS EXCEPT ![s] = Tail(@)] /\ UNCHANGED coordVars
    BY <1>1 DEF SignerStep
  <1>3. Steady
    BY <1>2 DEF Steady, coordVars
  <1>4. toS'[s] = Tail(toS[s]) /\ \A d \in Signer \ {s} : toS'[d] = toS[d]
    BY <1>2 DEF SharingInv, TablesOK
  <1>5. Others(s)
    BY <1>2, <1>4, ElsewhereSame DEF Others
  <1>6. f \in DownKind(s, mode)
    BY <1>1, <1>2, NextFrame
  <1>7. SignerDoes(s)
    <2>1. CASE f.type = "HELLO_ACK" /\ OnHelloAck(s, f.mode)
      <3>1. f.mode = mode
        BY <1>6, <2>1 DEF DownKind
      <3> QED
        BY <1>1, <1>2, <2>1, <3>1, HelloAckDoes DEF SignerDoes
    <2>2. CASE f.type = "START_DKG" /\ OnStartDkg(s)
      <3>1. PICK type : type = "ROUND1_PKG"
        OBVIOUS
      <3>2. mode = "D" /\ IsStart(Head(toS[s]))
        BY <1>1, <1>6, <2>2, ModeFacts DEF DownKind, IsStart
      <3> QED
        BY <1>2, <2>2, <3>1, <3>2, StartDoes DEF SignerDoes, OnStartDkg
    <2>3. CASE f.type = "START_REFRESH" /\ OnStartRefresh(s)
      <3>1. PICK type : type = "REFRESH_R1"
        OBVIOUS
      <3>2. mode = "R" /\ IsStart(Head(toS[s]))
        BY <1>1, <1>6, <2>3, ModeFacts DEF DownKind, IsStart
      <3> QED
        BY <1>2, <2>3, <3>1, <3>2, StartDoes DEF SignerDoes, OnStartRefresh
    <2>4. CASE f.type = "RELAY_R1" /\ OnRelayR1(s, f)
      <3>1. PICK type, then : type = "ROUND2_PKG" /\ then = <<>>
        OBVIOUS
      <3>2. mode = "D"
        BY <1>6, <2>4, ModeFacts DEF DownKind
      <3>3. CollectR1(s, f, type, then)
        BY <2>4, <3>1 DEF OnRelayR1
      <3> QED
        BY <1>1, <1>2, <2>4, <3>1, <3>2, <3>3, CollectR1Does
    <2>5. CASE f.type = "RELAY_REFRESH_R1" /\ OnRelayRefreshR1(s, f)
      <3>1. PICK type, then : type = "REFRESH_R2" /\ then = <<Notice("REFRESH_R2_COMPLETE")>>
        OBVIOUS
      <3>2. mode = "R"
        BY <1>6, <2>5, ModeFacts DEF DownKind
      <3>3. CollectR1(s, f, type, then)
        BY <2>5, <3>1 DEF OnRelayRefreshR1
      <3> QED
        BY <1>1, <1>2, <2>5, <3>1, <3>2, <3>3, CollectR1Does
    <2>6. CASE f.type = "RELAY_R2" /\ OnRelayR2(s, f)
      <3>1. mode = "D"
        BY <1>6, <2>6, ModeFacts DEF DownKind
      <3> QED
        BY <1>1, <1>2, <2>6, <3>1, RelayR2Does
    <2>7. CASE f.type = "RELAY_REFRESH_R2" /\ OnRelayRefreshR2(s, f)
      BY <1>1, <1>2, <2>7, RelayRefreshR2Does DEF SignerDoes
    <2>8. CASE f.type = "REFRESH_FINALIZE" /\ OnRefreshFinalize(s)
      <3>1. mode = "R"
        BY <1>6, <2>8, ModeFacts DEF DownKind
      <3> QED
        BY <1>1, <1>2, <2>8, <3>1, FinalizeDoes
    <2>9. CASE f.type \in {"DKG_DONE", "REFRESH_CONFIRMED"} /\ OnAnnouncement(s)
      <3>1. \A e \in Signer : Head(toS[s]) \notin Down2(e)
        BY <1>1, <2>9 DEF Down2
      <3> QED
        BY <1>2, <2>9, <3>1, IdleDoes DEF SignerDoes, OnAnnouncement, KeepFiles
    <2>10. CASE f.type = "CLOSED" /\ OnCoordClosed(s)
      BY <2>10, CoordClosedDoes DEF SignerDoes
    <2> QED
      BY <1>2, <2>1, <2>2, <2>3, <2>4, <2>5, <2>6, <2>7, <2>8, <2>9, <2>10
         DEF ProcessCoordFrame
  <1> QED
    BY <1>2, <1>3, <1>4, <1>5, <1>7 DEF SignerActs

LEMMA CrashActs ==
  ASSUME SharingInv, NEW s \in Signer, Crash(s)
  PROVE  SignerActs(s)
  <1>1. /\ signer[s].up /\ Die(s) /\ keyFile' = keyFile /\ run' = run /\ UNCHANGED coordVars
        /\ toS' = toS
    BY DEF Crash, KeepFiles
  <1>2. Steady
    BY <1>1 DEF Steady, coordVars
  <1>3. Others(s)
    BY <1>1, DieFacts DEF Others
  <1>4. Falls(s)
    BY <1>1, DieFacts DEF Falls
  <1> QED
    BY <1>1, <1>2, <1>3, <1>4 DEF SignerActs

-----------------------------------------------------------------------------
(* What the coordinator does, in these terms.                              *)

\* It takes the next frame of s.
Handles(s) ==
  /\ running /\ s \in Listed /\ toC[s] # <<>> /\ toC'[s] = Tail(toC[s])
  /\ \A d \in Signer \ {s} : toC'[d] = toC[d]
  /\ UNCHANGED <<signer, keyFile, run, mode, running>>

SameDone == \A d \in Signer : entry'[d].r2Complete = entry[d].r2Complete

\* A package of round 1 that is not the last, a package for a signer that is
\* gone, or a frame without effect.
Ignores(s) ==
  /\ Head(toC[s]) \notin UpDone \cup Report \cup UpEnd
  /\ \A d \in Listed : Head(toC[s]) \notin Up2(d)
  /\ SameDone /\ UNCHANGED <<toS, dkgState, list, count, done>>

\* The last package of round 1: all of them are relayed.
Relay1Out(out) ==
  /\ \A i \in DOMAIN out : out[i].type \in {"RELAY_R1", "RELAY_REFRESH_R1"}
  /\ \A e \in Signer : Few(out, Down1(e))

Relays1(s) ==
  /\ Head(toC[s]) \in Plain
  /\ dkgState = "R1" /\ dkgState' = "R2" /\ \A d \in Signer : Begun(d)
  /\ SameDone /\ UNCHANGED <<list, count, done>>
  /\ \A d \in Signer :
       \/ toS'[d] = toS[d]
       \/ \E out \in Seq(DownKind(d, mode)) : toS'[d] = toS[d] \o out /\ Relay1Out(out)

\* A package of round 2 is passed on.
Passes2(s) ==
  \E d \in Listed \ {s} :
    /\ Head(toC[s]) \in Up2(d)
    /\ \E g \in Down2(s) \cap DownKind(d, mode) : toS'[d] = Append(toS[d], g)
    /\ \A c \in Signer \ {d} : toS'[c] = toS[c]
    /\ UNCHANGED <<dkgState, list, entry, count, done>>

\* The notice that s is done with round 2.
NotesDone(s) ==
  /\ Head(toC[s]) \in UpDone
  /\ \A d \in Signer : entry'[d].r2Complete = (d = s \/ entry[d].r2Complete)
  /\ UNCHANGED <<toS, dkgState, list, count, done>>

\* The last one.
Announces(s) ==
  /\ Head(toC[s]) \in UpDone /\ ~entry[s].r2Complete
  /\ \A d \in Signer : entry'[d].r2Complete /\ (d # s => entry[d].r2Complete)
  /\ dkgState' = "COMPLETE" /\ UNCHANGED <<list, count, done>>
  /\ \A d \in Signer :
       \E g \in DownKind(d, mode) : /\ g.type \in {"DKG_DONE", "REFRESH_FINALIZE"}
                                    /\ toS'[d] = Append(toS[d], g)

\* A report is counted, and the last one confirmed.
Counts(s) ==
  /\ Head(toC[s]) \in Report
  /\ count' = count + 1 /\ done' \in BOOLEAN /\ (done' => done \/ count + 1 >= N)
  /\ SameDone /\ UNCHANGED <<dkgState, list>>
  /\ \A d \in Signer :
       \/ toS'[d] = toS[d]
       \/ \E g \in DownKind(d, mode) : /\ g.type = "REFRESH_CONFIRMED"
                                       /\ toS'[d] = Append(toS[d], g)

\* The connection of s is down.
Removes(s) ==
  /\ Head(toC[s]) \in UpEnd
  /\ toS'[s] = <<>> /\ \A d \in Signer \ {s} : toS'[d] = toS[d]
  /\ Listed' = Listed \ {s}
  /\ UNCHANGED <<dkgState, entry, count, done>>

CoordinatorDoes(s) ==
  \/ Ignores(s) \/ Relays1(s) \/ Passes2(s) \/ NotesDone(s) \/ Announces(s) \/ Counts(s)
  \/ Removes(s)

LEMMA FullSet ==
  ASSUME NEW X, X \subseteq Signer, Cardinality(X) >= N
  PROVE  X = Signer
  <1>1. N \in Nat /\ Signer = 1..N
    BY PolyFacts
  <1>2. IsFiniteSet(Signer) /\ Cardinality(Signer) = N
    BY <1>1, FS_Interval
  <1>3. Cardinality(X) \in Nat /\ Cardinality(X) <= N /\ IsFiniteSet(X)
    BY <1>1, <1>2, FS_Subset, FS_CardinalityType
  <1>4. Cardinality(X) = N
    BY <1>1, <1>3
  <1> QED
    BY <1>2, <1>4, FS_Subset

\* Whoever's polynomial stands has handled START.
LEMMA FixedBegun ==
  ASSUME NEW d \in Signer, NEW p \in Fixed, p.by = d
  PROVE  Begun(d)
  <1>1. PICK c \in Signer : Begun(c) /\ p = [by |-> c, run |-> run, no |-> signer[c].drawn]
    BY DEF Fixed
  <1> QED
    BY <1>1

LEMMA NextUp ==
  ASSUME FrameInv, NEW s \in Signer, toC[s] # <<>>
  PROVE  Head(toC[s]) \in UpKind(s, mode) /\ Head(toC[s]) \in UpFrame
  <1>1. PICK F, q : F = UpKind(s, mode) /\ q = toC[s]
    OBVIOUS
  <1>2. q \in Seq(F)
    BY <1>1 DEF FrameInv
  <1>3. Head(q) \in F
    BY <1>1, <1>2, TailFacts
  <1> QED
    BY <1>1, <1>3 DEF UpKind

LEMMA PlainFrame ==
  ASSUME NEW f \in Plain
  PROVE  f \notin UpDone \cup Report \cup UpEnd /\ \A d : f \notin Up2(d)
  BY DEF Plain, UpDone, Report, UpEnd, Up2

LEMMA DroppedDoes ==
  ASSUME NEW s \in Signer, Head(toC[s]) \in Plain, Dropped
  PROVE  Ignores(s)
  <1>1. UNCHANGED <<toS, dkgState, list, count, done, entry>>
    BY DEF Dropped, coordVars
  <1>2. PICK f \in Plain : f = Head(toC[s])
    OBVIOUS
  <1>3. Head(toC[s]) \notin UpDone \cup Report \cup UpEnd /\ \A d : Head(toC[s]) \notin Up2(d)
    BY <1>2, PlainFrame
  <1> QED
    BY <1>1, <1>3 DEF Ignores, SameDone

\* One field of one entry is set.
R1Item == [pkg : Poly \cup {NoPoly}, sig : Sig]
R1Noted(entries, s, r1) == entries = [entry EXCEPT ![s].r1 = r1]

LEMMA SetR1 ==
  ASSUME SharingInv, NEW s \in Signer, NEW r1 \in R1Item,
         NEW entries, R1Noted(entries, s, r1)
  PROVE  /\ entries \in [Signer -> EntryRecord]
         /\ \A d \in Signer : /\ entries[d].r2Complete = entry[d].r2Complete
                              /\ entries[d].r1 = IF d = s THEN r1 ELSE entry[d].r1
  <1>1. entry \in [Signer -> EntryRecord]
    BY DEF SharingInv, TablesOK
  <1>2. PICK e0 \in EntryRecord : e0 = entry[s]
    BY <1>1
  <1>3. PICK e : e = [e0 EXCEPT !.r1 = r1]
    OBVIOUS
  <1>4. e \in EntryRecord /\ e.r1 = r1 /\ e.r2Complete = e0.r2Complete
    BY <1>3 DEF EntryRecord, R1Item
  <1>5. entries = [entry EXCEPT ![s] = e]
    BY <1>1, <1>2, <1>3 DEF R1Noted
  <1>6. /\ entries \in [Signer -> EntryRecord]
        /\ \A d \in Signer : entries[d] = IF d = s THEN e ELSE entry[d]
    BY <1>1, <1>4, <1>5
  <1> QED
    BY <1>2, <1>4, <1>6

\* The relayed packages: each of the others once.
R1Frames(x, d, type, entries) ==
  x = [i \in 1..(Len(list) - 1) |->
         RelayedR1(type, Without(d)[i], entries[Without(d)[i]].r1)]

LEMMA RelayEach ==
  ASSUME SharingInv, NEW entries \in [Signer -> EntryRecord], NEW m \in {"D", "R"},
         NEW type, type = (IF m = "D" THEN "RELAY_R1" ELSE "RELAY_REFRESH_R1"),
         NEW d \in Listed, NEW x, R1Frames(x, d, type, entries)
  PROVE  x \in Seq(DownKind(d, m)) /\ Relay1Out(x)
  <1>1. PICK w : w = Without(d)
    OBVIOUS
  <1>2. /\ w \in Seq(Signer) /\ Len(w) = Len(list) - 1
        /\ \A i, j \in DOMAIN w : w[i] = w[j] => i = j
        /\ {w[i] : i \in DOMAIN w} = Listed \ {d}
    BY <1>1, WithoutList DEF SharingInv
  <1>3. PICK n \in Nat : n = Len(w) /\ DOMAIN w = 1..n
    BY <1>2
  <1>4. \A i \in 1..n : w[i] \in Signer \ {d}
    BY <1>2, <1>3
  <1>5. x = [i \in 1..n |-> RelayedR1(type, w[i], entries[w[i]].r1)]
    BY <1>1, <1>2, <1>3 DEF R1Frames
  <1>6. ASSUME NEW c \in Signer \ {d}
        PROVE  /\ RelayedR1(type, c, entries[c].r1) \in DownKind(d, m)
               /\ RelayedR1(type, c, entries[c].r1).type = type
               /\ RelayedR1(type, c, entries[c].r1).from = c
    <2>1. PICK e \in EntryRecord : e = entries[c]
      OBVIOUS
    <2>2. e.r1 \in [pkg : Poly \cup {NoPoly}, sig : Sig]
      BY DEF EntryRecord
    <2>3. PICK g : g = RelayedR1(type, c, e.r1)
      OBVIOUS
    <2>4. g \in DownFrame /\ g.type = type /\ g.from = c
      BY <2>2, <2>3 DEF RelayedR1, DownFrame
    <2>5. g \in DownKind(d, m)
      BY <2>4 DEF DownKind
    <2> QED
      BY <2>1, <2>3, <2>4, <2>5
  <1>7. /\ DOMAIN x = 1..n
        /\ \A i \in 1..n : x[i] \in DownKind(d, m) /\ x[i].type = type /\ x[i].from = w[i]
    BY <1>4, <1>5, <1>6
  <1>8. x \in Seq(DownKind(d, m))
    <2>1. x = [i \in 1..n |-> x[i]]
      BY <1>5
    <2>2. \A i \in 1..n : x[i] \in DownKind(d, m)
      BY <1>7
    <2> QED
      BY <2>1, <2>2, SeqOf
  <1>9. ASSUME NEW e \in Signer PROVE Few(x, Down1(e))
    <2>1. \A i \in 1..n : x[i] \in Down1(e) => w[i] = e
      BY <1>7 DEF Down1
    <2> QED
      BY <1>2, <1>3, <1>7, <2>1 DEF Few
  <1>10. \A i \in DOMAIN x : x[i].type \in {"RELAY_R1", "RELAY_REFRESH_R1"}
    BY <1>7
  <1> QED
    BY <1>8, <1>9, <1>10 DEF Relay1Out

LEMMA NoteR1Does ==
  ASSUME SharingInv, FrameInv, NEW s \in Signer, NEW f, f = Head(toC[s]), toC[s] # <<>>,
         f.type \in {"ROUND1_PKG", "REFRESH_R1"},
         NEW type, type = (IF mode = "D" THEN "RELAY_R1" ELSE "RELAY_REFRESH_R1"),
         NoteR1(s, f, type)
  PROVE  Ignores(s) \/ Relays1(s)
  <1>1. f \in UpFrame
    BY NextUp
  <1>2. Head(toC[s]) \in Plain
    BY <1>1 DEF Plain
  <1>3. Head(toC[s]) \notin UpDone \cup Report \cup UpEnd /\ \A d : Head(toC[s]) \notin Up2(d)
    BY <1>1, <1>2, PlainFrame
  <1>4. f.pkg \in Poly /\ f.sig \in Sig /\ f.pkg \in Fixed /\ f.pkg.by = s
    <2>1. UpOK(s, toC[s], Fixed)
      BY DEF SharingInv, Connection
    <2>2. PICK P, up : P = Fixed /\ up = toC[s]
      OBVIOUS
    <2>3. UpFits(s, f, P)
      BY <2>1, <2>2, UpTail
    <2> QED
      BY <1>1, <2>2, <2>3, UpFrameFacts DEF UpFits
  <1>5. PICK r1 \in R1Item : r1 = [pkg |-> f.pkg, sig |-> f.sig]
    BY <1>4 DEF R1Item
  <1>6. PICK entries : entries = [entry EXCEPT ![s].r1 = r1]
    OBVIOUS
  <1>7. /\ entries \in [Signer -> EntryRecord]
        /\ \A d \in Signer : /\ entries[d].r2Complete = entry[d].r2Complete
                             /\ entries[d].r1 = IF d = s THEN r1 ELSE entry[d].r1
    <2>1. R1Noted(entries, s, r1)
      BY <1>6 DEF R1Noted
    <2> QED
      BY <2>1, SetR1
  <1>8. UNCHANGED <<mode, list, count, done>>
    BY DEF NoteR1
  <1>9. \/ UNCHANGED <<entry, dkgState, toS>>
        \/ entry' = entries /\ UNCHANGED <<dkgState, toS>>
        \/ /\ entry' = entries /\ dkgState = "R1" /\ dkgState' = "R2" /\ R1Complete(entries)
           /\ toS' = RelayAllR1(entries, type)
    BY <1>5, <1>6, Zenon DEF NoteR1
  <1>10. SameDone
    BY <1>7, <1>9 DEF SameDone
  <1>11. CASE UNCHANGED <<dkgState, toS>>
    BY <1>3, <1>8, <1>10, <1>11 DEF Ignores
  <1>12. CASE /\ entry' = entries /\ dkgState = "R1" /\ dkgState' = "R2" /\ R1Complete(entries)
              /\ toS' = RelayAllR1(entries, type)
    <2>1. {d \in Listed : entries[d].r1.pkg # NoPoly} = Signer
      <3>1. Listed \subseteq Signer
        BY DEF SharingInv, StateOK, Listed
      <3> QED
        BY <1>12, <3>1, FullSet DEF R1Complete
    <2>2. ASSUME NEW d \in Signer PROVE Begun(d)
      <3>1. entries[d].r1.pkg # NoPoly
        BY <2>1
      <3>2. CASE d = s
        BY <1>4, <3>2, FixedBegun
      <3>3. CASE d # s
        <4>1. entry[d].r1.pkg # NoPoly
          BY <1>7, <3>1, <3>3
        <4>2. entry[d].r1 # NoR1
          BY <4>1 DEF NoR1
        <4>3. entry[d].r1.pkg \in Fixed /\ entry[d].r1.pkg.by = d
          BY <4>2 DEF SharingInv, Connection, EntryFits
        <4>4. PICK p \in Fixed : p.by = d
          BY <4>3
        <4> QED
          BY <4>4, FixedBegun
      <3> QED
        BY <3>2, <3>3
    <2>3. ASSUME NEW d \in Signer
          PROVE  \/ toS'[d] = toS[d]
                 \/ \E out \in Seq(DownKind(d, mode)) :
                      toS'[d] = toS[d] \o out /\ Relay1Out(out)
      <3>1. PICK x : x = [i \in 1..(Len(list) - 1) |->
                            RelayedR1(type, Without(d)[i], entries[Without(d)[i]].r1)]
        OBVIOUS
      <3>2. toS'[d] = IF d \in Listed THEN toS[d] \o x ELSE toS[d]
        BY <1>12, <3>1 DEF RelayAllR1
      <3>3. ASSUME d \in Listed PROVE x \in Seq(DownKind(d, mode)) /\ Relay1Out(x)
        <4>1. PICK m \in {"D", "R"} : m = mode
          BY ModeFacts
        <4>2. type = (IF m = "D" THEN "RELAY_R1" ELSE "RELAY_REFRESH_R1")
          BY <4>1
        <4>3. x \in Seq(DownKind(d, m)) /\ Relay1Out(x)
          <5>1. R1Frames(x, d, type, entries)
            BY <3>1 DEF R1Frames
          <5> QED
            BY <1>7, <3>3, <4>2, <5>1, RelayEach
        <4> QED
          BY <4>1, <4>3
      <3> QED
        BY <3>2, <3>3
    <2> QED
      BY <1>2, <1>8, <1>10, <1>12, <2>2, <2>3 DEF Relays1
  <1> QED
    BY <1>9, <1>11, <1>12

LEMMA PassR2Does ==
  ASSUME SharingInv, FrameInv, NEW s \in Signer, NEW f, f = Head(toC[s]), toC[s] # <<>>,
         f.type \in {"ROUND2_PKG", "REFRESH_R2"},
         NEW type, type = (IF mode = "D" THEN "RELAY_R2" ELSE "RELAY_REFRESH_R2"),
         PassR2(f, type)
  PROVE  Ignores(s) \/ Passes2(s)
  <1>1. f \in UpKind(s, mode) /\ f \in UpFrame
    BY NextUp
  <1>2. f \in [type : {"ROUND2_PKG", "REFRESH_R2"}, box : Box, sig : BoxSig]
    BY <1>1 DEF UpFrame
  <1>3. f.box.from = s /\ f.box.to # s /\ f.sig = Signed(s, f.box)
    BY <1>1 DEF UpKind
  <1>4. PICK d \in Signer : d = f.box.to
    BY <1>2 DEF Box
  <1>5. /\ Head(toC[s]) \notin UpDone \cup Report \cup UpEnd /\ Head(toC[s]) \in Up2(d)
        /\ \A c : Head(toC[s]) \in Up2(c) => c = d
    BY <1>1, <1>4 DEF UpDone, Report, UpEnd, Up2
  <1>6. UNCHANGED <<dkgState, list, entry, count, done>>
    BY DEF PassR2, coordVars
  <1>7. PICK g : g = [f EXCEPT !.type = type]
    OBVIOUS
  <1>8. g.type = type /\ g.box = f.box /\ g.sig = f.sig
    BY <1>2, <1>7
  <1>9. type \in {"RELAY_R2", "RELAY_REFRESH_R2"}
    OBVIOUS
  <1>10. g \in DownFrame
    <2>1. g \in [type : {"RELAY_R2", "RELAY_REFRESH_R2"}, box : Box, sig : BoxSig]
      BY <1>2, <1>7, <1>9
    <2> QED
      BY <2>1 DEF DownFrame
  <1>11. g \in Down2(s)
    BY <1>3, <1>8, <1>9, <1>10 DEF Down2
  <1>12. g \in DownKind(d, mode)
    <2>1. mode = "D" => type = "RELAY_R2"
      OBVIOUS
    <2>2. mode = "R" => type = "RELAY_REFRESH_R2"
      OBVIOUS
    <2>3. g.box.to = d /\ g.box.from # d /\ g.sig = Signed(g.box.from, g.box)
      BY <1>3, <1>4, <1>8
    <2> QED
      BY <1>8, <1>9, <1>10, <2>1, <2>2, <2>3 DEF DownKind
  <1>13. CASE d \notin Listed
    <2>1. toS' = toS
      BY <1>4, <1>13 DEF PassR2
    <2>2. SameDone
      BY <1>6 DEF SameDone
    <2> QED
      BY <1>5, <1>6, <1>13, <2>1, <2>2 DEF Ignores
  <1>14. CASE d \in Listed
    <2>1. toS' = [toS EXCEPT ![d] = Append(@, g)]
      BY <1>4, <1>7, <1>14, Zenon DEF PassR2
    <2>2. DOMAIN toS = Signer
      BY DEF SharingInv, TablesOK
    <2>3. toS'[d] = Append(toS[d], g) /\ \A c \in Signer \ {d} : toS'[c] = toS[c]
      BY <2>1, <2>2
    <2>4. d \in Listed \ {s}
      BY <1>3, <1>4, <1>14
    <2> QED
      BY <1>5, <1>6, <1>11, <1>12, <2>3, <2>4 DEF Passes2
  <1> QED
    BY <1>13, <1>14

LEMMA BroadcastTo ==
  ASSUME NEW f, toS' = Broadcast(toS, f), NEW d \in Signer
  PROVE  toS'[d] = IF d \in Listed THEN Append(toS[d], f) ELSE toS[d]
  BY DEF Broadcast

\* r2_complete is set.
DoneNoted(entries, s) == entries = [entry EXCEPT ![s].r2Complete = TRUE]

LEMMA SetDone ==
  ASSUME SharingInv, NEW s \in Signer, NEW entries, DoneNoted(entries, s)
  PROVE  \A d \in Signer : entries[d].r2Complete = (d = s \/ entry[d].r2Complete)
  <1>1. entry \in [Signer -> EntryRecord]
    BY DEF SharingInv, TablesOK
  <1>2. PICK e0 \in EntryRecord : e0 = entry[s]
    BY <1>1
  <1>3. PICK e : e = [e0 EXCEPT !.r2Complete = TRUE]
    OBVIOUS
  <1>4. e.r2Complete = TRUE
    BY <1>3 DEF EntryRecord
  <1>5. entries = [entry EXCEPT ![s] = e]
    BY <1>1, <1>2, <1>3 DEF DoneNoted
  <1>6. \A d \in Signer : entries[d] = IF d = s THEN e ELSE entry[d]
    BY <1>1, <1>5
  <1>7. \A d \in Signer : entry[d].r2Complete \in BOOLEAN
    BY <1>1 DEF EntryRecord
  <1> QED
    BY <1>4, <1>6, <1>7, Zenon

LEMMA NoteR2CompleteDoes ==
  ASSUME SharingInv, FrameInv, NEW s \in Signer, Head(toC[s]) \in UpDone,
         NEW answer, answer = (IF mode = "D" THEN "DKG_DONE" ELSE "REFRESH_FINALIZE"),
         NoteR2Complete(s, answer)
  PROVE  NotesDone(s) \/ Announces(s)
  <1>1. PICK entries : entries = [entry EXCEPT ![s].r2Complete = TRUE]
    OBVIOUS
  <1>2. \A d \in Signer : entries[d].r2Complete = (d = s \/ entry[d].r2Complete)
    <2>1. DoneNoted(entries, s)
      BY <1>1 DEF DoneNoted
    <2> QED
      BY <2>1, SetDone
  <1>3. entry' = entries /\ UNCHANGED <<list, count, done>>
    BY <1>1, Zenon DEF NoteR2Complete
  <1>4. \/ UNCHANGED <<dkgState, toS>>
        \/ /\ ~entry[s].r2Complete /\ R2Complete(entries) /\ dkgState' = "COMPLETE"
           /\ toS' = Broadcast(toS, Notice(answer))
    BY <1>1, Zenon DEF NoteR2Complete
  <1>5. CASE UNCHANGED <<dkgState, toS>>
    BY <1>2, <1>3, <1>5 DEF NotesDone
  <1>6. CASE /\ ~entry[s].r2Complete /\ R2Complete(entries) /\ dkgState' = "COMPLETE"
             /\ toS' = Broadcast(toS, Notice(answer))
    <2>1. Listed \subseteq Signer
      BY DEF SharingInv, StateOK, Listed
    <2>2. {d \in Listed : entries[d].r2Complete} = Signer
      BY <1>6, <2>1, FullSet DEF R2Complete
    <2>3. \A d \in Signer : d \in Listed /\ entries[d].r2Complete
      BY <2>2
    <2>4. \A d \in Signer : entry'[d].r2Complete /\ (d # s => entry[d].r2Complete)
      BY <1>2, <1>3, <2>3
    <2>5. PICK g : g = Notice(answer)
      OBVIOUS
    <2>6. g.type = answer /\ g \in DownFrame
      BY <2>5 DEF Notice, DownFrame
    <2>7. \A d \in Signer : g \in DownKind(d, mode)
      BY <2>6, ModeFacts DEF DownKind
    <2>8. \A d \in Signer : toS'[d] = Append(toS[d], g)
      BY <1>6, <2>3, <2>5, BroadcastTo
    <2>9. g.type \in {"DKG_DONE", "REFRESH_FINALIZE"}
      BY <2>6
    <2> QED
      BY <1>3, <1>6, <2>4, <2>7, <2>8, <2>9 DEF Announces
  <1> QED
    BY <1>4, <1>5, <1>6

LEMMA CountPubDone ==
  ASSUME SharingInv, NEW s \in Signer, NEW pub, CountPub(s, pub)
  PROVE  SameDone /\ count' = count + 1
  <1>1. PICK e0 \in EntryRecord : e0 = entry[s]
    BY DEF SharingInv, TablesOK
  <1>2. PICK e : e = [e0 EXCEPT !.pub = pub]
    OBVIOUS
  <1>3. e.r2Complete = e0.r2Complete
    BY <1>2 DEF EntryRecord
  <1>4. DOMAIN entry = Signer
    BY DEF SharingInv, TablesOK
  <1>5. entry' = [entry EXCEPT ![s] = e]
    BY <1>1, <1>2, <1>4 DEF CountPub
  <1>6. \A d \in Signer : entry'[d] = IF d = s THEN e ELSE entry[d]
    BY <1>4, <1>5
  <1> QED
    BY <1>1, <1>3, <1>6 DEF SameDone, CountPub

LEMMA PubKeyPkgDoes ==
  ASSUME SharingInv, NEW s \in Signer, Head(toC[s]) \in Report, NEW f, OnPubKeyPkg(s, f)
  PROVE  Counts(s)
  <1>1. PICK pub : pub = f.pub
    OBVIOUS
  <1>2. SameDone /\ count' = count + 1
    BY <1>1, CountPubDone DEF OnPubKeyPkg
  <1>3. UNCHANGED <<dkgState, list, toS>>
    BY DEF OnPubKeyPkg
  <1>4. done' = done \/ (done' = TRUE /\ count + 1 >= N)
    BY Zenon DEF OnPubKeyPkg, WritesPub
  <1>6. done' \in BOOLEAN /\ (done' => done \/ count + 1 >= N)
    <2>1. done \in BOOLEAN
      BY DEF SharingInv, StateOK
    <2>2. done' \in BOOLEAN
      BY <1>4, <2>1, Zenon
    <2> QED
      BY <1>4, <2>1, <2>2
  <1> QED
    BY <1>2, <1>3, <1>6 DEF Counts

LEMMA RefreshCompleteDoes ==
  ASSUME SharingInv, NEW s \in Signer, Head(toC[s]) \in Report, mode = "R", NEW f,
         OnRefreshComplete(s, f)
  PROVE  Counts(s)
  <1>1. PICK pub : pub = f.pub
    OBVIOUS
  <1>2. SameDone /\ count' = count + 1
    BY <1>1, CountPubDone DEF OnRefreshComplete
  <1>3. UNCHANGED <<dkgState, list>>
    BY DEF OnRefreshComplete
  <1>4. done' = done \/ (done' = TRUE /\ ~(count + 1 < N))
    BY <1>2 DEF OnRefreshComplete
  <1>5. ~(count + 1 < N) => count + 1 >= N
    BY PolyFacts DEF SharingInv, StateOK
  <1>6. done' \in BOOLEAN /\ (done' => done \/ count + 1 >= N)
    <2>1. done \in BOOLEAN
      BY DEF SharingInv, StateOK
    <2>2. done' \in BOOLEAN
      BY <1>4, <2>1, Zenon
    <2> QED
      BY <1>4, <1>5, <2>1, <2>2
  <1>7. PICK g : g = Notice("REFRESH_CONFIRMED")
    OBVIOUS
  <1>8. g.type = "REFRESH_CONFIRMED" /\ \A d \in Signer : g \in DownKind(d, mode)
    BY <1>7 DEF Notice, DownFrame, DownKind
  <1>9. toS' = toS \/ toS' = Broadcast(toS, g)
    BY <1>7 DEF OnRefreshComplete
  <1>10. \A d \in Signer : toS'[d] = toS[d] \/ toS'[d] = Append(toS[d], g)
    BY <1>9, BroadcastTo
  <1> QED
    BY <1>2, <1>3, <1>6, <1>8, <1>10 DEF Counts

LEMMA ClosedDoes ==
  ASSUME SharingInv, NEW s \in Listed, s \in Signer, Head(toC[s]) \in UpEnd, OnClosed(s)
  PROVE  Removes(s)
  <1>1. list' = Without(s) /\ UNCHANGED <<dkgState, entry, count, done>>
    BY DEF OnClosed
  <1>2. DOMAIN toS = Signer /\ toS' = [toS EXCEPT ![s] = <<>>]
    BY DEF SharingInv, TablesOK, OnClosed
  <1>3. toS'[s] = <<>> /\ \A d \in Signer \ {s} : toS'[d] = toS[d]
    BY <1>2
  <1>4. Listed' = Listed \ {s}
    <2>1. {Without(s)[i] : i \in DOMAIN Without(s)} = Listed \ {s}
      BY WithoutList DEF SharingInv
    <2>2. PICK w : w = Without(s)
      OBVIOUS
    <2>3. list' = w /\ {w[i] : i \in DOMAIN w} = Listed \ {s}
      BY <1>1, <2>1, <2>2
    <2>4. Listed' = {w[i] : i \in DOMAIN w}
      BY <2>3 DEF Listed
    <2> QED
      BY <2>3, <2>4
  <1> QED
    BY <1>1, <1>3, <1>4 DEF Removes

LEMMA CoordinatorStepDoes ==
  ASSUME SharingInv, FrameInv, NEW s \in Signer, CoordinatorStep(s)
  PROVE  Handles(s) /\ CoordinatorDoes(s)
  <1>1. PICK f : f = Head(toC[s])
    OBVIOUS
  <1>2. /\ running /\ s \in Listed /\ toC[s] # <<>> /\ toC' = [toC EXCEPT ![s] = Tail(@)]
        /\ UNCHANGED <<signer, keyFile, run>> /\ ProcessSignerFrame(s, f)
    BY <1>1 DEF CoordinatorStep
  <1>3. UNCHANGED <<mode, running>>
    BY <1>2 DEF ProcessSignerFrame, OnRound1Pkg, OnRound2Pkg, OnR2Complete, OnPubKeyPkg,
          OnRefreshR1, OnRefreshR2, OnRefreshR2Complete, OnRefreshComplete, OnShareLoadFail,
          OnClosed, NoteR1, PassR2, NoteR2Complete, Dropped, coordVars
  <1>4. DOMAIN toC = Signer
    BY DEF SharingInv, TablesOK
  <1>5. Handles(s)
    BY <1>2, <1>3, <1>4 DEF Handles
  <1>6. f \in UpKind(s, mode) /\ f \in UpFrame
    BY <1>1, <1>2, NextUp
  <1>7. mode = "D" \/ mode = "R"
    BY ModeFacts
  <1>8. CASE f.type = "ROUND1_PKG" /\ OnRound1Pkg(s, f)
    <2>1. mode = "D"
      BY <1>6, <1>7, <1>8 DEF UpKind
    <2>2. PICK type : type = "RELAY_R1"
      OBVIOUS
    <2>3. NoteR1(s, f, type) /\ type = (IF mode = "D" THEN "RELAY_R1" ELSE "RELAY_REFRESH_R1")
      BY <1>8, <2>1, <2>2 DEF OnRound1Pkg
    <2> QED
      BY <1>1, <1>2, <1>5, <1>8, <2>3, NoteR1Does DEF CoordinatorDoes
  <1>9. CASE f.type = "REFRESH_R1" /\ OnRefreshR1(s, f)
    <2>1. mode = "R"
      BY <1>6, <1>7, <1>9 DEF UpKind
    <2>2. PICK type : type = "RELAY_REFRESH_R1"
      OBVIOUS
    <2>3. NoteR1(s, f, type) /\ type = (IF mode = "D" THEN "RELAY_R1" ELSE "RELAY_REFRESH_R1")
      BY <1>9, <2>1, <2>2 DEF OnRefreshR1
    <2> QED
      BY <1>1, <1>2, <1>5, <1>9, <2>3, NoteR1Does DEF CoordinatorDoes
  <1>10. CASE f.type = "ROUND2_PKG" /\ OnRound2Pkg(f)
    <2>1. mode = "D"
      BY <1>6, <1>7, <1>10 DEF UpKind
    <2>2. PICK type : type = "RELAY_R2"
      OBVIOUS
    <2>3. PassR2(f, type) /\ type = (IF mode = "D" THEN "RELAY_R2" ELSE "RELAY_REFRESH_R2")
      BY <1>10, <2>1, <2>2 DEF OnRound2Pkg
    <2> QED
      BY <1>1, <1>2, <1>5, <1>10, <2>3, PassR2Does DEF CoordinatorDoes
  <1>11. CASE f.type = "REFRESH_R2" /\ OnRefreshR2(f)
    <2>1. mode = "R"
      BY <1>6, <1>7, <1>11 DEF UpKind
    <2>2. PICK type : type = "RELAY_REFRESH_R2"
      OBVIOUS
    <2>3. PassR2(f, type) /\ type = (IF mode = "D" THEN "RELAY_R2" ELSE "RELAY_REFRESH_R2")
      BY <1>11, <2>1, <2>2 DEF OnRefreshR2
    <2> QED
      BY <1>1, <1>2, <1>5, <1>11, <2>3, PassR2Does DEF CoordinatorDoes
  <1>12. CASE f.type = "R2_COMPLETE" /\ OnR2Complete(s)
    <2>1. mode = "D"
      BY <1>6, <1>7, <1>12 DEF UpKind
    <2>2. PICK answer : answer = "DKG_DONE"
      OBVIOUS
    <2>3. /\ NoteR2Complete(s, answer)
          /\ answer = (IF mode = "D" THEN "DKG_DONE" ELSE "REFRESH_FINALIZE")
      BY <1>12, <2>1, <2>2 DEF OnR2Complete
    <2>4. Head(toC[s]) \in UpDone
      BY <1>1, <1>6, <1>12 DEF UpDone
    <2> QED
      BY <1>5, <2>3, <2>4, NoteR2CompleteDoes DEF CoordinatorDoes
  <1>13. CASE f.type = "REFRESH_R2_COMPLETE" /\ OnRefreshR2Complete(s)
    <2>1. mode = "R"
      BY <1>6, <1>7, <1>13 DEF UpKind
    <2>2. PICK answer : answer = "REFRESH_FINALIZE"
      OBVIOUS
    <2>3. /\ NoteR2Complete(s, answer)
          /\ answer = (IF mode = "D" THEN "DKG_DONE" ELSE "REFRESH_FINALIZE")
      BY <1>13, <2>1, <2>2 DEF OnRefreshR2Complete
    <2>4. Head(toC[s]) \in UpDone
      BY <1>1, <1>6, <1>13 DEF UpDone
    <2> QED
      BY <1>5, <2>3, <2>4, NoteR2CompleteDoes DEF CoordinatorDoes
  <1>14. CASE f.type = "PUB_KEY_PKG" /\ OnPubKeyPkg(s, f)
    <2>1. Head(toC[s]) \in Report
      BY <1>1, <1>6, <1>14 DEF Report
    <2> QED
      BY <1>5, <1>14, <2>1, PubKeyPkgDoes DEF CoordinatorDoes
  <1>15. CASE f.type = "REFRESH_COMPLETE" /\ OnRefreshComplete(s, f)
    <2>1. Head(toC[s]) \in Report /\ mode = "R"
      BY <1>1, <1>6, <1>7, <1>15 DEF Report, UpKind
    <2> QED
      BY <1>5, <1>15, <2>1, RefreshCompleteDoes DEF CoordinatorDoes
  <1>16. CASE f.type = "SHARE_LOAD_FAIL" /\ OnShareLoadFail
    <2>1. Head(toC[s]) \in Plain
      BY <1>1, <1>6, <1>16 DEF Plain
    <2> QED
      BY <1>5, <1>16, <2>1, DroppedDoes DEF CoordinatorDoes, OnShareLoadFail
  <1>17. CASE f.type = "CLOSED" /\ OnClosed(s)
    <2>1. Head(toC[s]) \in UpEnd
      BY <1>1, <1>6, <1>17 DEF UpEnd
    <2> QED
      BY <1>2, <1>5, <1>17, <2>1, ClosedDoes DEF CoordinatorDoes
  <1> QED
    BY <1>2, <1>8, <1>9, <1>10, <1>11, <1>12, <1>13, <1>14, <1>15, <1>16, <1>17
       DEF ProcessSignerFrame

-----------------------------------------------------------------------------
(* The other steps.                                                        *)

\* The coordinator ends, or is stopped.
Stops ==
  /\ running' = FALSE
  /\ UNCHANGED <<signer, keyFile, toC, run, mode, dkgState, list, entry, count, done>>
  /\ \A d \in Signer :
       \/ toS'[d] = toS[d]
       \/ \E k \in 0..Len(toS[d]) : toS'[d] = Append(SubSeq(toS[d], 1, k), Closed)

\* Frames of a promotion.
Opener == {f \in DownFrame : f.type \in {"HELLO_ACK", "START_DKG", "START_REFRESH"}}
Starting == {f \in DownFrame : IsStart(f)}

\* A process of s connects.
Connects(s) ==
  /\ running /\ s \notin Listed /\ ~signer[s].up
  /\ signer'[s] = FreshSigner(signer[s].drawn) /\ toC'[s] = <<>> /\ ~entry'[s].r2Complete
  /\ \A d \in Signer \ {s} : /\ signer'[d] = signer[d] /\ toC'[d] = toC[d]
                             /\ entry'[d] = entry[d]
  /\ Listed' = Listed \cup {s}
  /\ UNCHANGED <<keyFile, run, mode, count, done, running>>
  /\ dkgState' = dkgState \/ (dkgState = "IDLE" /\ dkgState' = "R1")
  /\ \A d \in Signer :
       \E out \in Seq(Opener \cap DownKind(d, mode)) :
         /\ toS'[d] = (IF d = s THEN <<>> ELSE toS[d]) \o out
         /\ dkgState # "IDLE" => ~Some(out, Starting)

\* A run begins.
Blank ==
  /\ \A s \in Signer : /\ ~signer[s].up /\ toC[s] = <<>> /\ toS[s] = <<>>
                       /\ ~entry[s].r2Complete
  /\ dkgState = "IDLE" /\ count = 0 /\ ~done

LEMMA ExitActs ==
  ASSUME SharingInv, CoordinatorExit PROVE Stops
  <1>1. /\ running' = FALSE /\ toS' = Broadcast(toS, Closed)
        /\ UNCHANGED <<signer, keyFile, toC, run, mode, dkgState, list, entry, count, done>>
    BY DEF CoordinatorExit, Exit
  <1>2. ASSUME NEW d \in Signer
        PROVE  \/ toS'[d] = toS[d]
               \/ \E k \in 0..Len(toS[d]) : toS'[d] = Append(SubSeq(toS[d], 1, k), Closed)
    <2>1. PICK q \in Seq(DownFrame) : q = toS[d]
      BY DEF SharingInv, TablesOK
    <2>2. SubSeq(q, 1, Len(q)) = q /\ Len(q) \in 0..Len(q)
      OBVIOUS
    <2>3. toS'[d] = toS[d] \/ toS'[d] = Append(toS[d], Closed)
      BY <1>1, BroadcastTo
    <2> QED
      BY <2>1, <2>2, <2>3
  <1> QED
    BY <1>1, <1>2 DEF Stops

LEMMA KillActs ==
  ASSUME SharingInv, Kill PROVE Stops
  <1>1. PICK k \in [Signer -> 0..(2 * N)] :
          /\ \A s \in Signer : k[s] <= Len(toS[s])
          /\ toS' = [s \in Signer |-> IF s \in Listed
                                        THEN Append(SubSeq(toS[s], 1, k[s]), Closed)
                                        ELSE toS[s]]
    BY DEF Kill
  <1>2. /\ running' = FALSE
        /\ UNCHANGED <<signer, keyFile, toC, run, mode, dkgState, list, entry, count, done>>
    BY DEF Kill, KeepFiles
  <1>3. ASSUME NEW d \in Signer
        PROVE  \/ toS'[d] = toS[d]
               \/ \E j \in 0..Len(toS[d]) : toS'[d] = Append(SubSeq(toS[d], 1, j), Closed)
    <2>1. PICK q \in Seq(DownFrame) : q = toS[d]
      BY DEF SharingInv, TablesOK
    <2>2. PICK j : j = k[d]
      OBVIOUS
    <2>3. j \in 0..Len(q)
      BY <1>1, <2>1, <2>2, PolyFacts
    <2>4. toS'[d] = toS[d] \/ toS'[d] = Append(SubSeq(toS[d], 1, j), Closed)
      BY <1>1, <2>2
    <2> QED
      BY <2>1, <2>3, <2>4
  <1> QED
    BY <1>2, <1>3 DEF Stops

\* The stream of a promoted signer, and of the others.
LEMMA OpeningFrames ==
  ASSUME SharingInv, NEW d \in Signer
  PROVE  /\ HelloAck(mode) \in Opener \cap DownKind(d, mode) /\ HelloAck(mode) \notin Starting
         /\ StartFrame \in Opener \cap DownKind(d, mode)
  <1>1. HelloAck(mode) \in DownFrame /\ StartFrame \in DownFrame
    BY ModeFacts DEF HelloAck, StartFrame, StartDkg, StartRefresh, DownFrame
  <1>2. HelloAck(mode).type = "HELLO_ACK" /\ HelloAck(mode).mode = mode
    BY DEF HelloAck
  <1>3. StartFrame.type = IF mode = "D" THEN "START_DKG" ELSE "START_REFRESH"
    BY DEF StartFrame, StartDkg, StartRefresh
  <1> QED
    BY <1>1, <1>2, <1>3, ModeFacts DEF Opener, DownKind, Starting, IsStart

LEMMA ConnectActs ==
  ASSUME SharingInv, NEW s \in Signer, Connect(s) PROVE Connects(s)
  <1>1. /\ running /\ s \notin Listed /\ ~signer[s].up
        /\ signer' = [signer EXCEPT ![s] = FreshSigner(@.drawn)]
        /\ toC' = [toC EXCEPT ![s] = <<>>] /\ Promote(s)
        /\ UNCHANGED <<keyFile, run>>
    BY DEF Connect, KeepFiles
  <1>2. /\ list' = <<s>> \o list /\ entry' = [entry EXCEPT ![s] = BlankEntry]
        /\ UNCHANGED <<mode, count, done, running>>
    BY <1>1 DEF Promote
  <1>3. /\ DOMAIN signer = Signer /\ DOMAIN toC = Signer /\ DOMAIN entry = Signer
        /\ DOMAIN toS = Signer
    BY DEF SharingInv, TablesOK
  <1>4. /\ signer'[s] = FreshSigner(signer[s].drawn) /\ toC'[s] = <<>> /\ entry'[s] = BlankEntry
        /\ \A d \in Signer \ {s} : /\ signer'[d] = signer[d] /\ toC'[d] = toC[d]
                                   /\ entry'[d] = entry[d]
    BY <1>1, <1>2, <1>3
  <1>5. ~entry'[s].r2Complete
    BY <1>4 DEF BlankEntry
  <1>6. Listed' = Listed \cup {s}
    <2>1. PICK q, x : q = list /\ x = list'
      OBVIOUS
    <2>2. x = <<s>> \o q /\ q \in Seq(Signer)
      BY <1>2, <2>1 DEF SharingInv, StateOK
    <2>3. PICK n \in Nat : n = Len(q) /\ DOMAIN q = 1..n
      BY <2>2
    <2>4. /\ DOMAIN x = 1..(n + 1) /\ x[1] = s
          /\ \A i \in 1..n : x[i + 1] = q[i]
          /\ \A i \in 2..(n + 1) : x[i] = q[i - 1]
      BY <2>2, <2>3
    <2>5. \A i \in DOMAIN x : i = 1 \/ (i - 1 \in DOMAIN q /\ x[i] = q[i - 1])
      BY <2>3, <2>4
    <2>6. 1 \in DOMAIN x /\ \A i \in DOMAIN q : i + 1 \in DOMAIN x /\ x[i + 1] = q[i]
      BY <2>3, <2>4
    <2>7. {x[i] : i \in DOMAIN x} = {q[i] : i \in DOMAIN q} \cup {s}
      BY <2>4, <2>5, <2>6
    <2> QED
      BY <2>1, <2>7 DEF Listed
  <1>7. PICK ack, start : ack = HelloAck(mode) /\ start = StartFrame
    OBVIOUS
  <1>8. \/ dkgState' = dkgState /\ toS' = [toS EXCEPT ![s] = <<ack>>]
        \/ /\ dkgState = "IDLE" /\ dkgState' = "R1"
           /\ toS' = [e \in Signer |-> IF e \in Listed \cup {s}
                                         THEN Append([toS EXCEPT ![s] = <<ack>>][e], start)
                                         ELSE [toS EXCEPT ![s] = <<ack>>][e]]
    BY <1>1, <1>7, Zenon DEF Promote, Starts
  <1>9. dkgState' = dkgState \/ (dkgState = "IDLE" /\ dkgState' = "R1")
    BY <1>8
  <1>10. ASSUME NEW d \in Signer
         PROVE  \E out \in Seq(Opener \cap DownKind(d, mode)) :
                  /\ toS'[d] = (IF d = s THEN <<>> ELSE toS[d]) \o out
                  /\ dkgState # "IDLE" => ~Some(out, Starting)
    <2>1. PICK F : F = Opener \cap DownKind(d, mode)
      OBVIOUS
    <2>2. ack \in F /\ ack \notin Starting /\ start \in F
      BY <1>7, <2>1, OpeningFrames
    <2>3. PICK q \in Seq(DownFrame) : q = toS[d]
      BY DEF SharingInv, TablesOK
    <2>4. [toS EXCEPT ![s] = <<ack>>][d] = IF d = s THEN <<ack>> ELSE q
      BY <1>3, <2>3
    <2>5. \/ toS'[d] = IF d = s THEN <<ack>> ELSE q
          \/ /\ dkgState = "IDLE"
             /\ toS'[d] = Append(IF d = s THEN <<ack>> ELSE q, start)
      BY <1>8, <2>4
    <2>6. /\ <<>> \in Seq(F) /\ <<ack>> \in Seq(F) /\ <<start>> \in Seq(F)
          /\ Append(<<ack>>, start) \in Seq(F)
      BY <2>2
    <2>7. ~Some(<<>>, Starting) /\ ~Some(<<ack>>, Starting)
      BY <2>2, NoneIn DEF Some
    <2>8. q \o <<>> = q /\ <<>> \o <<ack>> = <<ack>> /\ Append(q, start) = q \o <<start>>
      BY <2>1, <2>2 DEF Opener
    <2>9. Append(<<ack>>, start) = <<>> \o Append(<<ack>>, start)
      BY <2>6
    <2>10. CASE toS'[d] = IF d = s THEN <<ack>> ELSE q
      BY <2>1, <2>3, <2>6, <2>7, <2>8, <2>10
    <2>11. CASE dkgState = "IDLE" /\ toS'[d] = Append(IF d = s THEN <<ack>> ELSE q, start)
      <3>1. CASE d = s
        BY <2>1, <2>6, <2>9, <2>11, <3>1
      <3>2. CASE d # s
        BY <2>1, <2>3, <2>6, <2>8, <2>11, <3>2
      <3> QED
        BY <3>1, <3>2
    <2> QED
      BY <2>5, <2>10, <2>11
  <1> QED
    BY <1>1, <1>2, <1>4, <1>5, <1>6, <1>9, <1>10 DEF Connects

LEMMA NewRunActs ==
  ASSUME NEW m, NewRun(m) PROVE Blank'
  <1>1. /\ \A s \in Signer : ~signer'[s].up
        /\ dkgState' = "IDLE" /\ entry' = [s \in Signer |-> BlankEntry]
        /\ count' = 0 /\ done' = FALSE
        /\ toC' = [s \in Signer |-> <<>>] /\ toS' = [s \in Signer |-> <<>>]
    BY DEF NewRun
  <1>2. \A s \in Signer : ~entry'[s].r2Complete
    BY <1>1 DEF BlankEntry
  <1> QED
    BY <1>1, <1>2 DEF Blank

-----------------------------------------------------------------------------
(* The frames are those of the mode.                                       *)

LEMMA SeqMono ==
  ASSUME NEW F, NEW G, F \subseteq G, NEW q \in Seq(F)
  PROVE  q \in Seq(G)
  OBVIOUS

LEMMA ClosedFrame ==
  ASSUME NEW s, NEW m
  PROVE  /\ Closed \in UpKind(s, m) /\ Closed \in DownKind(s, m)
         /\ Closed \notin UpDone \cup Report /\ Closed \notin Starting \cup Final
         /\ \A e : Closed \notin Up2(e) \cup Down1(e) \cup Down2(e)
  BY DEF Closed, UpKind, DownKind, UpFrame, DownFrame, UpDone, Report, Starting, IsStart, Final,
         Up2, Down1, Down2

\* What a signer sends is of the mode, or it breaks off.
LEMMA SignerUp ==
  ASSUME NEW s \in Signer, SignerActs(s)
  PROVE  \/ toC'[s] = toC[s]
         \/ \E out \in Seq(UpKind(s, mode)) : Says(s, out)
         \/ \E b \in UpKind(s, mode) : toC'[s] = Append(toC[s], b)
         \/ \E k \in 0..Len(toC[s]) : toC'[s] = Append(SubSeq(toC[s], 1, k), Closed)
  <1>1. CASE Rests(s)
    <2>1. PICK out \in Seq(Plain \cap UpKind(s, mode)) : Says(s, out)
      BY <1>1 DEF Rests
    <2>2. out \in Seq(UpKind(s, mode))
      BY SeqMono
    <2> QED
      BY <2>1, <2>2
  <1>2. CASE Takes1(s) \/ Takes2(s)
    BY <1>2 DEF Takes1, Takes2
  <1>3. CASE Sends2(s)
    BY <1>3 DEF Sends2
  <1>4. CASE Saves(s)
    <2>1. PICK a \in UpDone \cap UpKind(s, mode), b \in Report \cap UpKind(s, mode) :
            Says(s, <<a, b>>)
      BY <1>4 DEF Saves
    <2>2. <<a, b>> \in Seq(UpKind(s, mode))
      OBVIOUS
    <2> QED
      BY <2>1, <2>2
  <1>5. CASE Finalizes(s)
    BY <1>5 DEF Finalizes
  <1>6. CASE Falls(s)
    BY <1>6 DEF Falls
  <1> QED
    BY <1>1, <1>2, <1>3, <1>4, <1>5, <1>6 DEF SignerActs, SignerDoes

LEMMA SignerFrames ==
  ASSUME FrameInv, NEW s \in Signer, SignerActs(s)
  PROVE  FrameInv'
  <1>1. PICK U, D, m : U = UpKind(s, mode) /\ D = DownKind(s, mode) /\ m = mode
    OBVIOUS
  <1>2. PICK up \in Seq(U) : up = toC[s]
    BY <1>1 DEF FrameInv
  <1>3. PICK dn \in Seq(D) : dn = toS[s]
    BY <1>1 DEF FrameInv
  <1>4. mode' = m /\ Others(s)
    BY <1>1 DEF SignerActs, Steady
  <1>5. toS'[s] \in Seq(D)
    <2>1. dn # <<>> => Tail(dn) \in Seq(D)
      BY TailFacts
    <2>2. toS'[s] = dn \/ (dn # <<>> /\ toS'[s] = Tail(dn))
      BY <1>3 DEF SignerActs
    <2> QED
      BY <2>1, <2>2
  <1>6. toC'[s] \in Seq(U)
    <2>1. ASSUME NEW out \in Seq(U), toC'[s] = up \o out PROVE toC'[s] \in Seq(U)
      BY <2>1, ConcatFacts
    <2>2. ASSUME NEW k \in 0..Len(up), toC'[s] = Append(SubSeq(up, 1, k), Closed)
          PROVE  toC'[s] \in Seq(U)
      BY <1>1, <2>2, CutFacts, ClosedFrame
    <2>3. ASSUME NEW b \in U, toC'[s] = Append(up, b) PROVE toC'[s] \in Seq(U)
      BY <2>3
    <2> QED
      BY <1>1, <1>2, <2>1, <2>2, <2>3, SignerUp DEF Says
  <1>7. \A d \in Signer \ {s} :
          toC'[d] \in Seq(UpKind(d, m)) /\ toS'[d] \in Seq(DownKind(d, m))
    BY <1>1, <1>4 DEF FrameInv, Others
  <1> QED
    BY <1>1, <1>4, <1>5, <1>6, <1>7 DEF FrameInv

\* What the coordinator sends to d.
LEMMA CoordinatorDown ==
  ASSUME NEW s \in Signer, Handles(s), CoordinatorDoes(s), NEW d \in Signer
  PROVE  \/ toS'[d] = toS[d] \/ toS'[d] = <<>>
         \/ \E out \in Seq(DownKind(d, mode)) : toS'[d] = toS[d] \o out
         \/ \E g \in DownKind(d, mode) : toS'[d] = Append(toS[d], g)
  <1>1. CASE Ignores(s) \/ NotesDone(s)
    BY <1>1 DEF Ignores, NotesDone
  <1>2. CASE Relays1(s)
    BY <1>2 DEF Relays1
  <1>3. CASE Passes2(s)
    <2>1. PICK c \in Listed : /\ \E g \in Down2(s) \cap DownKind(c, mode) :
                                   toS'[c] = Append(toS[c], g)
                              /\ \A b \in Signer \ {c} : toS'[b] = toS[b]
      BY <1>3 DEF Passes2
    <2> QED
      BY <2>1
  <1>4. CASE Announces(s)
    BY <1>4 DEF Announces
  <1>5. CASE Counts(s)
    BY <1>5 DEF Counts
  <1>6. CASE Removes(s)
    BY <1>6 DEF Removes
  <1> QED
    BY <1>1, <1>2, <1>3, <1>4, <1>5, <1>6 DEF CoordinatorDoes

LEMMA CoordinatorFrames ==
  ASSUME FrameInv, NEW s \in Signer, Handles(s), CoordinatorDoes(s)
  PROVE  FrameInv'
  <1>1. mode' = mode
    BY DEF Handles
  <1>2. ASSUME NEW d \in Signer
        PROVE  toC'[d] \in Seq(UpKind(d, mode)) /\ toS'[d] \in Seq(DownKind(d, mode))
    <2>1. PICK U, D : U = UpKind(d, mode) /\ D = DownKind(d, mode)
      OBVIOUS
    <2>2. PICK up \in Seq(U) : up = toC[d]
      BY <2>1 DEF FrameInv
    <2>3. PICK dn \in Seq(D) : dn = toS[d]
      BY <2>1 DEF FrameInv
    <2>4. toC'[d] \in Seq(U)
      <3>1. up # <<>> => Tail(up) \in Seq(U)
        BY TailFacts
      <3> QED
        BY <2>2, <3>1 DEF Handles
    <2>5. toS'[d] \in Seq(D)
      <3>1. ASSUME NEW out \in Seq(D), toS'[d] = dn \o out PROVE toS'[d] \in Seq(D)
        BY <3>1, ConcatFacts
      <3>2. ASSUME NEW g \in D, toS'[d] = Append(dn, g) PROVE toS'[d] \in Seq(D)
        BY <3>2
      <3>3. <<>> \in Seq(D)
        OBVIOUS
      <3> QED
        BY <2>1, <2>3, <3>1, <3>2, <3>3, CoordinatorDown
    <2> QED
      BY <2>1, <2>4, <2>5
  <1> QED
    BY <1>1, <1>2 DEF FrameInv

LEMMA StopsFrames ==
  ASSUME FrameInv, Stops
  PROVE  FrameInv'
  <1>1. mode' = mode /\ toC' = toC
    BY DEF Stops
  <1>2. ASSUME NEW d \in Signer PROVE toS'[d] \in Seq(DownKind(d, mode))
    <2>1. PICK D : D = DownKind(d, mode)
      OBVIOUS
    <2>2. PICK dn \in Seq(D) : dn = toS[d]
      BY <2>1 DEF FrameInv
    <2>3. ASSUME NEW k \in 0..Len(dn), toS'[d] = Append(SubSeq(dn, 1, k), Closed)
          PROVE  toS'[d] \in Seq(D)
      BY <2>1, <2>3, CutFacts, ClosedFrame
    <2> QED
      BY <2>1, <2>2, <2>3 DEF Stops
  <1> QED
    BY <1>1, <1>2 DEF FrameInv

LEMMA ConnectsFrames ==
  ASSUME FrameInv, NEW s \in Signer, Connects(s)
  PROVE  FrameInv'
  <1>1. mode' = mode
    BY DEF Connects
  <1>2. ASSUME NEW d \in Signer
        PROVE  toC'[d] \in Seq(UpKind(d, mode)) /\ toS'[d] \in Seq(DownKind(d, mode))
    <2>1. PICK D : D = DownKind(d, mode)
      OBVIOUS
    <2>2. PICK dn : dn = IF d = s THEN <<>> ELSE toS[d]
      OBVIOUS
    <2>3. dn \in Seq(D)
      BY <2>1, <2>2 DEF FrameInv
    <2>4. PICK out \in Seq(Opener \cap D) : toS'[d] = dn \o out
      BY <2>1, <2>2 DEF Connects
    <2>5. out \in Seq(D)
      BY SeqMono
    <2>6. toS'[d] \in Seq(D)
      BY <2>3, <2>4, <2>5, ConcatFacts
    <2>7. toC'[d] = <<>> \/ toC'[d] = toC[d]
      BY DEF Connects
    <2>8. toC'[d] \in Seq(UpKind(d, mode))
      <3>1. <<>> \in Seq(UpKind(d, mode)) /\ toC[d] \in Seq(UpKind(d, mode))
        BY DEF FrameInv
      <3> QED
        BY <2>7, <3>1
    <2> QED
      BY <2>1, <2>6, <2>8
  <1> QED
    BY <1>1, <1>2 DEF FrameInv

LEMMA BlankFrames == Blank => FrameInv
  <1>1. ASSUME NEW F PROVE <<>> \in Seq(F)
    OBVIOUS
  <1> QED
    BY <1>1 DEF Blank, FrameInv

\* Every step, in these terms.
Acts ==
  \/ \E s \in Signer : SignerActs(s) \/ (Handles(s) /\ CoordinatorDoes(s)) \/ Connects(s)
  \/ Stops \/ Blank'
  \/ UNCHANGED vars

LEMMA NextActs ==
  ASSUME SharingInv, FrameInv, [Next]_vars PROVE Acts
  <1>1. ASSUME NEW s \in Signer, Connect(s) PROVE Acts
    BY <1>1, ConnectActs DEF Acts
  <1>2. ASSUME NEW s \in Signer, SignerStep(s) PROVE Acts
    BY <1>2, SignerStepActs DEF Acts
  <1>3. ASSUME NEW s \in Signer, CoordinatorStep(s) PROVE Acts
    BY <1>3, CoordinatorStepDoes DEF Acts
  <1>4. ASSUME NEW s \in Signer, Crash(s) PROVE Acts
    BY <1>4, CrashActs DEF Acts
  <1>5. CASE CoordinatorExit
    BY <1>5, ExitActs DEF Acts
  <1>6. CASE Kill
    BY <1>6, KillActs DEF Acts
  <1>7. ASSUME NEW m \in Modes, NewRun(m) PROVE Acts
    BY <1>7, NewRunActs DEF Acts
  <1>8. CASE UNCHANGED vars
    BY <1>8 DEF Acts
  <1> QED
    BY <1>1, <1>2, <1>3, <1>4, <1>5, <1>6, <1>7, <1>8 DEF Next

LEMMA FramesNext ==
  ASSUME FrameInv, Acts PROVE FrameInv'
  <1>1. CASE Blank'
    <2>1. (Blank => FrameInv)'
      BY BlankFrames, PTL
    <2> QED
      BY <1>1, <2>1
  <1>2. CASE UNCHANGED vars
    BY <1>2 DEF vars, coordVars, FrameInv
  <1> QED
    BY <1>1, <1>2, SignerFrames, CoordinatorFrames, ConnectsFrames, StopsFrames DEF Acts

-----------------------------------------------------------------------------
(* The streams in a step: which kinds of frames may have been added.       *)

LEMMA SignerThin ==
  ASSUME FrameInv, NEW s \in Signer, SignerActs(s), NEW d \in Signer, NEW S
  PROVE  Thin(toS[d], toS'[d], S)
  <1>1. PICK D, q, x : D = DownKind(d, mode) /\ q = toS[d] /\ x = toS'[d]
    OBVIOUS
  <1>2. q \in Seq(D)
    BY <1>1 DEF FrameInv
  <1>3. x = q \/ (q # <<>> /\ x = Tail(q))
    BY <1>1 DEF SignerActs, Others
  <1>4. Thin(q, q, S) /\ (q # <<>> => Thin(q, Tail(q), S))
    BY <1>2, ThinSame, ThinTail
  <1> QED
    BY <1>1, <1>3, <1>4

LEMMA HandlesThin ==
  ASSUME FrameInv, NEW s \in Signer, Handles(s), NEW d \in Signer, NEW S
  PROVE  Thin(toC[d], toC'[d], S)
  <1>1. PICK U, q, x : U = UpKind(d, mode) /\ q = toC[d] /\ x = toC'[d]
    OBVIOUS
  <1>2. q \in Seq(U)
    BY <1>1 DEF FrameInv
  <1>3. x = q \/ (q # <<>> /\ x = Tail(q))
    BY <1>1 DEF Handles
  <1>4. Thin(q, q, S) /\ (q # <<>> => Thin(q, Tail(q), S))
    BY <1>2, ThinSame, ThinTail
  <1> QED
    BY <1>1, <1>3, <1>4

LEMMA StopsThin ==
  ASSUME FrameInv, Stops, NEW d \in Signer, NEW S, Closed \notin S
  PROVE  Thin(toS[d], toS'[d], S)
  <1>1. PICK D, q, x : D = DownKind(d, mode) /\ q = toS[d] /\ x = toS'[d]
    OBVIOUS
  <1>2. q \in Seq(D) /\ Closed \in D
    BY <1>1, ClosedFrame DEF FrameInv
  <1>3. x = q \/ \E k \in 0..Len(q) : x = Append(SubSeq(q, 1, k), Closed)
    BY <1>1 DEF Stops
  <1>4. Thin(q, q, S) /\ \A k \in 0..Len(q) : Thin(q, Append(SubSeq(q, 1, k), Closed), S)
    BY <1>2, ThinSame, ThinCut
  <1> QED
    BY <1>1, <1>3, <1>4

LEMMA NoneOf ==
  ASSUME NEW F, NEW S, NEW out \in Seq(F), \A f \in F : f \notin S
  PROVE  ~Some(out, S) /\ Few(out, S)
  <1>1. \A i \in DOMAIN out : out[i] \in F
    OBVIOUS
  <1> QED
    BY <1>1 DEF Some, Few

LEMMA ConnectsThin ==
  ASSUME FrameInv, NEW s \in Signer, Connects(s), NEW d \in Signer, NEW S
  PROVE  /\ Thin(toC[d], toC'[d], S)
         /\ (\A f \in Opener : f \notin S) => Thin(toS[d], toS'[d], S)
         /\ dkgState # "IDLE" => Thin(toS[d], toS'[d], Starting)
  <1>1. PICK D, q, x : D = DownKind(d, mode) /\ q = toS[d] /\ x = toS'[d]
    OBVIOUS
  <1>2. PICK dn : dn = IF d = s THEN <<>> ELSE toS[d]
    OBVIOUS
  <1>3. dn \in Seq(D) /\ (dn = q \/ dn = <<>>)
    BY <1>1, <1>2 DEF FrameInv
  <1>4. PICK out \in Seq(Opener \cap D) :
          x = dn \o out /\ (dkgState # "IDLE" => ~Some(out, Starting))
    BY <1>1, <1>2 DEF Connects
  <1>5. out \in Seq(D)
    BY SeqMono
  <1>6. (\A f \in Opener : f \notin S) => ~Some(out, S)
    BY NoneOf
  <1>7. \A R : Thin(q, dn, R)
    BY <1>3, ThinSame
  <1>8. \A R : ~Some(out, R) => Thin(dn, dn \o out, R)
    BY <1>3, <1>5, ThinConcat
  <1>9. \A R : ~Some(out, R) => Thin(q, x, R)
    BY <1>4, <1>7, <1>8 DEF Thin
  <1>10. toC'[d] = toC[d] \/ toC'[d] = <<>>
    BY DEF Connects
  <1>11. Thin(toC[d], toC'[d], S)
    BY <1>10, ThinSame
  <1> QED
    BY <1>1, <1>4, <1>6, <1>9, <1>11

LEMMA CoordinatorThin ==
  ASSUME FrameInv, NEW s \in Signer, Handles(s), CoordinatorDoes(s), NEW d \in Signer, NEW S,
         Relays1(s) => \A f \in S : f.type \notin {"RELAY_R1", "RELAY_REFRESH_R1"},
         Passes2(s) => \A f \in S : f \notin Down2(s),
         Announces(s) => \A f \in S : f.type \notin {"DKG_DONE", "REFRESH_FINALIZE"},
         Counts(s) => \A f \in S : f.type # "REFRESH_CONFIRMED"
  PROVE  Thin(toS[d], toS'[d], S)
  <1>1. PICK D, q, x : D = DownKind(d, mode) /\ q = toS[d] /\ x = toS'[d]
    OBVIOUS
  <1>2. q \in Seq(D)
    BY <1>1 DEF FrameInv
  <1>3. /\ Thin(q, q, S) /\ Thin(q, <<>>, S)
        /\ \A g \in D : g \notin S => Thin(q, Append(q, g), S)
        /\ \A out \in Seq(D) : ~Some(out, S) => Thin(q, q \o out, S)
    BY <1>2, ThinSame, ThinAppend, ThinConcat
  <1>4. CASE Ignores(s) \/ NotesDone(s)
    BY <1>1, <1>3, <1>4 DEF Ignores, NotesDone
  <1>5. CASE Relays1(s)
    <2>1. x = q \/ \E out \in Seq(D) : x = q \o out /\ Relay1Out(out)
      BY <1>1, <1>5 DEF Relays1
    <2>2. ASSUME NEW out \in Seq(D), Relay1Out(out) PROVE ~Some(out, S)
      BY <1>5, <2>2 DEF Relay1Out, Some
    <2>3. Thin(q, x, S)
      BY <1>3, <2>1, <2>2
    <2> QED
      BY <1>1, <2>3
  <1>6. CASE Passes2(s)
    <2>1. PICK c \in Listed : /\ \E g \in Down2(s) \cap DownKind(c, mode) :
                                   toS'[c] = Append(toS[c], g)
                              /\ \A b \in Signer \ {c} : toS'[b] = toS[b]
      BY <1>6 DEF Passes2
    <2>2. x = q \/ \E g \in D : g \notin S /\ x = Append(q, g)
      BY <1>1, <1>6, <2>1
    <2>3. Thin(q, x, S)
      BY <1>3, <2>2
    <2> QED
      BY <1>1, <2>3
  <1>7. CASE Announces(s)
    <2>1. \E g \in D : g \notin S /\ x = Append(q, g)
      BY <1>1, <1>7 DEF Announces
    <2> QED
      BY <1>1, <1>3, <2>1
  <1>8. CASE Counts(s)
    <2>1. x = q \/ \E g \in D : g \notin S /\ x = Append(q, g)
      BY <1>1, <1>8 DEF Counts
    <2> QED
      BY <1>1, <1>3, <2>1
  <1>9. CASE Removes(s)
    BY <1>1, <1>3, <1>9 DEF Removes
  <1> QED
    BY <1>4, <1>5, <1>6, <1>7, <1>8, <1>9 DEF CoordinatorDoes

\* What a signer may have added to its own stream.
LEMMA SignerUpThin ==
  ASSUME FrameInv, NEW s \in Signer, SignerActs(s), NEW d \in Signer, NEW S,
         Rests(s) => \A f \in Plain : f \notin S,
         Sends2(s) => \A out \in Seq(UpKind(s, mode)) : Round2Out(s, out) => ~Some(out, S),
         Saves(s) => \A f \in UpDone \cup Report : f \notin S,
         Finalizes(s) => \A f \in Report : f \notin S,
         Falls(s) => Closed \notin S
  PROVE  Thin(toC[d], toC'[d], S)
  <1>1. PICK U, q, x : U = UpKind(s, mode) /\ q = toC[s] /\ x = toC'[s]
    OBVIOUS
  <1>2. q \in Seq(U) /\ Closed \in U
    BY <1>1, ClosedFrame DEF FrameInv
  <1>3. /\ Thin(q, q, S)
        /\ \A out \in Seq(U) : ~Some(out, S) => Thin(q, q \o out, S)
        /\ \A b \in U : b \notin S => Thin(q, Append(q, b), S)
        /\ Closed \notin S =>
             \A k \in 0..Len(q) : Thin(q, Append(SubSeq(q, 1, k), Closed), S)
    BY <1>2, ThinSame, ThinConcat, ThinAppend, ThinCut
  <1>4. CASE d # s
    BY <1>4, ThinSame DEF SignerActs, Others
  <1>5. CASE Rests(s)
    <2>1. PICK out \in Seq(Plain \cap U) : x = q \o out
      BY <1>1, <1>5 DEF Rests, Says
    <2>2. out \in Seq(U)
      BY SeqMono
    <2>3. ~Some(out, S)
      BY <1>5, NoneOf
    <2>4. Thin(q, x, S)
      BY <1>3, <2>1, <2>2, <2>3
    <2> QED
      BY <1>1, <1>4, <2>4
  <1>6. CASE Takes1(s) \/ Takes2(s)
    <2>1. x = q
      BY <1>1, <1>6 DEF Takes1, Takes2
    <2> QED
      BY <1>1, <1>3, <1>4, <2>1
  <1>7. CASE Sends2(s)
    <2>1. PICK out \in Seq(U) : x = q \o out /\ Round2Out(s, out)
      BY <1>1, <1>7 DEF Sends2, Says
    <2>2. ~Some(out, S)
      BY <1>1, <1>7, <2>1
    <2>3. Thin(q, x, S)
      BY <1>3, <2>1, <2>2
    <2> QED
      BY <1>1, <1>4, <2>3
  <1>8. CASE Saves(s)
    <2>1. PICK a \in UpDone \cap U, b \in Report \cap U : x = q \o <<a, b>>
      BY <1>1, <1>8 DEF Saves, Says
    <2>2. PICK out : out = <<a, b>>
      OBVIOUS
    <2>3. out \in Seq((UpDone \cup Report) \cap U)
      BY <2>2
    <2>4. out \in Seq(U) /\ ~Some(out, S)
      BY <1>8, <2>3, SeqMono, NoneOf
    <2>5. Thin(q, x, S)
      BY <1>3, <2>1, <2>2, <2>4
    <2> QED
      BY <1>1, <1>4, <2>5
  <1>9. CASE Finalizes(s)
    <2>1. x = q \/ \E b \in U : b \notin S /\ x = Append(q, b)
      BY <1>1, <1>9 DEF Finalizes
    <2>2. Thin(q, x, S)
      BY <1>3, <2>1
    <2> QED
      BY <1>1, <1>4, <2>2
  <1>10. CASE Falls(s)
    <2>1. x = q \/ \E k \in 0..Len(q) : x = Append(SubSeq(q, 1, k), Closed)
      BY <1>1, <1>10 DEF Falls
    <2>2. Thin(q, x, S)
      BY <1>3, <1>10, <2>1
    <2> QED
      BY <1>1, <1>4, <2>2
  <1> QED
    BY <1>5, <1>6, <1>7, <1>8, <1>9, <1>10 DEF SignerActs, SignerDoes

-----------------------------------------------------------------------------
(* Whoever has begun in a run has begun for the rest of it.                *)

LEMMA PendingIs == SharingInv => \A s \in Signer : Pending(s) <=> Some(toS[s], Starting)
  <1> SUFFICES ASSUME SharingInv, NEW s \in Signer
               PROVE  Pending(s) <=> Some(toS[s], Starting)
    OBVIOUS
  <1>1. PICK q \in Seq(DownFrame) : q = toS[s]
    BY DEF SharingInv, TablesOK
  <1>2. \A i \in DOMAIN q : q[i] \in DownFrame
    OBVIOUS
  <1> QED
    BY <1>1, <1>2 DEF Pending, Some, Starting

\* Every step within a run.
Moves ==
  \/ \E s \in Signer : SignerActs(s) \/ (Handles(s) /\ CoordinatorDoes(s)) \/ Connects(s)
  \/ Stops

LEMMA StartingThin ==
  ASSUME FrameInv, Moves, NEW d \in Signer
  PROVE  dkgState # "IDLE" => dkgState' # "IDLE" /\ Thin(toS[d], toS'[d], Starting)
  <1>1. ASSUME NEW s \in Signer, SignerActs(s)
        PROVE  dkgState' = dkgState /\ Thin(toS[d], toS'[d], Starting)
    BY <1>1, SignerThin DEF SignerActs, Steady
  <1>2. ASSUME NEW s \in Signer, Handles(s), CoordinatorDoes(s)
        PROVE  /\ Thin(toS[d], toS'[d], Starting)
               /\ dkgState # "IDLE" => dkgState' # "IDLE"
    <2>1. \A f \in Starting : /\ f.type \notin {"RELAY_R1", "RELAY_REFRESH_R1", "DKG_DONE",
                                                "REFRESH_FINALIZE", "REFRESH_CONFIRMED"}
                              /\ f \notin Down2(s)
      BY DEF Starting, IsStart, Down2
    <2>2. Thin(toS[d], toS'[d], Starting)
      BY <1>2, <2>1, CoordinatorThin
    <2>3. dkgState # "IDLE" => dkgState' # "IDLE"
      BY <1>2 DEF CoordinatorDoes, Ignores, Relays1, Passes2, NotesDone, Announces, Counts, Removes
    <2> QED
      BY <2>2, <2>3
  <1>3. ASSUME NEW s \in Signer, Connects(s)
        PROVE  dkgState # "IDLE" => dkgState' # "IDLE" /\ Thin(toS[d], toS'[d], Starting)
    <2>1. dkgState # "IDLE" => dkgState' # "IDLE"
      BY <1>3 DEF Connects
    <2> QED
      BY <1>3, <2>1, ConnectsThin
  <1>4. CASE Stops
    BY <1>4, StopsThin, ClosedFrame DEF Stops
  <1> QED
    BY <1>1, <1>2, <1>3, <1>4 DEF Moves

LEMMA BegunStays ==
  ASSUME SharingInv, SharingInv', FrameInv, Moves, NEW d \in Signer, Begun(d)
  PROVE  Begun(d)'
  <1>1. (SharingInv => \A s \in Signer : Pending(s) <=> Some(toS[s], Starting))'
    BY PendingIs, PTL
  <1>2. Pending(d) <=> Some(toS[d], Starting)
    BY PendingIs
  <1>3. Pending(d)' <=> Some(toS'[d], Starting)
    BY <1>1 DEF Starting, Some
  <1>4. dkgState' # "IDLE" /\ Thin(toS[d], toS'[d], Starting)
    BY StartingThin DEF Begun
  <1> QED
    BY <1>2, <1>3, <1>4 DEF Begun, Thin

\* A process with a polynomial has begun.
LEMMA AliveBegun ==
  ASSUME SharingInv, NEW d \in Signer, signer[d].secret1 # NoPoly
  PROVE  Begun(d)
  <1>1. signer[d].secret1 \in Fixed /\ signer[d].secret1.by = d
    BY DEF SharingInv, Connection, SignerFits
  <1>2. PICK p \in Fixed : p.by = d
    BY <1>1
  <1> QED
    BY <1>2, FixedBegun

\* What a step of s leaves as it is for d.
SameProcess(d) ==
  /\ signer'[d].up = signer[d].up /\ (Alive(d)' <=> Alive(d)) /\ (Sent2(d)' <=> Sent2(d))
  /\ Got1(d)' = Got1(d) /\ Got2(d)' = Got2(d) /\ (Keyed(d)' <=> Keyed(d))

LEMMA SameProcessIf ==
  ASSUME NEW d, signer'[d] = signer[d] PROVE SameProcess(d)
  BY DEF SameProcess, Alive, Sent2, Got1, Got2, Keyed

\* The file of d is what it was.
SameFile(d) == (Saved(d)' <=> Saved(d)) /\ (Settled(d)' <=> Settled(d))

LEMMA SameFileIf ==
  ASSUME NEW d, keyFile'[d] = keyFile[d], run' = run PROVE SameFile(d)
  BY DEF SameFile, Settled, Saved, Part

LEMMA OthersSame ==
  ASSUME NEW s \in Signer, SignerActs(s), NEW d \in Signer, d # s
  PROVE  /\ SameProcess(d) /\ toC'[d] = toC[d] /\ toS'[d] = toS[d]
         /\ keyFile'[d] = keyFile[d]
         /\ SameFile(d)
         /\ Done2(d)' <=> Done2(d)
  <1>1. /\ signer'[d] = signer[d] /\ toC'[d] = toC[d] /\ toS'[d] = toS[d]
        /\ keyFile'[d] = keyFile[d] /\ UNCHANGED <<run, entry>>
    BY DEF SignerActs, Others, Steady
  <1>2. SameProcess(d)
    BY <1>1, SameProcessIf
  <1> QED
    BY <1>1, <1>2, SameFileIf DEF Done2, UpDone

-----------------------------------------------------------------------------
(* The phases.                                                             *)

\* A signer that reads a package of round 1.
LEMMA ReadsRound1 ==
  ASSUME FrameInv, PhaseInv, NEW s \in Signer, NEW e \in Signer,
         toS[s] # <<>>, Head(toS[s]) \in Down1(e)
  PROVE  InRound2 /\ e \notin Got1(s) /\ ~Some(Tail(toS[s]), Down1(e))
  <1>1. PICK D, q : D = DownKind(s, mode) /\ q = toS[s]
    OBVIOUS
  <1>2. q \in Seq(D)
    BY <1>1 DEF FrameInv
  <1>3. PICK S : S = Down1(e)
    OBVIOUS
  <1>4. Few(q, S)
    BY <1>1, <1>3 DEF PhaseInv, OnePlace1
  <1>5. ~Some(Tail(q), S) /\ Some(q, S)
    BY <1>1, <1>2, <1>3, <1>4, HeadWasOnly
  <1> QED
    BY <1>1, <1>3, <1>5 DEF PhaseInv, OnePlace1

LEMMA SignerMotion ==
  ASSUME NEW s \in Signer, SignerActs(s)
  PROVE  \/ toS[s] # <<>> /\ toS'[s] = Tail(toS[s]) /\ SignerDoes(s)
         \/ Falls(s)
  BY DEF SignerActs

\* There is another signer.
LEMMA SomeOther ==
  ASSUME NEW s \in Signer PROVE \E e \in Signer : e # s
  <1>1. N \in Nat /\ N >= 2 /\ Signer = 1..N
    BY PolyFacts
  <1>2. 1 \in Signer /\ 2 \in Signer
    BY <1>1
  <1> QED
    BY <1>2

LEMMA Sent2InRound2 ==
  ASSUME PhaseInv, NEW s \in Signer, Sent2(s) PROVE InRound2
  <1>1. Got1(s) = Signer \ {s}
    BY DEF PhaseInv, PhaseOf
  <1>2. PICK e \in Signer : e # s
    BY SomeOther
  <1> QED
    BY <1>1, <1>2 DEF PhaseInv, OnePlace1

LEMMA SignerPhaseOf ==
  ASSUME FrameInv, PhaseInv, NEW s \in Signer, SignerActs(s)
  PROVE  PhaseOf(s)'
  <1>1. UNCHANGED <<run, mode, dkgState, list, entry, running>> /\ Listed' = Listed
    BY DEF SignerActs, Steady, Listed
  <1>2. InRound2' <=> InRound2
    BY <1>1 DEF InRound2
  <1>3. PhaseOf(s) /\ signer[s].up
    BY DEF PhaseInv, SignerActs
  <1>4. SignerDoes(s) /\ (Falls(s) \/ (toS[s] # <<>> /\ toS'[s] = Tail(toS[s])))
    BY SignerMotion DEF SignerDoes
  <1>5. /\ Some(toC[s], UpDone) => InRound2
        /\ ~InRound2 => ~entry[s].r2Complete
    BY <1>3 DEF PhaseOf, Done2
  <1>6. (Sends2(s) \/ Saves(s)) /\ ~Falls(s) => InRound2
    <2>1. Sends2(s) => \E e \in Signer : Head(toS[s]) \in Down1(e)
      BY DEF Sends2
    <2>2. Saves(s) => Sent2(s)
      BY DEF Saves, Writes
    <2> QED
      BY <1>4, <2>1, <2>2, ReadsRound1, Sent2InRound2
  <1>7. /\ \A f \in Plain : f \notin UpDone \cup UpEnd
        /\ \A f \in Report : f \notin UpDone \cup UpEnd
        /\ \A f \in UpDone : f \notin UpEnd
    BY DEF Plain, UpDone, UpEnd, Report
  <1>8. Falls(s) => ~Sends2(s) /\ ~Saves(s) /\ ~Finalizes(s) /\ ~Rests(s)
    BY DEF Falls, Sends2, Saves, Finalizes, Rests, SameSecrets
  <1>9. Done2(s)' => InRound2
    <2>1. CASE InRound2
      BY <2>1
    <2>2. CASE ~InRound2
      <3>1. Thin(toC[s], toC'[s], UpDone)
        BY <1>6, <1>7, <1>8, <2>2, SignerUpThin, ClosedFrame
      <3>2. ~Some(toC'[s], UpDone)
        BY <1>5, <2>2, <3>1 DEF Thin
      <3> QED
        BY <1>1, <1>5, <2>2, <3>2 DEF Done2, UpDone
    <2> QED
      BY <2>1, <2>2
  <1>10. ASSUME running', signer'[s].up PROVE s \in Listed' /\ ~Some(toC'[s], UpEnd)
    <2>1. ~Falls(s)
      BY <1>10 DEF Falls
    <2>2. Sends2(s) => \A out \in Seq(UpKind(s, mode)) : Round2Out(s, out) => ~Some(out, UpEnd)
      BY DEF Round2Out
    <2>3. Thin(toC[s], toC'[s], UpEnd)
      BY <1>7, <2>1, <2>2, SignerUpThin
    <2> QED
      BY <1>1, <1>3, <1>10, <2>3 DEF Thin, PhaseOf
  <1>11. /\ Sent2(s)' => Got1(s)' = Signer \ {s}
         /\ Got2(s)' \subseteq Signer \ {s}
    <2>1. CASE Falls(s)
      BY <2>1 DEF Falls
    <2>2. CASE Rests(s)
      BY <1>3, <2>2 DEF Rests, PhaseOf, Sent2
    <2>3. CASE Takes1(s) /\ ~Falls(s)
      <3>1. PICK e \in Signer \ {s} : Head(toS[s]) \in Down1(e)
        BY <2>3 DEF Takes1
      <3>2. e \notin Got1(s)
        BY <1>4, <2>3, <3>1, ReadsRound1
      <3>3. ~Sent2(s)
        BY <1>3, <3>2 DEF PhaseOf
      <3> QED
        BY <1>3, <2>3, <3>3 DEF Takes1, PhaseOf, SameSecrets, Sent2
    <2>4. CASE Sends2(s)
      BY <1>3, <2>4 DEF Sends2, PhaseOf
    <2>5. CASE Takes2(s)
      BY <1>3, <2>5 DEF Takes2, PhaseOf, SameSecrets, Sent2
    <2>6. CASE Saves(s)
      BY <1>3, <2>6 DEF Saves, PhaseOf, SameSecrets, Sent2
    <2>7. CASE Finalizes(s)
      BY <1>3, <2>7 DEF Finalizes, PhaseOf, SameSecrets, Sent2
    <2> QED
      BY <1>4, <2>1, <2>2, <2>3, <2>4, <2>5, <2>6, <2>7 DEF SignerDoes
  <1> QED
    BY <1>2, <1>9, <1>10, <1>11 DEF PhaseOf, UpEnd

\* Which packages of round 1 a signer's step may add.
LEMMA SignerGot1 ==
  ASSUME NEW s \in Signer, SignerActs(s), NEW e, e \in Got1(s)'
  PROVE  e \in Got1(s) \/ (e \in Signer /\ toS[s] # <<>> /\ toS'[s] = Tail(toS[s])
                            /\ Head(toS[s]) \in Down1(e))
  <1>1. CASE Falls(s)
    BY <1>1 DEF Falls
  <1>2. CASE Rests(s) \/ Takes2(s) \/ Saves(s) \/ Finalizes(s)
    BY <1>2 DEF Rests, Takes2, Saves, Finalizes
  <1>3. CASE Takes1(s) /\ ~Falls(s)
    BY <1>3, SignerMotion DEF Takes1
  <1>4. CASE Sends2(s) /\ ~Falls(s)
    BY <1>4, SignerMotion DEF Sends2
  <1> QED
    BY <1>1, <1>2, <1>3, <1>4, SignerMotion DEF SignerDoes

LEMMA SignerPhase ==
  ASSUME SharingInv, SharingInv', FrameInv, PhaseInv, NEW s \in Signer, SignerActs(s)
  PROVE  PhaseInv'
  <1>1. UNCHANGED <<run, mode, dkgState, list, entry, running>> /\ Listed' = Listed
    BY DEF SignerActs, Steady, Listed
  <1>2. InRound2' <=> InRound2
    BY <1>1 DEF InRound2
  <1>3. ASSUME InRound2' PROVE \A d \in Signer : Begun(d)'
    BY <1>2, <1>3, BegunStays DEF PhaseInv, Moves
  <1>4. ASSUME NEW d \in Signer PROVE PhaseOf(d)'
    <2>1. CASE d = s
      BY <2>1, SignerPhaseOf
    <2>2. CASE d # s
      <3>1. PhaseOf(d)
        BY DEF PhaseInv
      <3> QED
        BY <1>1, <1>2, <2>2, <3>1, OthersSame DEF PhaseOf, SameProcess, UpEnd
    <2> QED
      BY <2>1, <2>2
  <1>5. ASSUME NEW d \in Signer, NEW e \in Signer PROVE OnePlace1(d, e)'
    <2>1. OnePlace1(d, e) /\ Thin(toS[d], toS'[d], Down1(e))
      BY SignerThin DEF PhaseInv
    <2>2. d # s => Got1(d)' = Got1(d)
      BY OthersSame DEF SameProcess
    <2>3. CASE e \in Got1(d)' => e \in Got1(d)
      BY <1>2, <2>1, <2>3 DEF OnePlace1, Thin, Down1
    <2>4. CASE e \in Got1(d)' /\ e \notin Got1(d)
      <3>1. d = s
        BY <2>2, <2>4
      <3>2. toS[s] # <<>> /\ toS'[s] = Tail(toS[s]) /\ Head(toS[s]) \in Down1(e)
        BY <2>4, <3>1, SignerGot1
      <3>3. InRound2 /\ ~Some(toS'[s], Down1(e))
        BY <3>2, ReadsRound1
      <3> QED
        BY <1>2, <2>1, <3>1, <3>3 DEF OnePlace1, Thin, Down1
    <2> QED
      BY <2>3, <2>4
  <1> QED
    BY <1>3, <1>4, <1>5 DEF PhaseInv

\* The phase only moves on, and where to.
LEMMA CoordinatorMoves ==
  ASSUME NEW s \in Signer, CoordinatorDoes(s)
  PROVE  \/ dkgState' = dkgState
         \/ Relays1(s) /\ dkgState = "R1" /\ dkgState' = "R2"
         \/ Announces(s) /\ dkgState' = "COMPLETE"
  BY DEF CoordinatorDoes, Ignores, Relays1, Passes2, NotesDone, Announces, Counts, Removes

\* The next frame of s is under way.
LEMMA NextIs ==
  ASSUME FrameInv, NEW s \in Signer, toC[s] # <<>>, NEW S, Head(toC[s]) \in S
  PROVE  Some(toC[s], S)
  <1>1. PICK U, q : U = UpKind(s, mode) /\ q = toC[s]
    OBVIOUS
  <1>2. q \in Seq(U)
    BY <1>1 DEF FrameInv
  <1> QED
    BY <1>1, <1>2, SomeHead

LEMMA CoordinatorDone ==
  ASSUME FrameInv, NEW s \in Signer, Handles(s), CoordinatorDoes(s), NEW d \in Signer, Done2(d)'
  PROVE  Done2(d) \/ Announces(s)
  <1>1. Thin(toC[d], toC'[d], UpDone)
    BY HandlesThin
  <1>2. CASE NotesDone(s)
    <2>1. Done2(s)
      BY <1>2, NextIs DEF NotesDone, Done2, Handles
    <2>2. entry'[d].r2Complete => d = s \/ entry[d].r2Complete
      BY <1>2 DEF NotesDone
    <2> QED
      BY <1>1, <2>1, <2>2 DEF Thin, Done2, UpDone
  <1>3. CASE entry'[d].r2Complete = entry[d].r2Complete
    BY <1>1, <1>3 DEF Thin, Done2, UpDone
  <1> QED
    BY <1>2, <1>3 DEF CoordinatorDoes, Ignores, Relays1, Passes2, Counts, Removes, SameDone

LEMMA CoordinatorPhase ==
  ASSUME SharingInv, SharingInv', FrameInv, PhaseInv, NEW s \in Signer,
         Handles(s), CoordinatorDoes(s)
  PROVE  PhaseInv'
  <1>1. UNCHANGED <<signer, running>> /\ \A d \in Signer : SameProcess(d)
    BY SameProcessIf DEF Handles
  <1>2. InRound2 => InRound2'
    BY CoordinatorMoves DEF InRound2
  <1>3. Announces(s) => InRound2
    BY NextIs DEF Announces, PhaseInv, PhaseOf, Done2, Handles
  <1>4. ASSUME InRound2' PROVE \A d \in Signer : Begun(d)'
    <2>1. InRound2 \/ Relays1(s)
      BY <1>3, <1>4, CoordinatorMoves DEF InRound2
    <2>2. \A d \in Signer : Begun(d)
      BY <2>1 DEF PhaseInv, Relays1
    <2> QED
      BY <2>2, BegunStays DEF Moves
  <1>5. ASSUME NEW d \in Signer PROVE PhaseOf(d)'
    <2>1. PhaseOf(d)
      BY DEF PhaseInv
    <2>2. Done2(d)' => InRound2'
      BY <1>2, <1>3, <2>1, CoordinatorDone DEF PhaseOf
    <2>3. Thin(toC[d], toC'[d], UpEnd)
      BY HandlesThin
    <2>4. ASSUME running, signer[d].up PROVE d \in Listed'
      <3>1. CASE Removes(s)
        <4>1. Some(toC[s], UpEnd)
          BY <3>1, NextIs DEF Removes, Handles
        <4>2. d # s
          BY <2>1, <2>4, <4>1 DEF PhaseOf
        <4> QED
          BY <2>1, <2>4, <3>1, <4>2 DEF PhaseOf, Removes
      <3>2. CASE list' = list
        BY <2>1, <2>4, <3>2 DEF PhaseOf, Listed
      <3> QED
        BY <3>1, <3>2 DEF CoordinatorDoes, Ignores, Relays1, Passes2, NotesDone, Announces, Counts
    <2> QED
      BY <1>1, <2>1, <2>2, <2>3, <2>4 DEF PhaseOf, SameProcess, Thin, UpEnd
  <1>6. ASSUME NEW d \in Signer, NEW e \in Signer PROVE OnePlace1(d, e)'
    <2>1. OnePlace1(d, e) /\ Got1(d)' = Got1(d)
      BY <1>1 DEF PhaseInv, SameProcess
    <2>2. CASE ~Relays1(s)
      <3>1. \A f \in Down1(e) :
              /\ f.type \notin {"DKG_DONE", "REFRESH_FINALIZE", "REFRESH_CONFIRMED"}
              /\ f \notin Down2(s)
        BY DEF Down1, Down2
      <3>2. Thin(toS[d], toS'[d], Down1(e))
        BY <2>2, <3>1, CoordinatorThin
      <3> QED
        BY <1>2, <2>1, <3>2 DEF OnePlace1, Thin, Down1
    <2>3. CASE Relays1(s)
      <3>1. ~InRound2 /\ InRound2'
        BY <2>3 DEF InRound2, Relays1
      <3>2. ~Some(toS[d], Down1(e)) /\ e \notin Got1(d)
        BY <2>1, <3>1 DEF OnePlace1
      <3>3. PICK D, S, q, x : D = DownKind(d, mode) /\ S = Down1(e) /\ q = toS[d] /\ x = toS'[d]
        OBVIOUS
      <3>4. q \in Seq(D) /\ Few(q, S) /\ ~Some(q, S)
        BY <2>1, <3>2, <3>3 DEF FrameInv, OnePlace1
      <3>5. x = q \/ \E out \in Seq(D) : x = q \o out /\ Few(out, S)
        BY <2>3, <3>3 DEF Relays1, Relay1Out
      <3>6. Few(x, S)
        BY <3>4, <3>5, FewConcat
      <3> QED
        BY <2>1, <3>1, <3>2, <3>3, <3>6 DEF OnePlace1, Down1
    <2> QED
      BY <2>2, <2>3
  <1> QED
    BY <1>4, <1>5, <1>6 DEF PhaseInv

\* A process that has just connected is blank.
LEMMA ConnectedBlank ==
  ASSUME NEW s \in Signer, Connects(s)
  PROVE  /\ signer'[s].up /\ ~Alive(s)' /\ ~Sent2(s)' /\ Got1(s)' = {} /\ Got2(s)' = {} /\ ~Keyed(s)'
         /\ toC'[s] = <<>> /\ ~Done2(s)'
         /\ ~Alive(s)
         /\ \A d \in Signer \ {s} : /\ SameProcess(d) /\ toC'[d] = toC[d]
                                    /\ Done2(d)' <=> Done2(d)
         /\ \A d \in Signer : SameFile(d)
  <1>1. PICK n : n = signer[s].drawn
    OBVIOUS
  <1>2. signer'[s] = FreshSigner(n) /\ toC'[s] = <<>> /\ ~entry'[s].r2Complete /\ ~signer[s].up
    BY <1>1 DEF Connects
  <1>3. \A d \in Signer \ {s} : /\ SameProcess(d) /\ toC'[d] = toC[d] /\ entry'[d] = entry[d]
    BY SameProcessIf DEF Connects
  <1>4. \A d \in Signer : SameFile(d)
    BY SameFileIf DEF Connects
  <1>5. /\ signer'[s].up /\ ~Alive(s)' /\ ~Sent2(s)' /\ Got1(s)' = {} /\ Got2(s)' = {}
        /\ ~Keyed(s)'
    BY <1>2, DownFacts DEF Alive, Sent2, Got1, Got2, Keyed
  <1>6. ~Done2(s)'
    BY <1>2, NoneIn DEF Done2
  <1>7. \A d \in Signer \ {s} : Done2(d)' <=> Done2(d)
    BY <1>3 DEF Done2, UpDone
  <1> QED
    BY <1>2, <1>3, <1>4, <1>5, <1>6, <1>7 DEF Alive

LEMMA ConnectsPhase ==
  ASSUME SharingInv, SharingInv', FrameInv, PhaseInv, NEW s \in Signer, Connects(s)
  PROVE  PhaseInv'
  <1>1. InRound2' <=> InRound2
    BY DEF Connects, InRound2
  <1>2. running' = running /\ Listed' = Listed \cup {s}
    BY DEF Connects
  <1>3. ASSUME InRound2' PROVE \A d \in Signer : Begun(d)'
    BY <1>1, <1>3, BegunStays DEF PhaseInv, Moves
  <1>4. ASSUME NEW d \in Signer PROVE PhaseOf(d)'
    <2>1. PhaseOf(d)
      BY DEF PhaseInv
    <2>2. CASE d = s
      <3>1. ~Some(toC'[s], UpEnd)
        BY ConnectedBlank, NoneIn
      <3> QED
        BY <1>2, <2>2, <3>1, ConnectedBlank DEF PhaseOf, UpEnd
    <2>3. CASE d # s
      BY <1>1, <1>2, <2>1, <2>3, ConnectedBlank DEF PhaseOf, SameProcess, UpEnd
    <2> QED
      BY <2>2, <2>3
  <1>5. ASSUME NEW d \in Signer, NEW e \in Signer PROVE OnePlace1(d, e)'
    <2>1. OnePlace1(d, e)
      BY DEF PhaseInv
    <2>2. \A f \in Opener : f \notin Down1(e)
      BY DEF Opener, Down1
    <2>3. Thin(toS[d], toS'[d], Down1(e))
      BY <2>2, ConnectsThin
    <2>4. Got1(d)' \subseteq Got1(d)
      BY ConnectedBlank DEF SameProcess
    <2> QED
      BY <1>1, <2>1, <2>3, <2>4 DEF OnePlace1, Thin, Down1
  <1> QED
    BY <1>3, <1>4, <1>5 DEF PhaseInv

LEMMA StopsSame ==
  ASSUME Stops, NEW d \in Signer
  PROVE  /\ SameProcess(d) /\ toC'[d] = toC[d] /\ SameFile(d)
         /\ Done2(d)' <=> Done2(d)
  BY SameProcessIf, SameFileIf DEF Stops, Done2, UpDone

LEMMA StopsPhase ==
  ASSUME SharingInv, SharingInv', FrameInv, PhaseInv, Stops
  PROVE  PhaseInv'
  <1>1. (InRound2' <=> InRound2) /\ running' = FALSE
    BY DEF Stops, InRound2
  <1>2. ASSUME InRound2' PROVE \A d \in Signer : Begun(d)'
    BY <1>1, <1>2, BegunStays DEF PhaseInv, Moves
  <1>3. ASSUME NEW d \in Signer PROVE PhaseOf(d)'
    BY <1>1, StopsSame DEF PhaseInv, PhaseOf, SameProcess
  <1>4. ASSUME NEW d \in Signer, NEW e \in Signer PROVE OnePlace1(d, e)'
    <2>1. OnePlace1(d, e) /\ Got1(d)' = Got1(d)
      BY StopsSame DEF PhaseInv, SameProcess
    <2>2. Thin(toS[d], toS'[d], Down1(e))
      BY StopsThin, ClosedFrame
    <2> QED
      BY <1>1, <2>1, <2>2 DEF OnePlace1, Thin, Down1
  <1> QED
    BY <1>2, <1>3, <1>4 DEF PhaseInv

\* At the beginning of a run.
LEMMA BlankViews ==
  ASSUME SharingInv, Blank, NEW s \in Signer
  PROVE  /\ ~signer[s].up /\ ~Alive(s) /\ ~Sent2(s) /\ Got1(s) = {} /\ Got2(s) = {} /\ ~Keyed(s)
         /\ ~Done2(s) /\ ~Begun(s) /\ ~Saved(s) /\ toC[s] = <<>> /\ toS[s] = <<>>
  <1>1. /\ ~signer[s].up /\ toC[s] = <<>> /\ toS[s] = <<>> /\ ~entry[s].r2Complete
        /\ dkgState = "IDLE"
    BY DEF Blank
  <1>2. PICK n : n = signer[s].drawn
    OBVIOUS
  <1>3. signer[s] = Down(n)
    BY <1>1, <1>2, ProcessNow
  <1>4. ~Sent2(s) /\ Got1(s) = {} /\ Got2(s) = {} /\ ~Keyed(s)
    BY <1>3, DownFacts DEF Sent2, Got1, Got2, Keyed
  <1>5. ~Done2(s)
    BY <1>1, NoneIn DEF Done2
  <1>6. Fixed = {}
    BY <1>1 DEF Fixed, Begun
  <1>7. ASSUME NEW p \in keyFile[s] PROVE p.run # run
    <2>1. FileFits(keyFile[s], Fixed, run) /\ run \in 1..MaxRuns
      BY DEF SharingInv, Connection, StateOK
    <2>2. CASE keyFile[s] = Absent
      <3>1. p.run = 0
        BY <2>2 DEF Absent, NoPoly
      <3> QED
        BY <2>1, <3>1
    <2>3. CASE ShareFits(keyFile[s], Fixed, run)
      BY <1>6, <2>3 DEF ShareFits
    <2> QED
      BY <2>1, <2>2, <2>3 DEF FileFits
  <1>8. ~Saved(s)
    BY <1>7 DEF Saved, Part
  <1> QED
    BY <1>1, <1>4, <1>5, <1>8 DEF Alive, Begun

LEMMA BlankPhase == SharingInv /\ Blank => PhaseInv
  <1> SUFFICES ASSUME SharingInv, Blank PROVE PhaseInv
    OBVIOUS
  <1>1. ~InRound2
    BY DEF Blank, InRound2
  <1>2. \A s \in Signer : PhaseOf(s)
    BY BlankViews DEF PhaseOf
  <1>3. \A s, e \in Signer : OnePlace1(s, e)
    BY BlankViews, NoneIn DEF OnePlace1
  <1> QED
    BY <1>1, <1>2, <1>3 DEF PhaseInv

LEMMA PhaseNext ==
  ASSUME SharingInv, SharingInv', FrameInv, PhaseInv, Acts PROVE PhaseInv'
  <1>1. CASE Blank'
    <2>1. (SharingInv /\ Blank => PhaseInv)'
      BY BlankPhase, PTL
    <2> QED
      BY <1>1, <2>1
  <1>2. CASE UNCHANGED vars
    <2>1. UNCHANGED <<signer, toC, toS, dkgState, list, entry, running>>
      BY <1>2 DEF vars, coordVars
    <2>2. (InRound2' <=> InRound2) /\ \A s \in Signer : Begun(s)' <=> Begun(s)
      BY <2>1 DEF InRound2, Begun, Pending
    <2>3. ASSUME NEW s \in Signer PROVE PhaseOf(s)'
      <3>1. PhaseOf(s)
        BY DEF PhaseInv
      <3> QED
        BY <2>1, <2>2, <3>1 DEF PhaseOf, Done2, UpDone, UpEnd, Sent2, Got1, Got2, Listed
    <2>4. ASSUME NEW s \in Signer, NEW e \in Signer PROVE OnePlace1(s, e)'
      <3>1. OnePlace1(s, e)
        BY DEF PhaseInv
      <3> QED
        BY <2>1, <2>2, <3>1 DEF OnePlace1, Got1, Down1
    <2> QED
      BY <2>2, <2>3, <2>4 DEF PhaseInv
  <1> QED
    BY <1>1, <1>2, SignerPhase, CoordinatorPhase, ConnectsPhase, StopsPhase DEF Acts

-----------------------------------------------------------------------------
(* A round-2 package is in one place.                                      *)

LEMMA CanSend2Stays ==
  ASSUME SharingInv, SharingInv', FrameInv, Moves, NEW e \in Signer, CanSend2(e)'
  PROVE  CanSend2(e)
  <1> SUFFICES ASSUME Begun(e) PROVE Alive(e) /\ ~Sent2(e)
    BY DEF CanSend2
  <1>1. Alive(e)' /\ ~Sent2(e)'
    BY BegunStays DEF CanSend2
  <1>2. SameProcess(e) => Alive(e) /\ ~Sent2(e)
    BY <1>1 DEF SameProcess
  <1>3. ASSUME NEW s \in Signer, SignerActs(s) PROVE Alive(e) /\ ~Sent2(e)
    <2>1. CASE e # s
      BY <1>2, <1>3, <2>1, OthersSame
    <2>2. CASE e = s
      <3>1. signer[s].up /\ SignerDoes(s) /\ signer'[s].up
        BY <1>1, <1>3, <2>2 DEF SignerActs, SignerDoes, Alive
      <3>2. ~Falls(s) /\ ~Pending(s)
        BY <2>2, <3>1 DEF Falls, Begun
      <3>3. ~Sends2(s)
        <4>1. Sends2(s) => signer'[s].secret2 # NoPoly
          BY DEF Sends2
        <4> QED
          BY <1>1, <2>2, <4>1 DEF Sent2
      <3>4. signer'[s].secret1 = signer[s].secret1 /\ signer'[s].secret2 = signer[s].secret2
        BY <3>1, <3>2, <3>3 DEF SignerDoes, Rests, Takes1, Takes2, Saves, Finalizes, SameSecrets
      <3> QED
        BY <1>1, <2>2, <3>1, <3>4 DEF Alive, Sent2
    <2> QED
      BY <2>1, <2>2
  <1>4. ASSUME NEW s \in Signer, Handles(s) PROVE Alive(e) /\ ~Sent2(e)
    <2>1. signer' = signer
      BY <1>4 DEF Handles
    <2> QED
      BY <1>2, <2>1, SameProcessIf
  <1>5. ASSUME NEW s \in Signer, Connects(s) PROVE Alive(e) /\ ~Sent2(e)
    BY <1>1, <1>2, <1>5, ConnectedBlank
  <1>6. CASE Stops
    BY <1>2, <1>6, StopsSame
  <1> QED
    BY <1>3, <1>4, <1>5, <1>6 DEF Moves

\* Which packages of round 2 a signer's step may add.
LEMMA SignerGot2 ==
  ASSUME NEW s \in Signer, SignerActs(s), NEW e, e \in Got2(s)'
  PROVE  \/ e \in Got2(s)
         \/ e \in Signer /\ toS[s] # <<>> /\ toS'[s] = Tail(toS[s]) /\ Head(toS[s]) \in Down2(e)
  <1>1. CASE Falls(s)
    BY <1>1 DEF Falls
  <1>2. CASE Rests(s) \/ Takes1(s) \/ Sends2(s) \/ Finalizes(s)
    BY <1>2 DEF Rests, Takes1, Sends2, Finalizes
  <1>3. CASE Takes2(s) /\ ~Falls(s)
    BY <1>3, SignerMotion DEF Takes2
  <1>4. CASE Saves(s) /\ ~Falls(s)
    <2>1. Got2(s)' = Signer \ {s} /\ mode = "D" /\ Writes(s)
      BY <1>4 DEF Saves
    <2>2. PICK c \in Signer \ {s} : Head(toS[s]) \in Down2(c) /\ Got2(s) \cup {c} = Signer \ {s}
      BY <2>1 DEF Writes
    <2> QED
      BY <1>4, <2>1, <2>2, SignerMotion
  <1> QED
    BY <1>1, <1>2, <1>3, <1>4, SignerMotion DEF SignerDoes

\* Nothing is added.
LEMMA PlaceKept ==
  ASSUME NEW e \in Signer, NEW d \in Signer, OnePlace(e, d), CanSend2(e)' => CanSend2(e),
         Thin(toC[e], toC'[e], Up2(d)), Thin(toS[d], toS'[d], Down2(e)),
         e \in Got2(d)' => e \in Got2(d)
  PROVE  OnePlace(e, d)'
  BY DEF OnePlace, Thin, Up2, Down2

\* Part 2 is done by a process that has a polynomial and has not done it.
LEMMA Sends2Once ==
  ASSUME FrameInv, PhaseInv, NEW s \in Signer, SignerActs(s), Sends2(s)
  PROVE  CanSend2(s) /\ ~Sent2(s) /\ Alive(s) /\ Sent2(s)' /\ signer'[s].up
  <1>1. PICK e \in Signer \ {s} : Head(toS[s]) \in Down1(e)
    BY DEF Sends2
  <1>2. signer'[s].up /\ signer[s].up /\ signer[s].secret1 # NoPoly /\ Sent2(s)'
    BY DEF Sends2, SignerActs, Sent2
  <1>3. toS[s] # <<>>
    BY <1>2, SignerMotion DEF Falls
  <1>4. e \notin Got1(s)
    BY <1>1, <1>3, ReadsRound1
  <1>5. ~Sent2(s)
    BY <1>1, <1>4 DEF PhaseInv, PhaseOf
  <1> QED
    BY <1>2, <1>5 DEF CanSend2, Alive

LEMMA SignerPlace ==
  ASSUME SharingInv, SharingInv', FrameInv, PhaseInv, PlaceInv, NEW s \in Signer, SignerActs(s),
         NEW e \in Signer, NEW d \in Signer, e # d
  PROVE  OnePlace(e, d)'
  <1>1. OnePlace(e, d)
    BY DEF PlaceInv
  <1>2. CanSend2(e)' => CanSend2(e)
    BY CanSend2Stays DEF Moves
  <1>3. Thin(toS[d], toS'[d], Down2(e))
    BY SignerThin
  <1>4. d # s => Got2(d)' = Got2(d)
    BY OthersSame DEF SameProcess
  <1>5. CASE Sends2(s) /\ e = s
    <2>1. /\ CanSend2(s) /\ Alive(s) /\ Sent2(s)' /\ Got2(d)' = Got2(d)
      BY <1>4, <1>5, Sends2Once
    <2>2. ~CanSend2(s)'
      <3>1. Begun(s)'
        BY <2>1, AliveBegun, BegunStays DEF Alive, Moves
      <3> QED
        BY <2>1, <3>1 DEF CanSend2
    <2>3. PICK U, S, q, x : U = UpKind(s, mode) /\ S = Up2(d) /\ q = toC[s] /\ x = toC'[s]
      OBVIOUS
    <2>4. q \in Seq(U) /\ ~Some(q, S) /\ Few(q, S)
      BY <1>1, <1>5, <2>1, <2>3 DEF FrameInv, OnePlace
    <2>5. PICK out \in Seq(U) : x = q \o out /\ Few(out, S)
      BY <1>5, <2>3 DEF Sends2, Says, Round2Out
    <2>6. Few(x, S)
      BY <2>4, <2>5, FewConcat
    <2> QED
      BY <1>1, <1>3, <1>5, <2>1, <2>2, <2>3, <2>6 DEF OnePlace, Thin, Down2, Up2
  <1>6. CASE ~(Sends2(s) /\ e = s)
    <2>1. Thin(toC[e], toC'[e], Up2(d))
      <3>1. CASE e # s
        BY <3>1, OthersSame, ThinSame
      <3>2. CASE e = s
        <4>1. /\ \A f \in Plain \cup UpDone \cup Report : f \notin Up2(d)
          BY DEF Plain, UpDone, Report, Up2
        <4> QED
          BY <1>6, <3>2, <4>1, SignerUpThin, ClosedFrame
      <3> QED
        BY <3>1, <3>2
    <2>2. CASE e \in Got2(d)' => e \in Got2(d)
      BY <1>1, <1>2, <1>3, <2>1, <2>2, PlaceKept
    <2>3. CASE e \in Got2(d)' /\ e \notin Got2(d)
      <3>1. d = s
        BY <1>4, <2>3
      <3>2. toS[s] # <<>> /\ toS'[s] = Tail(toS[s]) /\ Head(toS[s]) \in Down2(e)
        BY <2>3, <3>1, SignerGot2
      <3>3. PICK D, S, q : D = DownKind(s, mode) /\ S = Down2(e) /\ q = toS[s]
        OBVIOUS
      <3>4. q \in Seq(D) /\ Few(q, S)
        BY <1>1, <3>1, <3>3 DEF FrameInv, OnePlace
      <3>5. ~Some(Tail(q), S) /\ Some(q, S)
        BY <3>2, <3>3, <3>4, HeadWasOnly
      <3>6. ~Some(toS'[d], Down2(e)) /\ Some(toS[d], Down2(e))
        BY <3>1, <3>2, <3>3, <3>5
      <3> QED
        BY <1>1, <1>2, <1>3, <2>1, <3>6 DEF OnePlace, Thin, Down2, Up2
    <2> QED
      BY <2>2, <2>3
  <1> QED
    BY <1>5, <1>6

LEMMA CoordinatorPlace ==
  ASSUME SharingInv, SharingInv', FrameInv, PhaseInv, PlaceInv, NEW s \in Signer,
         Handles(s), CoordinatorDoes(s), NEW e \in Signer, NEW d \in Signer, e # d
  PROVE  OnePlace(e, d)'
  <1>1. OnePlace(e, d)
    BY DEF PlaceInv
  <1>2. CanSend2(e)' => CanSend2(e)
    BY CanSend2Stays DEF Moves
  <1>3. Thin(toC[e], toC'[e], Up2(d))
    BY HandlesThin
  <1>4. Got2(d)' = Got2(d)
    BY SameProcessIf DEF Handles, SameProcess
  <1>5. CASE ~Passes2(s) \/ e # s
    <2>1. \A f \in Down2(e) : /\ f.type \notin {"RELAY_R1", "RELAY_REFRESH_R1", "DKG_DONE",
                                                "REFRESH_FINALIZE", "REFRESH_CONFIRMED"}
                              /\ e # s => f \notin Down2(s)
      BY DEF Down2
    <2>2. Thin(toS[d], toS'[d], Down2(e))
      BY <1>5, <2>1, CoordinatorThin
    <2> QED
      BY <1>1, <1>2, <1>3, <1>4, <2>2, PlaceKept
  <1>6. CASE Passes2(s) /\ e = s
    <2>1. PICK c \in Listed \ {s} :
            /\ Head(toC[s]) \in Up2(c)
            /\ \E g \in Down2(s) \cap DownKind(c, mode) : toS'[c] = Append(toS[c], g)
            /\ \A b \in Signer \ {c} : toS'[b] = toS[b]
      BY <1>6 DEF Passes2
    <2>2. CASE c # d
      BY <1>1, <1>2, <1>3, <1>4, <2>1, <2>2, ThinSame, PlaceKept
    <2>3. CASE c = d
      <3>1. PICK U, D, A, B, up, dn :
              /\ U = UpKind(s, mode) /\ D = DownKind(d, mode) /\ A = Up2(d) /\ B = Down2(s)
              /\ up = toC[s] /\ dn = toS[d]
        OBVIOUS
      <3>2. up \in Seq(U) /\ dn \in Seq(D) /\ Few(up, A) /\ Few(dn, B) /\ up # <<>>
        BY <1>1, <1>6, <3>1 DEF FrameInv, OnePlace, Handles
      <3>3. Head(up) \in A
        BY <2>1, <2>3, <3>1
      <3>4. ~Some(Tail(up), A) /\ Some(up, A)
        BY <3>2, <3>3, HeadWasOnly
      <3>5. ~Some(dn, B) /\ s \notin Got2(d) /\ ~CanSend2(s)
        BY <1>1, <1>6, <3>1, <3>4 DEF OnePlace
      <3>6. PICK g \in D : toS'[d] = Append(dn, g)
        BY <2>1, <2>3, <3>1
      <3>7. Few(Append(dn, g), B)
        BY <3>2, <3>5, SomeAppend
      <3>8. toC'[s] = Tail(up)
        BY <3>1 DEF Handles
      <3>9. ~Some(toC'[e], Up2(d)) /\ e \notin Got2(d)' /\ ~CanSend2(e)' /\ Few(toS'[d], Down2(e))
        BY <1>2, <1>4, <1>6, <3>1, <3>4, <3>5, <3>6, <3>7, <3>8
      <3> QED
        BY <1>1, <1>3, <3>9 DEF OnePlace, Thin, Up2, Down2
    <2> QED
      BY <2>2, <2>3
  <1> QED
    BY <1>5, <1>6

LEMMA ConnectsPlace ==
  ASSUME SharingInv, SharingInv', FrameInv, PlaceInv, NEW s \in Signer, Connects(s),
         NEW e \in Signer, NEW d \in Signer, e # d
  PROVE  OnePlace(e, d)'
  <1>1. OnePlace(e, d)
    BY DEF PlaceInv
  <1>2. CanSend2(e)' => CanSend2(e)
    BY CanSend2Stays DEF Moves
  <1>3. \A f \in Opener : f \notin Down2(e)
    BY DEF Opener, Down2
  <1>4. Thin(toC[e], toC'[e], Up2(d)) /\ Thin(toS[d], toS'[d], Down2(e))
    BY <1>3, ConnectsThin
  <1>5. e \in Got2(d)' => e \in Got2(d)
    BY ConnectedBlank DEF SameProcess
  <1> QED
    BY <1>1, <1>2, <1>4, <1>5, PlaceKept

LEMMA StopsPlace ==
  ASSUME SharingInv, SharingInv', FrameInv, PlaceInv, Stops,
         NEW e \in Signer, NEW d \in Signer, e # d
  PROVE  OnePlace(e, d)'
  <1>1. OnePlace(e, d)
    BY DEF PlaceInv
  <1>2. CanSend2(e)' => CanSend2(e)
    BY CanSend2Stays DEF Moves
  <1>3. Thin(toC[e], toC'[e], Up2(d)) /\ Thin(toS[d], toS'[d], Down2(e))
    BY StopsSame, ThinSame, StopsThin, ClosedFrame
  <1>4. e \in Got2(d)' => e \in Got2(d)
    BY StopsSame DEF SameProcess
  <1> QED
    BY <1>1, <1>2, <1>3, <1>4, PlaceKept

LEMMA BlankPlace == SharingInv /\ Blank => PlaceInv
  BY BlankViews, NoneIn DEF PlaceInv, OnePlace

LEMMA PlaceNext ==
  ASSUME SharingInv, SharingInv', FrameInv, PhaseInv, PlaceInv, Acts PROVE PlaceInv'
  <1>1. CASE Blank'
    <2>1. (SharingInv /\ Blank => PlaceInv)'
      BY BlankPlace, PTL
    <2> QED
      BY <1>1, <2>1
  <1>2. CASE UNCHANGED vars
    <2>1. UNCHANGED <<signer, toC, toS, dkgState>>
      BY <1>2 DEF vars, coordVars
    <2>2. ASSUME NEW e \in Signer, NEW d \in Signer, e # d PROVE OnePlace(e, d)'
      <3>1. OnePlace(e, d)
        BY <2>2 DEF PlaceInv
      <3>2. CanSend2(e)' <=> CanSend2(e)
        BY <2>1 DEF CanSend2, Begun, Pending, Alive, Sent2
      <3> QED
        BY <2>1, <3>1, <3>2 DEF OnePlace, Got2, Up2, Down2
    <2> QED
      BY <2>2 DEF PlaceInv
  <1> SUFFICES ASSUME NEW e \in Signer, NEW d \in Signer, e # d PROVE OnePlace(e, d)'
    BY DEF PlaceInv
  <1> QED
    BY <1>1, <1>2, SignerPlace, CoordinatorPlace, ConnectsPlace, StopsPlace DEF Acts, PlaceInv

-----------------------------------------------------------------------------
(* Reports.                                                                *)

LEMMA AliveStays ==
  ASSUME SharingInv, NEW e \in Signer, Moves, Begun(e), Alive(e)'
  PROVE  Alive(e)
  <1>1. SameProcess(e) => Alive(e)
    BY DEF SameProcess
  <1>2. ASSUME NEW s \in Signer, SignerActs(s) PROVE Alive(e)
    <2>1. CASE e # s
      BY <1>1, <1>2, <2>1, OthersSame
    <2>2. CASE e = s
      <3>1. signer[s].up /\ SignerDoes(s) /\ signer'[s].up /\ ~Pending(s)
        BY <1>2, <2>2 DEF SignerActs, SignerDoes, Alive, Begun
      <3>2. ~Falls(s)
        BY <3>1 DEF Falls
      <3>3. signer'[s].secret1 = signer[s].secret1
        BY <3>1, <3>2 DEF SignerDoes, Rests, Takes1, Sends2, Takes2, Saves, Finalizes, SameSecrets
      <3> QED
        BY <2>2, <3>1, <3>3 DEF Alive
    <2> QED
      BY <2>1, <2>2
  <1>3. ASSUME NEW s \in Signer, Handles(s) PROVE Alive(e)
    <2>1. signer' = signer
      BY <1>3 DEF Handles
    <2> QED
      BY <1>1, <2>1, SameProcessIf
  <1>4. ASSUME NEW s \in Signer, Connects(s) PROVE Alive(e)
    BY <1>1, <1>4, ConnectedBlank
  <1>5. CASE Stops
    BY <1>1, <1>5, StopsSame
  <1> QED
    BY <1>2, <1>3, <1>4, <1>5 DEF Moves

LEMMA AnnouncesOnce ==
  ASSUME FrameInv, ReportInv, NEW s \in Signer, Handles(s), Announces(s)
  PROVE  ~Announced
  <1>1. Some(toC[s], UpDone) /\ running /\ ~entry[s].r2Complete
    BY NextIs DEF Announces, Handles
  <1> QED
    BY <1>1 DEF ReportInv, ReportOf

\* The end of the ceremony is announced by one step of the coordinator.
LEMMA AnnouncedSteps ==
  ASSUME FrameInv, ReportInv, Moves
  PROVE  /\ Announced => Announced'
         /\ mode' = mode
         /\ (\A s \in Signer : Handles(s) => ~Announces(s)) =>
              (Announced' => Announced) /\ \A d \in Signer : Thin(toS[d], toS'[d], Final)
         /\ Announced => \A d \in Signer : Thin(toS[d], toS'[d], Final)
  <1>1. ASSUME NEW s \in Signer, SignerActs(s)
        PROVE  /\ Announced' <=> Announced
               /\ mode' = mode /\ \A d \in Signer : Thin(toS[d], toS'[d], Final)
    BY <1>1, SignerThin DEF SignerActs, Steady, Announced
  <1>2. ASSUME NEW s \in Signer, Handles(s), CoordinatorDoes(s)
        PROVE  /\ Announced => Announced'
               /\ mode' = mode
               /\ ~Announces(s) => (Announced' => Announced)
                                   /\ \A d \in Signer : Thin(toS[d], toS'[d], Final)
               /\ Announced => ~Announces(s)
    <2>1. \A f \in Final : /\ f.type \notin {"RELAY_R1", "RELAY_REFRESH_R1", "REFRESH_CONFIRMED"}
                           /\ f \notin Down2(s)
      BY DEF Final, Down2
    <2>2. ~Announces(s) => \A d \in Signer : Thin(toS[d], toS'[d], Final)
      BY <1>2, <2>1, CoordinatorThin
    <2> QED
      BY <1>2, <2>2, CoordinatorMoves, AnnouncesOnce DEF Announced, Handles
  <1>3. ASSUME NEW s \in Signer, Connects(s)
        PROVE  /\ Announced' <=> Announced
               /\ mode' = mode /\ \A d \in Signer : Thin(toS[d], toS'[d], Final)
    <2>1. \A f \in Opener : f \notin Final
      BY DEF Opener, Final
    <2>2. \A d \in Signer : Thin(toS[d], toS'[d], Final)
      BY <1>3, <2>1, ConnectsThin
    <2> QED
      BY <1>3, <2>2 DEF Connects, Announced
  <1>4. CASE Stops
    <2>1. \A d \in Signer : Thin(toS[d], toS'[d], Final)
      BY <1>4, StopsThin, ClosedFrame
    <2> QED
      BY <1>4, <2>1 DEF Stops, Announced
  <1> QED
    BY <1>1, <1>2, <1>3, <1>4 DEF Moves

LEMMA KeyedStays ==
  ASSUME NEW e \in Signer, Moves, mode = "D", Alive(e)', Keyed(e) PROVE Keyed(e)'
  <1>1. SameProcess(e) => Keyed(e)'
    BY DEF SameProcess
  <1>2. ASSUME NEW s \in Signer, SignerActs(s) PROVE Keyed(e)'
    <2>1. CASE e # s
      BY <1>1, <1>2, <2>1, OthersSame
    <2>2. CASE e = s
      <3>1. SignerDoes(s) /\ ~Falls(s)
        BY <1>2, <2>2 DEF SignerActs, SignerDoes, Alive, Falls
      <3>2. Saves(s) => Keyed(s)'
        BY DEF Saves
      <3>3. ~Saves(s) => signer'[s].key = signer[s].key
        BY <3>1 DEF SignerDoes, Rests, Takes1, Sends2, Takes2, Finalizes, SameKey
      <3> QED
        BY <2>2, <3>2, <3>3 DEF Keyed
    <2> QED
      BY <2>1, <2>2
  <1>3. ASSUME NEW s \in Signer, Handles(s) PROVE Keyed(e)'
    <2>1. signer' = signer
      BY <1>3 DEF Handles
    <2> QED
      BY <1>1, <2>1, SameProcessIf
  <1>4. ASSUME NEW s \in Signer, Connects(s) PROVE Keyed(e)'
    BY <1>1, <1>4, ConnectedBlank
  <1>5. CASE Stops
    BY <1>1, <1>5, StopsSame
  <1> QED
    BY <1>2, <1>3, <1>4, <1>5 DEF Moves

LEMMA CanReportStays ==
  ASSUME SharingInv, SharingInv', FrameInv, ReportInv, Moves, NEW e \in Signer, CanReport(e)'
  PROVE  CanReport(e)
  <1> SUFFICES ASSUME Begun(e) PROVE CanReport(e)
    BY DEF CanReport
  <1>1. Alive(e)' /\ Alive(e)
    BY BegunStays, AliveStays DEF CanReport
  <1>2. mode' = mode /\ Begun(e)'
    BY AnnouncedSteps, BegunStays
  <1>3. CASE mode = "D"
    <2>1. ~Keyed(e)'
      BY <1>2, <1>3 DEF CanReport
    <2>2. ~Keyed(e)
      BY <1>1, <1>3, <2>1, KeyedStays
    <2> QED
      BY <1>1, <1>3, <2>2 DEF CanReport
  <1>4. CASE mode # "D"
    <2>1. ~Announced' \/ Some(toS'[e], Final)
      BY <1>2, <1>4 DEF CanReport, Final
    <2>2. Announced => Announced' /\ Thin(toS[e], toS'[e], Final)
      BY AnnouncedSteps
    <2> QED
      BY <1>1, <1>4, <2>1, <2>2 DEF CanReport, Thin
  <1> QED
    BY <1>3, <1>4

\* A share is written by a process that may report, and only so.
LEMMA WritesCanReport ==
  ASSUME SharingInv, FrameInv, PlaceInv, ReportInv, NEW s \in Signer, SignerActs(s), Writes(s),
         toS[s] # <<>>
  PROVE  CanReport(s) /\ Alive(s) /\ Begun(s) /\ (mode = "R" => Announced)
  <1>1. Alive(s) /\ Begun(s)
    BY ProcessNow, AliveBegun DEF Writes, SignerActs, Alive
  <1>2. PICK D, q : D = DownKind(s, mode) /\ q = toS[s]
    OBVIOUS
  <1>3. q \in Seq(D) /\ q # <<>>
    BY <1>2 DEF FrameInv
  <1>4. \A S : Head(q) \in S => Some(q, S)
    BY <1>3, SomeHead
  <1>5. CASE mode = "D"
    <2>1. PICK e \in Signer \ {s} : Head(q) \in Down2(e)
      BY <1>2, <1>5 DEF Writes
    <2>2. Some(toS[s], Down2(e))
      BY <1>2, <1>4, <2>1
    <2>3. e \notin Got2(s)
      BY <2>1, <2>2 DEF PlaceInv, OnePlace
    <2>4. ~Keyed(s)
      BY <1>5, <2>1, <2>3 DEF ReportInv, ReportOf
    <2> QED
      BY <1>1, <1>5, <2>4 DEF CanReport
  <1>6. CASE mode # "D"
    <2>1. Some(toS[s], Final)
      BY <1>2, <1>4, <1>6 DEF Writes
    <2>2. Announced
      BY <2>1 DEF ReportInv, ReportOf
    <2> QED
      BY <1>1, <1>6, <2>1, <2>2 DEF CanReport
  <1> QED
    BY <1>5, <1>6

LEMMA FileChanges ==
  ASSUME NEW s \in Signer, SignerActs(s), keyFile'[s] # keyFile[s]
  PROVE  Writes(s) /\ toS[s] # <<>>
  BY DEF SignerActs, SignerDoes, Rests, Takes1, Sends2, Takes2, Saves, Finalizes, Falls, SameKey

\* A share that has been reported stays.
LEMMA SavedStays ==
  ASSUME SharingInv, FrameInv, PlaceInv, ReportInv, NEW s \in Signer, SignerActs(s),
         NEW d \in Signer, ~CanReport(d)
  PROVE  (Saved(d) => Saved(d)') /\ (Settled(d) => Settled(d)')
  <1>1. CASE d # s
    BY <1>1, OthersSame DEF SameFile
  <1>2. CASE d = s
    <2>1. keyFile'[s] = keyFile[s] /\ run' = run
      BY <1>2, FileChanges, WritesCanReport DEF SignerActs, Steady
    <2> QED
      BY <1>2, <2>1, SameFileIf DEF SameFile
  <1> QED
    BY <1>1, <1>2

\* Once it has been written, s may not report again.
LEMMA ReportedOnce ==
  ASSUME SharingInv, SharingInv', FrameInv, PhaseInv, PlaceInv, ReportInv,
         NEW s \in Signer, SignerActs(s), Saves(s) \/ Finalizes(s)
  PROVE  ~CanReport(s)' /\ CanReport(s) /\ Begun(s) /\ Alive(s)
  <1>1. Writes(s) /\ ~Falls(s)
    BY DEF Saves, Finalizes, Falls, SameSecrets
  <1>2. toS[s] # <<>> /\ toS'[s] = Tail(toS[s])
    BY <1>1, SignerMotion
  <1>3. CanReport(s) /\ Alive(s) /\ Begun(s) /\ (mode = "R" => Announced)
    BY <1>1, <1>2, WritesCanReport
  <1>4. Begun(s)' /\ mode' = mode /\ (Announced => Announced')
    BY <1>3, BegunStays, AnnouncedSteps DEF Moves
  <1>5. CASE Saves(s)
    BY <1>3, <1>4, <1>5 DEF Saves, CanReport
  <1>6. CASE Finalizes(s)
    <2>1. PICK D, S, q : D = DownKind(s, mode) /\ S = Final /\ q = toS[s]
      OBVIOUS
    <2>2. q \in Seq(D) /\ Few(q, S) /\ mode = "R" /\ q # <<>>
      BY <1>2, <1>6, <2>1 DEF FrameInv, ReportInv, ReportOf, Finalizes
    <2>3. Head(q) \in S
      BY <1>1, <2>1, <2>2 DEF Writes
    <2>4. ~Some(Tail(q), S)
      BY <2>2, <2>3, HeadWasOnly
    <2>5. ~Some(toS'[s], Final)
      BY <1>2, <2>1, <2>4
    <2> QED
      BY <1>3, <1>4, <2>2, <2>5 DEF CanReport, Final
  <1> QED
    BY <1>3, <1>5, <1>6

\* The reports under way after a step of s.
LEMMA SignerReports ==
  ASSUME SharingInv, SharingInv', FrameInv, PhaseInv, PlaceInv, ReportInv,
         NEW s \in Signer, SignerActs(s)
  PROVE  \/ Thin(toC[s], toC'[s], Report)
         \/ /\ ~CanReport(s)' /\ CanReport(s) /\ Few(toC'[s], Report)
            /\ mode = "R" => Settled(s)'
  <1>1. CASE ~Saves(s) /\ ~Finalizes(s)
    <2>1. \A f \in Plain : f \notin Report
      BY DEF Plain, Report
    <2>2. Sends2(s) => \A out \in Seq(UpKind(s, mode)) : Round2Out(s, out) => ~Some(out, Report)
      BY DEF Round2Out
    <2> QED
      BY <1>1, <2>1, <2>2, SignerUpThin, ClosedFrame
  <1>2. CASE Saves(s) \/ Finalizes(s)
    <2>1. ~CanReport(s)' /\ CanReport(s)
      BY <1>2, ReportedOnce
    <2>2. PICK U, S, q, x : U = UpKind(s, mode) /\ S = Report /\ q = toC[s] /\ x = toC'[s]
      OBVIOUS
    <2>3. q \in Seq(U) /\ Few(q, S) /\ ~Some(q, S)
      BY <2>1, <2>2 DEF FrameInv, ReportInv, ReportOf
    <2>4. CASE Saves(s)
      <3>1. PICK a \in UpDone \cap U, b \in Report \cap U : x = q \o <<a, b>>
        BY <2>2, <2>4 DEF Saves, Says
      <3>2. PICK out : out = <<a, b>>
        OBVIOUS
      <3>3. out \in Seq(U)
        BY <3>2
      <3>4. Few(out, S)
        <4>1. a \notin S
          BY <2>2 DEF UpDone, Report
        <4> QED
          BY <3>2, <4>1 DEF Few
      <3>5. Few(x, S)
        BY <2>3, <3>1, <3>2, <3>3, <3>4, FewConcat
      <3>6. mode = "D"
        BY <2>4 DEF Saves
      <3> QED
        BY <2>1, <2>2, <3>5, <3>6
    <2>5. CASE Finalizes(s)
      <3>1. CASE x = q
        BY <2>2, <3>1, ThinSame
      <3>2. ASSUME NEW b \in U, x = Append(q, b), Settled(s)'
            PROVE  Few(x, S) /\ Settled(s)'
        BY <2>3, <3>2, SomeAppend
      <3>3. x = q \/ (Settled(s)' /\ \E b \in U : x = Append(q, b))
        BY <2>2, <2>5 DEF Finalizes
      <3> QED
        BY <2>1, <2>2, <3>1, <3>2, <3>3
    <2> QED
      BY <1>2, <2>4, <2>5
  <1> QED
    BY <1>1, <1>2

LEMMA SignerSpent ==
  ASSUME SharingInv, SharingInv', FrameInv, PhaseInv, PlaceInv, ReportInv,
         NEW s \in Signer, SignerActs(s), NEW d \in Signer, Spent(d)
  PROVE  Spent(d)'
  <1>1. ~CanReport(d) /\ ~Some(toC[d], Report) /\ (mode = "R" => Settled(d))
    BY DEF Spent
  <1>2. ~CanReport(d)' /\ mode' = mode
    BY <1>1, CanReportStays, AnnouncedSteps DEF Moves
  <1>3. mode = "R" => Settled(d)'
    BY <1>1, SavedStays
  <1>4. ~Some(toC'[d], Report)
    <2>1. CASE d # s
      BY <1>1, <2>1, OthersSame
    <2>2. CASE d = s
      BY <1>1, <2>2, SignerReports DEF Thin
    <2> QED
      BY <2>1, <2>2
  <1> QED
    BY <1>2, <1>3, <1>4 DEF Spent, Report

\* Nothing is added.
LEMMA ReportKept ==
  ASSUME NEW d \in Signer, ReportOf(d), mode' = mode, CanReport(d)' => CanReport(d),
         Thin(toC[d], toC'[d], Report), Thin(toS[d], toS'[d], Final),
         Announced' <=> Announced, running' => running, SameFile(d),
         Keyed(d)' => Keyed(d) /\ Got2(d)' = Got2(d),
         Done2(d)' => Done2(d),
         running' /\ (Alive(d)' \/ Some(toC'[d], UpDone)) =>
           (Alive(d) \/ Some(toC[d], UpDone)) /\ (entry[d].r2Complete => entry'[d].r2Complete)
  PROVE  ReportOf(d)'
  <1>1. Some(toC'[d], Report) => ~CanReport(d)' /\ (mode' = "R" => Settled(d)')
    BY DEF ReportOf, Thin, SameFile
  <1>2. Few(toC'[d], Report) /\ Few(toS'[d], Final) /\ (Some(toS'[d], Final) => Announced')
    BY DEF ReportOf, Thin
  <1>3. /\ mode' = "D" /\ Keyed(d)' => Got2(d)' = Signer \ {d}
        /\ mode' = "R" /\ Saved(d)' => Announced'
    BY DEF ReportOf, SameFile
  <1>4. Announced' /\ running' /\ (Alive(d)' \/ Some(toC'[d], UpDone)) => entry'[d].r2Complete
    BY DEF ReportOf
  <1>5. mode' = "D" /\ (Done2(d)' \/ Announced') =>
          ~CanReport(d)' /\ (d \in MayFail \/ Saved(d)')
    BY DEF ReportOf, SameFile
  <1> QED
    BY <1>1, <1>2, <1>3, <1>4, <1>5 DEF ReportOf, Report, Final, UpDone

LEMMA SignerReportOf ==
  ASSUME SharingInv, SharingInv', FrameInv, PhaseInv, PlaceInv, ReportInv,
         NEW s \in Signer, SignerActs(s)
  PROVE  ReportOf(s)'
  <1>1. ReportOf(s) /\ UNCHANGED <<run, mode, dkgState, entry, running>> /\ Moves
    BY DEF ReportInv, SignerActs, Steady, Moves
  <1>2. /\ CanReport(s)' => CanReport(s)
        /\ Announced' <=> Announced
        /\ Thin(toS[s], toS'[s], Final)
    BY <1>1, CanReportStays, SignerThin DEF Announced
  <1>3. ~CanReport(s) => (Saved(s) => Saved(s)') /\ (Settled(s) => Settled(s)')
    BY SavedStays
  <1>4. /\ Some(toC'[s], Report) => ~CanReport(s)' /\ (mode = "R" => Settled(s)')
        /\ Few(toC'[s], Report)
    BY <1>1, <1>2, <1>3, SignerReports DEF Thin, ReportOf
  <1>5. Few(toS'[s], Final) /\ (Some(toS'[s], Final) => Announced')
    BY <1>1, <1>2 DEF ReportOf, Thin
  <1>6. ASSUME mode = "D", Keyed(s)' PROVE Got2(s)' = Signer \ {s}
    <2>1. SignerDoes(s) /\ ~Falls(s)
      BY <1>6 DEF SignerActs, SignerDoes, Falls
    <2>2. CASE Saves(s)
      BY <2>2 DEF Saves
    <2>3. CASE Takes2(s)
      <3>1. Keyed(s)
        BY <1>6, <2>3 DEF Takes2, SameKey, Keyed
      <3> QED
        BY <1>1, <1>6, <2>3, <3>1 DEF Takes2, ReportOf
    <2>4. CASE Rests(s) \/ Takes1(s) \/ Sends2(s)
      <3>1. Keyed(s) /\ Got2(s)' = Got2(s)
        BY <1>6, <2>4 DEF Rests, Takes1, Sends2, SameKey, Keyed
      <3> QED
        BY <1>1, <1>6, <3>1 DEF ReportOf
    <2> QED
      BY <1>6, <2>1, <2>2, <2>3, <2>4 DEF SignerDoes, Finalizes
  <1>7. CASE Sends2(s) \/ Saves(s)
    <2>1. Alive(s)
      BY <1>7, Sends2Once, ReportedOnce
    <2>2. Announced' /\ running' => entry'[s].r2Complete
      BY <1>1, <1>2, <2>1 DEF ReportOf
    <2>3. ASSUME mode = "D", Done2(s)' \/ Announced'
          PROVE  ~CanReport(s)' /\ (s \in MayFail \/ Saved(s)')
      <3>1. CASE Saves(s)
        BY <3>1, ReportedOnce DEF Saves
      <3>2. CASE ~Saves(s)
        <4>1. /\ \A f \in Plain \cup Report : f \notin UpDone
              /\ \A out \in Seq(UpKind(s, mode)) : Round2Out(s, out) => ~Some(out, UpDone)
          BY <2>3 DEF Plain, Report, UpDone, Round2Out
        <4>2. Thin(toC[s], toC'[s], UpDone)
          BY <3>2, <4>1, SignerUpThin, ClosedFrame
        <4>3. Done2(s) \/ Announced
          BY <1>1, <1>2, <2>3, <4>2 DEF Done2, Thin, UpDone
        <4> QED
          BY <1>1, <1>2, <1>3, <2>3, <4>3 DEF ReportOf
      <3> QED
        BY <3>1, <3>2
    <2>4. mode = "R" /\ Saved(s)' => Announced'
      <3>1. CASE Saved(s)
        BY <1>1, <1>2, <3>1 DEF ReportOf
      <3>2. CASE ~Saved(s) /\ Saved(s)'
        <4>1. keyFile'[s] # keyFile[s]
          BY <1>1, <3>2 DEF Saved, Part
        <4> QED
          BY <1>2, <4>1, FileChanges, WritesCanReport
      <3> QED
        BY <3>1, <3>2
    <2> QED
      BY <1>1, <1>4, <1>5, <1>6, <2>2, <2>3, <2>4 DEF ReportOf, Report, Final, UpDone
  <1>8. CASE ~Sends2(s) /\ ~Saves(s)
    <2>1. \A f \in Plain \cup Report : f \notin UpDone
      BY DEF Plain, Report, UpDone
    <2>2. Thin(toC[s], toC'[s], UpDone)
      BY <1>8, <2>1, SignerUpThin, ClosedFrame
    <2>3. Done2(s)' => Done2(s)
      BY <1>1, <2>2 DEF Done2, Thin, UpDone
    <2>4. ASSUME Announced', running', Alive(s)' \/ Some(toC'[s], UpDone) PROVE entry'[s].r2Complete
      <3>1. Begun(s)
        BY <1>2, <2>4 DEF PhaseInv, InRound2, Announced
      <3>2. Alive(s) \/ Some(toC[s], UpDone)
        BY <1>1, <2>2, <2>4, <3>1, AliveStays DEF Thin
      <3> QED
        BY <1>1, <1>2, <2>4, <3>2 DEF ReportOf
    <2>5. ASSUME mode = "D", Done2(s)' \/ Announced'
          PROVE  ~CanReport(s)' /\ (s \in MayFail \/ Saved(s)')
      BY <1>1, <1>2, <1>3, <2>3, <2>5 DEF ReportOf
    <2>6. mode = "R" /\ Saved(s)' => Announced'
      <3>1. CASE Saved(s)
        BY <1>1, <1>2, <3>1 DEF ReportOf
      <3>2. CASE ~Saved(s) /\ Saved(s)'
        <4>1. keyFile'[s] # keyFile[s]
          BY <1>1, <3>2 DEF Saved, Part
        <4> QED
          BY <1>2, <4>1, FileChanges, WritesCanReport
      <3> QED
        BY <3>1, <3>2
    <2> QED
      BY <1>1, <1>4, <1>5, <1>6, <2>4, <2>5, <2>6 DEF ReportOf, Report, Final, UpDone
  <1> QED
    BY <1>7, <1>8

\* The count does not move, and what was spent stays so.
LEMMA CountKept ==
  ASSUME ReportInv, StateOK, count' = count, done' => done,
         \A d \in Signer : Spent(d) => Spent(d)'
  PROVE  /\ done' => \A d \in Signer : Spent(d)'
         /\ count' <= Cardinality({d \in Signer : Spent(d)'})
  <1>1. done' => \A d \in Signer : Spent(d)'
    BY DEF ReportInv
  <1>2. PICK A, B : A = {d \in Signer : Spent(d)} /\ B = {d \in Signer : Spent(d)'}
    OBVIOUS
  <1>3. A \subseteq B /\ B \subseteq Signer /\ count <= Cardinality(A)
    BY <1>2 DEF ReportInv
  <1>4. IsFiniteSet(Signer)
    BY PolyFacts, FS_Interval
  <1>5. IsFiniteSet(B) /\ IsFiniteSet(A)
    BY <1>3, <1>4, FS_Subset
  <1>6. Cardinality(A) <= Cardinality(B) /\ Cardinality(A) \in Nat /\ Cardinality(B) \in Nat
    BY <1>3, <1>5, FS_Subset, FS_CardinalityType
  <1>7. count' <= Cardinality(B)
    BY <1>3, <1>6 DEF StateOK
  <1> QED
    BY <1>1, <1>2, <1>7

LEMMA SignerReport ==
  ASSUME SharingInv, SharingInv', FrameInv, PhaseInv, PlaceInv, ReportInv,
         NEW s \in Signer, SignerActs(s)
  PROVE  ReportInv'
  <1>1. UNCHANGED <<run, mode, dkgState, entry, count, done, running>> /\ Moves
    BY DEF SignerActs, Steady, Moves
  <1>2. ASSUME NEW d \in Signer PROVE ReportOf(d)'
    <2>1. CASE d = s
      BY <2>1, SignerReportOf
    <2>2. CASE d # s
      <3>1. /\ ReportOf(d) /\ (CanReport(d)' => CanReport(d)) /\ (Announced' <=> Announced)
        BY <1>1, CanReportStays DEF ReportInv, Announced
      <3>2. Thin(toC[d], toC'[d], Report) /\ Thin(toS[d], toS'[d], Final)
        BY <2>2, OthersSame, ThinSame
      <3> QED
        BY <1>1, <2>2, <3>1, <3>2, OthersSame, ReportKept DEF SameProcess
    <2> QED
      BY <2>1, <2>2
  <1>3. \A d \in Signer : Spent(d) => Spent(d)'
    BY SignerSpent
  <1>4. /\ done' => \A d \in Signer : Spent(d)'
        /\ count' <= Cardinality({d \in Signer : Spent(d)'})
    BY <1>1, <1>3, CountKept DEF SharingInv
  <1> QED
    BY <1>2, <1>4 DEF ReportInv

\* Steps that leave processes and files alone.
LEMMA SpentKept ==
  ASSUME NEW d \in Signer, mode' = mode, CanReport(d)' => CanReport(d), SameFile(d),
         Thin(toC[d], toC'[d], Report), Spent(d)
  PROVE  Spent(d)'
  BY DEF Spent, Thin, Report, SameFile

LEMMA HandlesSame ==
  ASSUME NEW s \in Signer, Handles(s), NEW d \in Signer
  PROVE  SameProcess(d) /\ SameFile(d) /\ mode' = mode /\ running' = running
  BY SameProcessIf, SameFileIf DEF Handles

LEMMA CoordinatorReportOf ==
  ASSUME SharingInv, SharingInv', FrameInv, PhaseInv, ReportInv, NEW s \in Signer,
         Handles(s), CoordinatorDoes(s), NEW d \in Signer
  PROVE  ReportOf(d)'
  <1>1. /\ ReportOf(d) /\ Moves
    BY DEF ReportInv, Moves
  <1>2. /\ SameProcess(d) /\ SameFile(d) /\ mode' = mode /\ running' = running
        /\ CanReport(d)' => CanReport(d)
    BY <1>1, HandlesSame, CanReportStays
  <1>3. Thin(toC[d], toC'[d], Report) /\ Thin(toC[d], toC'[d], UpDone)
    BY HandlesThin
  <1>4. entry[d].r2Complete => entry'[d].r2Complete
    BY DEF CoordinatorDoes, Ignores, Relays1, Passes2, NotesDone, Announces, Counts, Removes, SameDone
  <1>5. CASE ~Announces(s)
    <2>1. \A f \in Final : /\ f.type \notin {"RELAY_R1", "RELAY_REFRESH_R1", "REFRESH_CONFIRMED"}
                           /\ f \notin Down2(s)
      BY DEF Final, Down2
    <2>2. Thin(toS[d], toS'[d], Final)
      BY <1>5, <2>1, CoordinatorThin
    <2>3. Announced' <=> Announced
      BY <1>5, CoordinatorMoves DEF Announced
    <2>4. Done2(d)' => Done2(d)
      BY <1>5, CoordinatorDone
    <2> QED
      BY <1>1, <1>2, <1>3, <1>4, <2>2, <2>3, <2>4, ReportKept DEF SameProcess, Thin
  <1>6. CASE Announces(s)
    <2>1. Announced' /\ ~Announced /\ entry'[d].r2Complete
      BY <1>6, AnnouncesOnce DEF Announces, Announced
    <2>2. Done2(d)
      <3>1. Some(toC[s], UpDone)
        BY <1>6, NextIs DEF Announces, Handles
      <3> QED
        BY <1>6, <3>1 DEF Announces, Done2
    <2>3. Few(toS'[d], Final)
      <3>1. PICK D, S, q : D = DownKind(d, mode) /\ S = Final /\ q = toS[d]
        OBVIOUS
      <3>2. q \in Seq(D) /\ Few(q, S) /\ ~Some(q, S)
        BY <1>1, <2>1, <3>1 DEF FrameInv, ReportOf
      <3>3. PICK g \in D : toS'[d] = Append(q, g)
        BY <1>6, <3>1 DEF Announces
      <3>4. Few(Append(q, g), S)
        BY <3>2, SomeAppend
      <3> QED
        BY <3>1, <3>3, <3>4
    <2>4. /\ Some(toC'[d], Report) => ~CanReport(d)' /\ (mode' = "R" => Settled(d)')
          /\ Few(toC'[d], Report)
      BY <1>1, <1>2, <1>3 DEF ReportOf, Thin, SameFile
    <2>5. mode' = "D" /\ Keyed(d)' => Got2(d)' = Signer \ {d}
      BY <1>1, <1>2 DEF ReportOf, SameProcess
    <2>6. mode' = "D" => ~CanReport(d)' /\ (d \in MayFail \/ Saved(d)')
      BY <1>1, <1>2, <2>2 DEF ReportOf, SameFile
    <2> QED
      BY <2>1, <2>3, <2>4, <2>5, <2>6 DEF ReportOf, Report, Final, UpDone
  <1> QED
    BY <1>5, <1>6

\* A report is counted when it was not before.
LEMMA CountsReport ==
  ASSUME SharingInv, SharingInv', FrameInv, PhaseInv, ReportInv, NEW s \in Signer,
         Handles(s), Counts(s), \A d \in Signer : Spent(d) => Spent(d)'
  PROVE  /\ done' => \A d \in Signer : Spent(d)'
         /\ count' <= Cardinality({d \in Signer : Spent(d)'})
  <1>1. PICK U, S, q : U = UpKind(s, mode) /\ S = Report /\ q = toC[s]
    OBVIOUS
  <1>2. q \in Seq(U) /\ Few(q, S) /\ q # <<>> /\ Head(q) \in S /\ toC'[s] = Tail(q)
    BY <1>1 DEF FrameInv, ReportInv, ReportOf, Handles, Counts
  <1>3. ~Some(Tail(q), S) /\ Some(q, S)
    BY <1>2, HeadWasOnly
  <1>4. ~CanReport(s) /\ (mode = "R" => Settled(s)) /\ ~Spent(s)
    BY <1>1, <1>3 DEF ReportInv, ReportOf, Spent
  <1>5. Spent(s)'
    <2>1. Moves
      BY DEF Moves, CoordinatorDoes
    <2>2. ~CanReport(s)' /\ mode' = mode /\ (Settled(s)' <=> Settled(s))
      BY <1>4, <2>1, CanReportStays, HandlesSame DEF SameFile
    <2>3. ~Some(toC'[s], Report)
      BY <1>1, <1>2, <1>3
    <2> QED
      BY <1>4, <2>2, <2>3 DEF Spent, Report
  <1>6. PICK A, B : A = {d \in Signer : Spent(d)} /\ B = {d \in Signer : Spent(d)'}
    OBVIOUS
  <1>7. A \cup {s} \subseteq B /\ s \notin A /\ B \subseteq Signer /\ count <= Cardinality(A)
    BY <1>4, <1>5, <1>6 DEF ReportInv
  <1>8. IsFiniteSet(Signer)
    BY PolyFacts, FS_Interval
  <1>9. IsFiniteSet(A) /\ IsFiniteSet(B)
    BY <1>6, <1>7, <1>8, FS_Subset
  <1>10. IsFiniteSet(A \cup {s}) /\ Cardinality(A \cup {s}) = Cardinality(A) + 1
    BY <1>7, <1>9, FS_AddElement
  <1>11. /\ Cardinality(A \cup {s}) <= Cardinality(B)
         /\ Cardinality(A) \in Nat /\ Cardinality(B) \in Nat
    BY <1>7, <1>9, FS_Subset, FS_CardinalityType
  <1>12. count \in Nat /\ count' = count + 1
    BY DEF SharingInv, StateOK, Counts
  <1>13. count' <= Cardinality(B)
    BY <1>7, <1>10, <1>11, <1>12
  <1>14. ASSUME done' PROVE \A d \in Signer : Spent(d)'
    <2>1. done \/ count + 1 >= N
      BY <1>14 DEF Counts
    <2>2. CASE done
      BY <2>2 DEF ReportInv
    <2>3. CASE count + 1 >= N
      <3>1. Cardinality(B) >= N
        BY <1>11, <1>12, <1>13, <2>3, PolyFacts
      <3>2. B = Signer
        BY <1>7, <3>1, FullSet
      <3> QED
        BY <1>6, <3>2
    <2> QED
      BY <2>1, <2>2, <2>3
  <1> QED
    BY <1>6, <1>13, <1>14

LEMMA CoordinatorReport ==
  ASSUME SharingInv, SharingInv', FrameInv, PhaseInv, ReportInv, NEW s \in Signer,
         Handles(s), CoordinatorDoes(s)
  PROVE  ReportInv'
  <1>1. \A d \in Signer : ReportOf(d)'
    BY CoordinatorReportOf
  <1>2. ASSUME NEW d \in Signer, Spent(d) PROVE Spent(d)'
    <2>1. /\ SameFile(d) /\ mode' = mode
          /\ CanReport(d)' => CanReport(d)
          /\ Thin(toC[d], toC'[d], Report)
      BY HandlesSame, CanReportStays, HandlesThin DEF Moves
    <2> QED
      BY <1>2, <2>1, SpentKept
  <1>3. CASE Counts(s)
    <2>1. /\ done' => \A d \in Signer : Spent(d)'
          /\ count' <= Cardinality({d \in Signer : Spent(d)'})
      BY <1>2, <1>3, CountsReport
    <2> QED
      BY <1>1, <2>1 DEF ReportInv
  <1>4. CASE ~Counts(s)
    <2>1. count' = count /\ done' = done
      BY <1>4 DEF CoordinatorDoes, Ignores, Relays1, Passes2, NotesDone, Announces, Removes
    <2>2. /\ done' => \A d \in Signer : Spent(d)'
          /\ count' <= Cardinality({d \in Signer : Spent(d)'})
      BY <1>2, <2>1, CountKept DEF SharingInv
    <2> QED
      BY <1>1, <2>2 DEF ReportInv
  <1> QED
    BY <1>3, <1>4

LEMMA ConnectsReport ==
  ASSUME SharingInv, SharingInv', FrameInv, ReportInv, NEW s \in Signer, Connects(s)
  PROVE  ReportInv'
  <1>1. /\ UNCHANGED <<mode, count, done, running>> /\ Moves /\ (Announced' <=> Announced)
    BY DEF Connects, Moves, Announced
  <1>2. \A f \in Opener : f \notin Final
    BY DEF Opener, Final
  <1>3. ASSUME NEW d \in Signer
        PROVE  /\ Thin(toC[d], toC'[d], Report) /\ Thin(toS[d], toS'[d], Final)
               /\ CanReport(d)' => CanReport(d)
               /\ SameFile(d)
    BY <1>1, <1>2, ConnectsThin, CanReportStays, ConnectedBlank
  <1>4. ASSUME NEW d \in Signer PROVE ReportOf(d)'
    <2>1. ReportOf(d)
      BY DEF ReportInv
    <2>2. CASE d = s
      <3>1. ~Some(toC'[s], UpDone)
        BY ConnectedBlank, NoneIn
      <3> QED
        BY <1>1, <1>3, <2>1, <2>2, <3>1, ConnectedBlank, ReportKept
    <2>3. CASE d # s
      <3>1. entry'[d] = entry[d]
        BY <2>3 DEF Connects
      <3> QED
        BY <1>1, <1>3, <2>1, <2>3, <3>1, ConnectedBlank, ReportKept DEF SameProcess
    <2> QED
      BY <2>2, <2>3
  <1>5. \A d \in Signer : Spent(d) => Spent(d)'
    BY <1>1, <1>3, SpentKept
  <1>6. /\ done' => \A d \in Signer : Spent(d)'
        /\ count' <= Cardinality({d \in Signer : Spent(d)'})
    BY <1>1, <1>5, CountKept DEF SharingInv
  <1> QED
    BY <1>4, <1>6 DEF ReportInv

LEMMA StopsReport ==
  ASSUME SharingInv, SharingInv', FrameInv, ReportInv, Stops
  PROVE  ReportInv'
  <1>1. /\ UNCHANGED <<mode, count, done>> /\ running' = FALSE /\ Moves /\ (Announced' <=> Announced)
    BY DEF Stops, Moves, Announced
  <1>2. ASSUME NEW d \in Signer
        PROVE  /\ Thin(toC[d], toC'[d], Report) /\ Thin(toS[d], toS'[d], Final)
               /\ CanReport(d)' => CanReport(d)
               /\ SameFile(d)
    BY <1>1, StopsSame, ThinSame, StopsThin, ClosedFrame, CanReportStays
  <1>3. ASSUME NEW d \in Signer PROVE ReportOf(d)'
    <2>1. ReportOf(d)
      BY DEF ReportInv
    <2> QED
      BY <1>1, <1>2, <2>1, StopsSame, ReportKept DEF SameProcess
  <1>4. \A d \in Signer : Spent(d) => Spent(d)'
    BY <1>1, <1>2, SpentKept
  <1>5. /\ done' => \A d \in Signer : Spent(d)'
        /\ count' <= Cardinality({d \in Signer : Spent(d)'})
    BY <1>1, <1>4, CountKept DEF SharingInv
  <1> QED
    BY <1>3, <1>5 DEF ReportInv

LEMMA BlankReport == SharingInv /\ Blank => ReportInv
  <1> SUFFICES ASSUME SharingInv, Blank PROVE ReportInv
    OBVIOUS
  <1>1. ~Announced /\ ~done /\ count = 0
    BY DEF Blank, Announced
  <1>2. \A s \in Signer : ReportOf(s)
    BY <1>1, BlankViews, NoneIn DEF ReportOf
  <1>3. PICK A : A = {s \in Signer : Spent(s)}
    OBVIOUS
  <1>4. IsFiniteSet(Signer)
    BY PolyFacts, FS_Interval
  <1>5. Cardinality(A) \in Nat
    BY <1>3, <1>4, FS_Subset, FS_CardinalityType
  <1> QED
    BY <1>1, <1>2, <1>3, <1>5 DEF ReportInv

LEMMA ReportNext ==
  ASSUME SharingInv, SharingInv', FrameInv, PhaseInv, PlaceInv, ReportInv, Acts
  PROVE  ReportInv'
  <1>1. CASE Blank'
    <2>1. (SharingInv /\ Blank => ReportInv)'
      BY BlankReport, PTL
    <2> QED
      BY <1>1, <2>1
  <1>2. CASE UNCHANGED vars
    <2>1. UNCHANGED <<signer, keyFile, toC, toS, run, mode, dkgState, entry, count, done, running>>
      BY <1>2 DEF vars, coordVars
    <2>2. \A d \in Signer : (CanReport(d)' <=> CanReport(d)) /\ SameProcess(d)
      BY <2>1, SameProcessIf DEF CanReport, Begun, Pending, SameProcess, Announced, Final
    <2>3. \A d \in Signer : /\ SameFile(d) /\ (Done2(d)' <=> Done2(d))
                            /\ Thin(toC[d], toC'[d], Report) /\ Thin(toS[d], toS'[d], Final)
      BY <2>1, ThinSame, SameFileIf DEF Done2, UpDone
    <2>4. Announced' <=> Announced
      BY <2>1 DEF Announced
    <2>5. ASSUME NEW d \in Signer PROVE ReportOf(d)'
      <3>1. ReportOf(d)
        BY DEF ReportInv
      <3> QED
        BY <2>1, <2>2, <2>3, <2>4, <3>1, ReportKept DEF SameProcess
    <2>6. \A d \in Signer : Spent(d) => Spent(d)'
      BY <2>1, <2>2, <2>3, SpentKept
    <2>7. /\ done' => \A d \in Signer : Spent(d)'
          /\ count' <= Cardinality({d \in Signer : Spent(d)'})
      BY <2>1, <2>6, CountKept DEF SharingInv
    <2> QED
      BY <2>5, <2>7 DEF ReportInv
  <1> QED
    BY <1>1, <1>2, SignerReport, CoordinatorReport, ConnectsReport, StopsReport DEF Acts

-----------------------------------------------------------------------------
(* No package of a refresh is overtaken by the notices that follow it.     *)

\* Also for a signer that draws its polynomial in this step: until all have
\* begun there are no notices.
LEMMA DeliveryNow ==
  ASSUME SharingInv, PhaseInv, DeliveryInv, Moves, mode = "R", running,
         NEW e \in Signer, NEW d \in Signer, e # d, Alive(d)'
  PROVE  Delivery(e, d)
  <1>1. CASE Begun(d)
    <2>1. Alive(d)
      BY <1>1, AliveStays
    <2> QED
      BY <2>1 DEF DeliveryInv
  <1>2. CASE ~Begun(d)
    <2>1. ~InRound2
      BY <1>2 DEF PhaseInv
    <2>2. ~Done2(e)
      BY <2>1 DEF PhaseInv, PhaseOf
    <2>3. Ahead(toC[e], Up2(d), UpDone)
      BY <2>2, NoneAhead DEF Done2
    <2> QED
      BY <2>1, <2>2, <2>3 DEF Delivery, Done2, InRound2, Announced
  <1> QED
    BY <1>1, <1>2

LEMMA SignerReach ==
  ASSUME FrameInv, mode = "R", NEW s \in Signer, SignerActs(s),
         NEW e \in Signer, NEW d \in Signer, signer'[d].up, Reach(e, d)
  PROVE  Reach(e, d)'
  <1>1. CASE d # s
    <2>1. toS'[d] = toS[d] /\ Got2(d)' = Got2(d)
      BY <1>1, OthersSame DEF SameProcess
    <2> QED
      BY <2>1 DEF Reach, Down2
  <1>2. CASE d = s
    <2>1. toS[d] # <<>> /\ toS'[d] = Tail(toS[d]) /\ SignerDoes(d) /\ ~Falls(d)
      BY <1>2, SignerMotion DEF Falls
    <2>2. ~Saves(d)
      BY DEF Saves
    <2>3. /\ \A c \in Signer : \A f \in Down1(c) \cup Final : f \notin Down2(e)
          /\ \A c \in Signer : \A f \in Down2(c) : c # e => f \notin Down2(e)
      BY DEF Down1, Down2, Final
    <2>4. /\ Got2(d) \subseteq Got2(d)'
          /\ e \in Got2(d)' \/ Head(toS[d]) \notin Down2(e)
      <3>1. CASE Rests(d)
        BY <3>1 DEF Rests
      <3>2. CASE Takes1(d)
        BY <2>3, <3>2 DEF Takes1
      <3>3. CASE Sends2(d)
        BY <2>3, <3>3 DEF Sends2
      <3>4. CASE Takes2(d)
        BY <2>3, <3>4 DEF Takes2
      <3>5. CASE Finalizes(d)
        <4>1. Head(toS[d]) \in Final /\ Got2(d)' = Got2(d)
          BY <3>5 DEF Finalizes, Writes
        <4> QED
          BY <2>3, <4>1
      <3> QED
        BY <2>1, <2>2, <3>1, <3>2, <3>3, <3>4, <3>5 DEF SignerDoes
    <2>5. PICK D, S, q : D = DownKind(d, mode) /\ S = Down2(e) /\ q = toS[d]
      OBVIOUS
    <2>6. q \in Seq(D) /\ q # <<>>
      BY <2>1, <2>5 DEF FrameInv
    <2>7. Some(q, S) /\ Head(q) \notin S => Some(Tail(q), S)
      BY <2>6, SomeTail
    <2>8. Some(toS[d], Down2(e)) /\ Head(toS[d]) \notin Down2(e) => Some(toS'[d], Down2(e))
      BY <2>1, <2>5, <2>7
    <2> QED
      BY <2>4, <2>8 DEF Reach, Down2
  <1> QED
    BY <1>1, <1>2

LEMMA SignerAhead ==
  ASSUME FrameInv, mode = "R", NEW s \in Signer, SignerActs(s),
         NEW e \in Signer, NEW d \in Signer, e # d, Ahead(toC[e], Up2(d), UpDone)
  PROVE  Ahead(toC'[e], Up2(d), UpDone)
  <1>1. CASE e # s
    <2>1. toC'[e] = toC[e]
      BY <1>1, OthersSame
    <2> QED
      BY <2>1
  <1>2. CASE e = s
    <2>1. PICK U, A, B, q, x : /\ U = UpKind(s, mode) /\ A = Up2(d) /\ B = UpDone
                               /\ q = toC[s] /\ x = toC'[s]
      OBVIOUS
    <2>2. q \in Seq(U) /\ Closed \in U /\ Ahead(q, A, B)
      BY <1>2, <2>1, ClosedFrame DEF FrameInv
    <2>3. \A out \in Seq(U) : Ahead(out, A, B) => Ahead(q \o out, A, B)
      BY <2>2, AheadConcat
    <2>4. \A f \in Plain \cup Report \cup {Closed} : f \notin B
      BY <2>1, ClosedFrame DEF Plain, Report, UpDone
    <2>5. \A k \in 0..Len(q) : Ahead(Append(SubSeq(q, 1, k), Closed), A, B)
      BY <2>2, <2>4, AheadCut
    <2>6. CASE Rests(s)
      <3>1. PICK out \in Seq(Plain \cap U) : x = q \o out
        BY <2>1, <2>6 DEF Rests, Says
      <3>2. out \in Seq(U)
        BY SeqMono
      <3>3. ~Some(out, B)
        BY <2>4, NoneOf
      <3>4. Ahead(x, A, B)
        BY <2>3, <3>1, <3>2, <3>3, NoneAhead
      <3> QED
        BY <1>2, <2>1, <3>4
    <2>7. CASE Takes1(s) \/ Takes2(s)
      <3>1. x = q
        BY <2>1, <2>7 DEF Takes1, Takes2
      <3> QED
        BY <1>2, <2>1, <2>2, <3>1
    <2>8. CASE Sends2(s)
      <3>1. PICK out \in Seq(U) : x = q \o out /\ Ahead(out, A, B)
        BY <1>2, <2>1, <2>8 DEF Sends2, Says, Round2Out
      <3>2. Ahead(x, A, B)
        BY <2>3, <3>1
      <3> QED
        BY <1>2, <2>1, <3>2
    <2>9. CASE Finalizes(s)
      <3>1. x = q \/ \E b \in Report \cap U : x = Append(q, b)
        BY <2>1, <2>9 DEF Finalizes
      <3>2. ASSUME NEW b \in Report \cap U PROVE Ahead(Append(q, b), A, B)
        <4>1. PICK out \in Seq(U) : out = <<b>>
          BY <2>2, AppendIsConcat
        <4>2. Append(q, b) = q \o out /\ ~Some(out, B)
          BY <2>2, <2>4, <4>1, AppendIsConcat
        <4> QED
          BY <2>3, <4>2, NoneAhead
      <3>3. Ahead(x, A, B)
        BY <2>2, <3>1, <3>2
      <3> QED
        BY <1>2, <2>1, <3>3
    <2>10. CASE Falls(s)
      <3>1. x = q \/ \E k \in 0..Len(q) : x = Append(SubSeq(q, 1, k), Closed)
        BY <2>1, <2>10 DEF Falls
      <3>2. Ahead(x, A, B)
        BY <2>2, <2>5, <3>1
      <3> QED
        BY <1>2, <2>1, <3>2
    <2>11. ~Saves(s)
      BY DEF Saves
    <2> QED
      BY <2>6, <2>7, <2>8, <2>9, <2>10, <2>11, SignerMotion DEF SignerDoes
  <1> QED
    BY <1>1, <1>2

LEMMA SignerDelivery ==
  ASSUME SharingInv, FrameInv, PhaseInv, DeliveryInv, NEW s \in Signer, SignerActs(s)
  PROVE  DeliveryInv'
  <1>1. UNCHANGED <<mode, running, entry, dkgState>>
    BY DEF SignerActs, Steady
  <1> SUFFICES ASSUME mode = "R", running, NEW e \in Signer, NEW d \in Signer, e # d, Alive(d)'
               PROVE  Delivery(e, d)'
    BY <1>1 DEF DeliveryInv
  <1>2. Delivery(e, d)
    BY DeliveryNow DEF Moves
  <1>3. Reach(e, d) => Reach(e, d)'
    BY SignerReach DEF Alive
  <1>4. Ahead(toC[e], Up2(d), UpDone) => Ahead(toC'[e], Up2(d), UpDone)
    BY SignerAhead
  <1> QED
    BY <1>1, <1>2, <1>3, <1>4 DEF Delivery, Announced, Up2, UpDone

\* The coordinator takes no frame back from a signer whose connection is up.
LEMMA CoordinatorReach ==
  ASSUME FrameInv, NEW s \in Signer, Handles(s), CoordinatorDoes(s),
         NEW e \in Signer, NEW d \in Signer, ~Some(toC[d], UpEnd), Reach(e, d)
  PROVE  Reach(e, d)'
  <1>1. Got2(d)' = Got2(d)
    BY SameProcessIf DEF Handles, SameProcess
  <1>2. PICK D, S, q, x : D = DownKind(d, mode) /\ S = Down2(e) /\ q = toS[d] /\ x = toS'[d]
    OBVIOUS
  <1>3. q \in Seq(D)
    BY <1>2 DEF FrameInv
  <1>4. x = q \/ (\E g \in D : x = Append(q, g)) \/ \E out \in Seq(D) : x = q \o out
    <2>1. CASE Ignores(s) \/ NotesDone(s)
      BY <1>2, <2>1 DEF Ignores, NotesDone
    <2>2. CASE Relays1(s)
      BY <1>2, <2>2 DEF Relays1
    <2>3. CASE Passes2(s)
      <3>1. PICK c \in Listed \ {s} :
              /\ \E g \in Down2(s) \cap DownKind(c, mode) : toS'[c] = Append(toS[c], g)
              /\ \A b \in Signer \ {c} : toS'[b] = toS[b]
        BY <2>3 DEF Passes2
      <3> QED
        BY <1>2, <3>1
    <2>4. CASE Announces(s)
      BY <1>2, <2>4 DEF Announces
    <2>5. CASE Counts(s)
      BY <1>2, <2>5 DEF Counts
    <2>6. CASE Removes(s)
      <3>1. d # s
        BY <2>6, NextIs DEF Removes, Handles
      <3> QED
        BY <1>2, <2>6, <3>1 DEF Removes
    <2> QED
      BY <2>1, <2>2, <2>3, <2>4, <2>5, <2>6 DEF CoordinatorDoes
  <1>5. Some(q, S) => Some(x, S)
    <2>1. \A g \in D : Some(q, S) => Some(Append(q, g), S)
      BY <1>3, SomeAppend
    <2>2. \A out \in Seq(D) : Some(q, S) => Some(q \o out, S)
      BY <1>3, SomeConcat
    <2> QED
      BY <1>4, <2>1, <2>2
  <1>6. Some(toS[d], Down2(e)) => Some(toS'[d], Down2(e))
    BY <1>2, <1>5
  <1> QED
    BY <1>1, <1>6 DEF Reach, Down2

LEMMA CoordinatorDelivers ==
  ASSUME FrameInv, NEW s \in Signer, Handles(s), CoordinatorDoes(s),
         NEW d \in Signer, d # s, d \in Listed, Ahead(toC[s], Up2(d), UpDone)
  PROVE  /\ Reach(s, d)' \/ Ahead(toC'[s], Up2(d), UpDone)
         /\ ~NotesDone(s) /\ ~Announces(s)
  <1>1. PICK U, A, B, q : U = UpKind(s, mode) /\ A = Up2(d) /\ B = UpDone /\ q = toC[s]
    OBVIOUS
  <1>2. q \in Seq(U) /\ q # <<>> /\ toC'[s] = Tail(q) /\ Ahead(q, A, B)
    BY <1>1 DEF FrameInv, Handles
  <1>3. Head(q) \notin B /\ (Head(q) \notin A => Ahead(Tail(q), A, B))
    BY <1>2, AheadTail
  <1>4. ~NotesDone(s) /\ ~Announces(s)
    BY <1>1, <1>3 DEF NotesDone, Announces
  <1>5. CASE Head(q) \notin A
    BY <1>1, <1>2, <1>3, <1>4, <1>5
  <1>6. CASE Head(q) \in A
    <2>1. Head(toC[s]) \in Up2(d)
      BY <1>1, <1>6
    <2>2. \A f \in Up2(d) : /\ f \notin Plain \cup Report \cup UpEnd
                            /\ \A c : f \in Up2(c) => c = d
      BY DEF Up2, Plain, Report, UpEnd
    <2>3. ~Ignores(s) /\ ~Relays1(s) /\ ~Counts(s) /\ ~Removes(s)
      BY <2>1, <2>2 DEF Ignores, Relays1, Counts, Removes
    <2>4. Passes2(s)
      BY <1>4, <2>3 DEF CoordinatorDoes
    <2>5. PICK g \in Down2(s) \cap DownKind(d, mode) : toS'[d] = Append(toS[d], g)
      <3>1. PICK c \in Listed \ {s} :
              /\ Head(toC[s]) \in Up2(c)
              /\ \E g \in Down2(s) \cap DownKind(c, mode) : toS'[c] = Append(toS[c], g)
        BY <2>4 DEF Passes2
      <3>2. c = d
        BY <2>1, <2>2, <3>1
      <3> QED
        BY <3>1, <3>2
    <2>6. PICK D, S, p : D = DownKind(d, mode) /\ S = Down2(s) /\ p = toS[d]
      OBVIOUS
    <2>7. p \in Seq(D) /\ g \in D /\ g \in S
      BY <2>5, <2>6 DEF FrameInv
    <2>8. Some(Append(p, g), S)
      BY <2>7, SomeAppend
    <2>9. Some(toS'[d], Down2(s))
      BY <2>5, <2>6, <2>8
    <2> QED
      BY <1>4, <2>9 DEF Reach, Down2
  <1> QED
    BY <1>5, <1>6

LEMMA CoordinatorDelivery ==
  ASSUME SharingInv, FrameInv, PhaseInv, DeliveryInv, NEW s \in Signer,
         Handles(s), CoordinatorDoes(s)
  PROVE  DeliveryInv'
  <1>1. UNCHANGED <<mode, running, signer>>
    BY DEF Handles
  <1> SUFFICES ASSUME mode = "R", running, NEW e \in Signer, NEW d \in Signer, e # d, Alive(d)'
               PROVE  Delivery(e, d)'
    BY <1>1 DEF DeliveryInv
  <1>2. Delivery(e, d)
    BY DeliveryNow DEF Moves
  <1>3. Alive(d) /\ d \in Listed /\ ~Some(toC[d], UpEnd)
    BY <1>1 DEF Alive, PhaseInv, PhaseOf
  <1>4. Reach(e, d) => Reach(e, d)'
    BY <1>3, CoordinatorReach
  <1>5. /\ Announced' => Announced \/ Announces(s)
        /\ entry'[e].r2Complete =>
             entry[e].r2Complete \/ Announces(s) \/ (NotesDone(s) /\ e = s)
        /\ Announces(s) => e = s \/ entry[e].r2Complete
    BY DEF CoordinatorDoes, Ignores, Relays1, Passes2, NotesDone, Announces, Counts, Removes,
           SameDone, Announced
  <1>6. CASE e # s
    <2>1. toC'[e] = toC[e]
      BY <1>6 DEF Handles
    <2> QED
      BY <1>2, <1>4, <1>5, <1>6, <2>1 DEF Delivery, Up2, UpDone
  <1>7. CASE e = s
    <2>1. CASE Reach(e, d)
      BY <1>4, <2>1 DEF Delivery
    <2>2. CASE ~Reach(e, d)
      <3>1. Ahead(toC[s], Up2(d), UpDone) /\ ~entry[e].r2Complete /\ ~Announced
        BY <1>2, <1>7, <2>2 DEF Delivery
      <3>2. /\ Reach(s, d)' \/ Ahead(toC'[s], Up2(d), UpDone)
            /\ ~NotesDone(s) /\ ~Announces(s)
        BY <1>3, <1>7, <3>1, CoordinatorDelivers
      <3> QED
        BY <1>5, <1>7, <3>1, <3>2 DEF Delivery, Up2, UpDone
    <2> QED
      BY <2>1, <2>2
  <1> QED
    BY <1>6, <1>7

LEMMA ConnectsDelivery ==
  ASSUME SharingInv, FrameInv, PhaseInv, DeliveryInv, NEW s \in Signer, Connects(s)
  PROVE  DeliveryInv'
  <1>1. UNCHANGED <<mode, running>> /\ (Announced' => Announced)
    BY DEF Connects, Announced
  <1> SUFFICES ASSUME mode = "R", running, NEW e \in Signer, NEW d \in Signer, e # d, Alive(d)'
               PROVE  Delivery(e, d)'
    BY <1>1 DEF DeliveryInv
  <1>2. Delivery(e, d)
    BY DeliveryNow DEF Moves
  <1>3. d # s /\ SameProcess(d)
    BY ConnectedBlank
  <1>4. Reach(e, d) => Reach(e, d)'
    <2>1. PICK D, S, q : D = DownKind(d, mode) /\ S = Down2(e) /\ q = toS[d]
      OBVIOUS
    <2>2. PICK out \in Seq(Opener \cap D) : toS'[d] = q \o out
      BY <1>3, <2>1 DEF Connects
    <2>3. q \in Seq(D) /\ out \in Seq(D)
      BY <2>1, SeqMono DEF FrameInv
    <2>4. Some(q, S) => Some(q \o out, S)
      BY <2>3, SomeConcat
    <2>5. Some(toS[d], Down2(e)) => Some(toS'[d], Down2(e))
      BY <2>1, <2>2, <2>4
    <2> QED
      BY <1>3, <2>5 DEF Reach, Down2, SameProcess
  <1>5. CASE e # s
    <2>1. toC'[e] = toC[e] /\ entry'[e] = entry[e]
      BY <1>5 DEF Connects
    <2> QED
      BY <1>1, <1>2, <1>4, <2>1 DEF Delivery, Up2, UpDone
  <1>6. CASE e = s
    <2>1. toC'[e] = <<>> /\ ~entry'[e].r2Complete
      BY <1>6 DEF Connects
    <2>2. Ahead(toC'[e], Up2(d), UpDone)
      BY <2>1, NoneIn
    <2> QED
      BY <1>1, <1>2, <1>4, <2>1, <2>2 DEF Delivery, Up2, UpDone
  <1> QED
    BY <1>5, <1>6

LEMMA BlankDelivery == Blank => DeliveryInv
  BY DEF Blank, DeliveryInv, Alive

LEMMA DeliveryNext ==
  ASSUME SharingInv, FrameInv, PhaseInv, DeliveryInv, Acts PROVE DeliveryInv'
  <1>1. CASE Blank'
    <2>1. (Blank => DeliveryInv)'
      BY BlankDelivery, PTL
    <2> QED
      BY <1>1, <2>1
  <1>2. CASE UNCHANGED vars
    <2>1. UNCHANGED <<signer, toC, toS, dkgState, entry, mode, running>>
      BY <1>2 DEF vars, coordVars
    <2> QED
      BY <2>1 DEF DeliveryInv, Delivery, Reach, Announced, Alive, Got2, Up2, UpDone, Down2
  <1>3. CASE Stops
    BY <1>3 DEF Stops, DeliveryInv
  <1> QED
    BY <1>1, <1>2, <1>3, SignerDelivery, CoordinatorDelivery, ConnectsDelivery DEF Acts

-----------------------------------------------------------------------------
(* The whole invariant.                                                    *)

OrderInv ==
  SharingInv /\ FrameInv /\ PhaseInv /\ PlaceInv /\ ReportInv /\ DeliveryInv

LEMMA InitBlank ==
  ASSUME Init PROVE Blank
  <1>1. /\ signer = [s \in Signer |-> Down(0)]
        /\ toC = [s \in Signer |-> <<>>] /\ toS = [s \in Signer |-> <<>>]
        /\ entry = [s \in Signer |-> BlankEntry]
        /\ dkgState = "IDLE" /\ count = 0 /\ done = FALSE
    BY DEF Init
  <1>2. ~Down(0).up /\ ~BlankEntry.r2Complete
    BY DEF Down, FreshSigner, BlankEntry
  <1> QED
    BY <1>1, <1>2 DEF Blank

LEMMA InitOrder ==
  ASSUME Init PROVE OrderInv
  BY InitSharing, InitBlank, BlankFrames, BlankPhase, BlankPlace, BlankReport, BlankDelivery
     DEF OrderInv

LEMMA NextOrder ==
  ASSUME OrderInv, [Next]_vars PROVE OrderInv'
  <1>1. SharingInv' /\ Acts
    BY NextSharing, NextActs DEF OrderInv
  <1> QED
    BY <1>1, FramesNext, PhaseNext, PlaceNext, ReportNext, DeliveryNext DEF OrderInv

\* In every reachable state of every ceremony, however its processes die, come
\* back and are stopped: a package of round 2 is on its way to the coordinator,
\* on its way to its recipient or there, and in one of these places only; a
\* signer's report of its share is sent once and after the save; and the notice
\* that a signer is done with round 2 of a refresh follows its packages all the
\* way through the relay.
THEOREM CeremonyOrder == Spec => []OrderInv
  <1>1. Init => OrderInv
    BY InitOrder
  <1>2. OrderInv /\ [Next]_vars => OrderInv'
    BY NextOrder
  <1> QED
    BY <1>1, <1>2, PTL DEF Spec

-----------------------------------------------------------------------------
(* What follows from it.                                                   *)

LEMMA OrderImpliesType ==
  ASSUME OrderInv PROVE TypeOK
  <1>1. StateOK /\ TablesOK
    BY DEF OrderInv, SharingInv
  <1>2. count \in 0..N
    <2>1. N \in Nat /\ Signer = 1..N
      BY PolyFacts
    <2>2. PICK X : X = {s \in Signer : Spent(s)}
      OBVIOUS
    <2>3. IsFiniteSet(Signer) /\ Cardinality(Signer) = N
      BY <2>1, FS_Interval
    <2>4. Cardinality(X) \in Nat /\ Cardinality(X) <= N
      BY <2>1, <2>2, <2>3, FS_Subset, FS_CardinalityType
    <2>5. count \in Nat /\ count <= Cardinality(X)
      BY <1>1, <2>2 DEF StateOK, OrderInv, ReportInv
    <2> QED
      BY <2>1, <2>4, <2>5
  <1>3. Listed \subseteq Signer /\ Len(list) = Cardinality(Listed)
    <2>1. list \in Seq(Signer) /\ \A i, j \in DOMAIN list : list[i] = list[j] => i = j
      BY <1>1 DEF StateOK
    <2>2. PICK q \in Seq(Signer) : q = list
      BY <2>1
    <2>3. PICK n \in Nat : n = Len(q)
      OBVIOUS
    <2>4. DOMAIN q = 1..n /\ \A i \in 1..n : q[i] \in Signer
      BY <2>3
    <2>5. PICK X : X = {q[i] : i \in 1..n}
      OBVIOUS
    <2>6. Listed = X
      BY <2>2, <2>4, <2>5 DEF Listed
    <2>7. q \in Injection(1..n, X) /\ q \in Surjection(1..n, X)
      <3>1. q \in [1..n -> X]
        BY <2>3, <2>4, <2>5
      <3>2. \A i, j \in 1..n : q[i] = q[j] => i = j
        BY <2>1, <2>2, <2>4
      <3>3. \A x \in X : \E i \in 1..n : q[i] = x
        BY <2>5
      <3> QED
        BY <3>1, <3>2, <3>3 DEF Injection, Surjection, IsInjective
    <2>8. IsFiniteSet(1..n) /\ Cardinality(1..n) = n
      BY FS_Interval
    <2>9. Cardinality(X) = n
      <3>1. IsFiniteSet(X)
        BY <2>7, <2>8, FS_Surjection
      <3> QED
        BY <2>7, <2>8, <3>1, FS_Injection
    <2> QED
      BY <2>2, <2>3, <2>4, <2>5, <2>6, <2>9
  <1>4. /\ done \in BOOLEAN /\ stored \in BOOLEAN /\ running \in BOOLEAN
        /\ disturbed \in BOOLEAN /\ mode \in Modes
        /\ dkgState \in {"IDLE", "R1", "R2", "COMPLETE"}
    BY <1>1 DEF StateOK
  <1>5. {done, stored, running, disturbed} \subseteq BOOLEAN
    BY <1>4, Zenon
  <1> QED
    BY <1>1, <1>2, <1>3, <1>4, <1>5 DEF TablesOK, TypeOK

\* Both programs' globals keep their shape.  In particular no signer is in the
\* coordinator's list twice, so counting the list, as START does, is counting
\* signers; and g_refresh_complete_count, which PUB_KEY_PKG and REFRESH_COMPLETE
\* increment without a look at who sent it, never exceeds n.
THEOREM CeremonyTypeOK == Spec => []TypeOK
  <1>1. OrderInv => TypeOK
    BY OrderImpliesType
  <1> QED
    BY <1>1, CeremonyOrder, PTL

\* A share that holds anything of this run holds a polynomial of every signer.
LEMMA SavedComplete ==
  ASSUME SharingInv, NEW s \in Signer, Saved(s)
  PROVE  Complete(Part(keyFile[s], run))
  <1>1. run \in 1..MaxRuns /\ FileFits(keyFile[s], Fixed, run)
    BY DEF SharingInv, StateOK, Connection
  <1>2. PICK x, n : x = keyFile[s] /\ n = run
    OBVIOUS
  <1>3. PICK part : part = Part(x, n)
    OBVIOUS
  <1>4. part # {}
    BY <1>2, <1>3 DEF Saved
  <1>5. x # Absent /\ x # Torn
    <2>1. NoPoly.run # n
      BY <1>1, <1>2 DEF NoPoly
    <2> QED
      BY <1>3, <1>4, <2>1 DEF Absent, Torn, Part
  <1>6. ShareFits(x, Fixed, n)
    BY <1>1, <1>2, <1>5 DEF FileFits
  <1>7. x \subseteq Poly /\ x \subseteq Held(s)
    BY <1>2, <1>6, PolyFacts DEF ShareFits, Held
  <1>8. \A p \in part : p.by \in Signer
    BY <1>3, <1>7, PolyFacts DEF Part
  <1>9. \A d \in Signer : \E p \in part : p.by = d
    BY <1>3, <1>4, <1>6 DEF ShareFits, Part
  <1>10. \A p, q \in part : p.by = q.by => p = q
    BY <1>3, <1>7 DEF SharingInv, Agree, Part
  <1>11. Complete(part)
    BY <1>8, <1>9, <1>10, OneOfEach
  <1> QED
    BY <1>2, <1>3, <1>11

LEMMA OrderImpliesSaved ==
  ASSUME OrderInv PROVE AnnouncedMeansSaved
  <1> SUFFICES ASSUME Announced, mode = "R" => done, NEW s \in Signer
               PROVE  \/ Complete(Part(keyFile[s], run))
                      \/ s \in MayFail /\ (mode = "R" => keyFile[s] = Torn)
    BY DEF AnnouncedMeansSaved, Announced
  <1>1. ReportOf(s) /\ (done => Spent(s)) /\ SharingInv
    BY DEF OrderInv, ReportInv
  <1>2. mode = "R" \/ mode = "D"
    BY <1>1, ModeFacts DEF SharingInv, StateOK
  <1>3. Saved(s) \/ (s \in MayFail /\ (mode = "R" => keyFile[s] = Torn))
    BY <1>1, <1>2 DEF ReportOf, Spent, Settled
  <1> QED
    BY <1>1, <1>3, SavedComplete

\* What an announcement is worth, for every group, every order of arrival and
\* every fault, the unchecked writes of save_key_material included: after
\* DKG_DONE and after REFRESH_CONFIRMED every signer whose disk works has its new
\* share on it, and after REFRESH_CONFIRMED one whose disk failed has the new
\* share or a file that does not load, never the old share.
THEOREM CeremonyAnnouncedMeansSaved == Spec => []AnnouncedMeansSaved
  <1>1. OrderInv => AnnouncedMeansSaved
    BY OrderImpliesSaved
  <1> QED
    BY <1>1, CeremonyOrder, PTL

LEMMA OrderImpliesNoWayBack ==
  ASSUME OrderInv PROVE NoWayBack
  <1> DEFINE Coming(d) == {f \in {toS[d][i] : i \in DOMAIN toS[d]} :
                             f.type = "RELAY_REFRESH_R2"}
  <1> SUFFICES ASSUME mode = "R", NEW s \in Signer, Saved(s), NEW d \in Signer, Alive(d), running
               PROVE  Got2(d) \cup {f.box.from : f \in Coming(d)} = Signer \ {d}
    BY DEF NoWayBack, Saved, Alive, Got2
  <1>1. Announced
    BY DEF OrderInv, ReportInv, ReportOf
  <1>2. \A e \in Signer : e # d => Reach(e, d)
    BY <1>1 DEF OrderInv, DeliveryInv, Delivery
  <1>3. Got2(d) \subseteq Signer \ {d}
    BY DEF OrderInv, PhaseInv, PhaseOf
  <1>4. PICK q : q = toS[d]
    OBVIOUS
  <1>5. \A i \in DOMAIN q : q[i] \in DownKind(d, "R")
    <2>1. q \in Seq(DownKind(d, "R"))
      BY <1>4 DEF OrderInv, FrameInv
    <2> QED
      BY <2>1
  <1>6. ASSUME NEW f \in Coming(d) PROVE f.box.from \in Signer \ {d}
    <2>1. f \in DownKind(d, "R") /\ f.type = "RELAY_REFRESH_R2"
      BY <1>4, <1>5, <1>6
    <2>2. f \in DownFrame /\ f.box.from # d
      BY <2>1 DEF DownKind
    <2>3. f.box \in Box
      BY <2>1, <2>2, DownFrameFacts
    <2> QED
      BY <2>2, <2>3 DEF Box
  <1>7. ASSUME NEW e \in Signer \ {d}, e \notin Got2(d) PROVE \E f \in Coming(d) : f.box.from = e
    <2>1. Some(q, Down2(e))
      BY <1>2, <1>4, <1>7 DEF Reach
    <2>2. PICK i \in DOMAIN q : q[i] \in Down2(e)
      BY <2>1 DEF Some
    <2>3. q[i].type = "RELAY_REFRESH_R2" /\ q[i].box.from = e
      BY <1>5, <2>2 DEF Down2, DownKind
    <2> QED
      BY <1>4, <2>2, <2>3
  <1> QED
    BY <1>3, <1>6, <1>7

\* REFRESH_FINALIZE serves its purpose, for every group and every fault: when a
\* signer has overwritten its old share, each signer that takes part has or is
\* about to read the round-2 package of every other, so none can be left behind
\* on its old share for want of a package.
THEOREM CeremonyNoWayBack == Spec => []NoWayBack
  <1>1. OrderInv => NoWayBack
    BY OrderImpliesNoWayBack
  <1> QED
    BY <1>1, CeremonyOrder, PTL
=============================================================================
