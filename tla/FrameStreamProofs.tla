------------------------- MODULE FrameStreamProofs -------------------------
(***************************************************************************)
(* Proofs about the frame layer, for every size of a byte, a signature, a  *)
(* payload and a TLS record, and any frames: each direction delivers the   *)
(* frames that were queued, in order, and no bytes are held back.          *)
(*                                                                         *)
(* A receiver finds the end of a frame by its length and then throws its   *)
(* buffer away.  That loses nothing because a record holds bytes of one    *)
(* frame only, and because the bytes in the buffer and on the wire are     *)
(* always those that the frames in question are made of, from the first.   *)
(***************************************************************************)
EXTENDS FrameStream, TLAPS

-----------------------------------------------------------------------------
(* Numbers as two bytes.                                                   *)

LEMMA Sizes ==
  /\ Radix \in Nat /\ Radix > 1
  /\ SigSize \in 1..(Radix * Radix - 1) /\ MaxPayload \in 1..(Radix * Radix - 1)
  /\ MaxRecord \in Nat \ {0} /\ Capacity \in Nat \ {0} /\ Header = 5
  BY CodecAssumption, StreamAssumption DEF Header

LEMMA DivMod ==
  ASSUME NEW R \in Nat, R > 1, NEW x \in Nat, x < R * R
  PROVE  \E a, c \in 0..(R - 1) : a = x \div R /\ c = x % R /\ a * R + c = x
  <1>1. PICK a \in Int, c \in Int : a = x \div R /\ c = x % R
    OBVIOUS
  <1>2. c \in 0..(R - 1) /\ a * R + c = x /\ a >= 0
    BY <1>1
  <1>3. a * R <= x
    BY <1>2
  <1>4. a < R
    <2> SUFFICES ASSUME a >= R PROVE FALSE
      OBVIOUS
    <2>1. PICK k \in Nat : a = R + k
      BY <1>2
    <2>2. a * R = R * R + k * R
      BY <2>1
    <2>3. k * R >= 0
      BY <2>1
    <2> QED
      BY <1>3, <2>2, <2>3
  <1>5. a \in 0..(R - 1)
    BY <1>2, <1>4
  <1> QED
    BY <1>1, <1>2, <1>5, Zenon

LEMMA SameSeq ==
  ASSUME NEW S, NEW x \in Seq(S), NEW y \in Seq(S), Len(x) = Len(y),
         \A i \in 1..Len(x) : x[i] = y[i]
  PROVE  x = y
  OBVIOUS

LEMMA Joined ==
  ASSUME NEW S, NEW x \in Seq(S), NEW y \in Seq(S), NEW z, z = x \o y
  PROVE  /\ z \in Seq(S) /\ Len(z) = Len(x) + Len(y)
         /\ \A i \in 1..Len(x) : z[i] = x[i]
         /\ \A i \in 1..Len(y) : z[Len(x) + i] = y[i]
  OBVIOUS

LEMMA SixteenBits ==
  ASSUME NEW x \in 0..(Radix * Radix - 1)
  PROVE  /\ Put16(x) \in Bytes /\ Len(Put16(x)) = 2
         /\ Put16(x)[1] * Radix + Put16(x)[2] = x
  <1>1. x \in Nat /\ x < Radix * Radix
    BY Sizes
  <1>3. PICK a \in 0..(Radix - 1), c \in 0..(Radix - 1) :
          a = x \div Radix /\ c = x % Radix /\ a * Radix + c = x
    BY <1>1, Sizes, DivMod
  <1>4. Put16(x) = <<a, c>>
    BY <1>3 DEF Put16
  <1> QED
    BY <1>3, <1>4 DEF Bytes

-----------------------------------------------------------------------------
(* One frame.                                                              *)

FrameRecord == [type : 0..(Radix - 1), sig : Bytes, payload : Bytes]

\* What StreamAssumption says of a frame in direction d.
Fits(d, f) ==
  /\ f \in FrameRecord
  /\ Len(f.payload) <= MaxPayload
  /\ Len(f.sig) \in {0, SigSize}
  /\ d = "toCoord" => Len(f.sig) = SigSize

LEMMA OutgoingFits ==
  ASSUME NEW d \in Direction, NEW f \in Outgoing[d]
  PROVE  Fits(d, f)
  BY StreamAssumption DEF Fits, FrameRecord

LEMMA FrameLengths ==
  ASSUME NEW d, NEW f, Fits(d, f)
  PROVE  /\ Len(f.payload) \in 0..MaxPayload /\ Len(f.sig) \in 0..SigSize
         /\ Len(f.payload) \in 0..(Radix * Radix - 1) /\ Len(f.sig) \in 0..(Radix * Radix - 1)
         /\ f.payload \in Bytes /\ f.sig \in Bytes /\ f.type \in 0..(Radix - 1)
  <1>1. f.payload \in Bytes /\ f.sig \in Bytes /\ f.type \in 0..(Radix - 1)
    BY DEF Fits, FrameRecord
  <1>2. Len(f.payload) \in Nat /\ Len(f.sig) \in Nat
    BY <1>1 DEF Bytes
  <1>3. PICK RR \in Int : RR = Radix * Radix
    BY Sizes
  <1> QED
    BY <1>1, <1>2, <1>3, Sizes DEF Fits

LEMMA HeaderNumbers ==
  ASSUME NEW b
  PROVE  Get16(b, 2) = b[2] * Radix + b[3] /\ Get16(b, 4) = b[4] * Radix + b[5]
  BY DEF Get16

\* The bytes of a frame.
BytesOf(e, f, m, k) ==
  /\ e \in Bytes /\ Len(e) = 5 + m + k
  /\ e[1] = f.type /\ Get16(e, 2) = k /\ Get16(e, 4) = m
  /\ \A i \in 1..m : e[5 + i] = f.sig[i]
  /\ \A i \in 1..k : e[5 + m + i] = f.payload[i]

LEMMA Encoding ==
  ASSUME NEW d, NEW f, Fits(d, f)
  PROVE  BytesOf(EncodeFrame(f), f, Len(f.sig), Len(f.payload))
  <1>9. PICK e, m, k : e = EncodeFrame(f) /\ m = Len(f.sig) /\ k = Len(f.payload)
    OBVIOUS
  <1>1. PICK sig, payload, B : sig = f.sig /\ payload = f.payload /\ B = 0..(Radix - 1)
    OBVIOUS
  <1>2. PICK p, q : p = Put16(k) /\ q = Put16(m)
    OBVIOUS
  <1>3. /\ sig \in Seq(B) /\ payload \in Seq(B) /\ m = Len(sig) /\ k = Len(payload)
        /\ p \in Seq(B) /\ q \in Seq(B) /\ Len(p) = 2 /\ Len(q) = 2 /\ m \in Nat /\ k \in Nat
    BY <1>1, <1>2, <1>9, FrameLengths, SixteenBits DEF Bytes
  <1>11. p[1] * Radix + p[2] = k /\ q[1] * Radix + q[2] = m
    BY <1>1, <1>2, <1>9, FrameLengths, SixteenBits
  <1>4. PICK t \in B : t = f.type
    BY <1>1, FrameLengths
  <1>5. PICK h : h = <<t>> \o p \o q
    OBVIOUS
  <1>6. /\ h \in Seq(B) /\ Len(h) = 5 /\ h[1] = t /\ h[2] = p[1] /\ h[3] = p[2]
        /\ h[4] = q[1] /\ h[5] = q[2]
    <2>1. PICK g, u : u = <<t>> /\ g = u \o p
      OBVIOUS
    <2>2. u \in Seq(B) /\ Len(u) = 1 /\ u[1] = t
      BY <2>1
    <2>3. /\ g \in Seq(B) /\ Len(g) = 3 /\ g[1] = t
          /\ \A i \in 1..2 : g[1 + i] = p[i]
      <3>1. u \in Seq(B) /\ p \in Seq(B) /\ g = u \o p
        BY <1>3, <2>1, <2>2
      <3>2. /\ g \in Seq(B) /\ Len(g) = Len(u) + Len(p)
            /\ \A i \in 1..Len(u) : g[i] = u[i]
            /\ \A i \in 1..Len(p) : g[Len(u) + i] = p[i]
        BY <3>1, Joined
      <3> QED
        BY <1>3, <2>2, <3>2
    <2>4. h = g \o q
      BY <1>5, <2>1
    <2>5. /\ h \in Seq(B) /\ Len(h) = 5 /\ \A i \in 1..3 : h[i] = g[i]
          /\ \A i \in 1..2 : h[3 + i] = q[i]
      <3>1. g \in Seq(B) /\ q \in Seq(B) /\ h = g \o q
        BY <1>3, <2>3, <2>4
      <3>2. /\ h \in Seq(B) /\ Len(h) = Len(g) + Len(q)
            /\ \A i \in 1..Len(g) : h[i] = g[i]
            /\ \A i \in 1..Len(q) : h[Len(g) + i] = q[i]
        BY <3>1, Joined
      <3> QED
        BY <1>3, <2>3, <3>2
    <2>6. 1 + 1 = 2 /\ 1 + 2 = 3 /\ 3 + 1 = 4 /\ 3 + 2 = 5
      OBVIOUS
    <2> QED
      BY <2>3, <2>5, <2>6
  <1>7. e = h \o sig \o payload
    BY <1>1, <1>2, <1>4, <1>5, <1>9 DEF EncodeFrame
  <1>8. /\ e \in Seq(B) /\ Len(e) = 5 + m + k
        /\ \A i \in 1..5 : e[i] = h[i]
        /\ \A i \in 1..m : e[5 + i] = sig[i]
        /\ \A i \in 1..k : e[5 + m + i] = payload[i]
    <2>1. PICK g : g = h \o sig
      OBVIOUS
    <2>2. /\ g \in Seq(B) /\ Len(g) = 5 + m /\ \A i \in 1..5 : g[i] = h[i]
          /\ \A i \in 1..m : g[5 + i] = sig[i]
      <3>1. h \in Seq(B) /\ sig \in Seq(B) /\ g = h \o sig
        BY <1>3, <1>6, <2>1
      <3>2. /\ g \in Seq(B) /\ Len(g) = Len(h) + Len(sig)
            /\ \A i \in 1..Len(h) : g[i] = h[i]
            /\ \A i \in 1..Len(sig) : g[Len(h) + i] = sig[i]
        BY <3>1, Joined
      <3> QED
        BY <1>3, <1>6, <3>2
    <2>3. e = g \o payload
      BY <1>7, <2>1
    <2>4. /\ e \in Seq(B) /\ Len(e) = 5 + m + k /\ \A i \in 1..(5 + m) : e[i] = g[i]
          /\ \A i \in 1..k : e[5 + m + i] = payload[i]
      <3>1. g \in Seq(B) /\ payload \in Seq(B) /\ e = g \o payload
        BY <1>3, <2>2, <2>3
      <3>2. /\ e \in Seq(B) /\ Len(e) = Len(g) + Len(payload)
            /\ \A i \in 1..Len(g) : e[i] = g[i]
            /\ \A i \in 1..Len(payload) : e[Len(g) + i] = payload[i]
        BY <3>1, Joined
      <3> QED
        BY <1>3, <2>2, <3>2
    <2>5. \A i \in 1..m : 5 + i \in 1..(5 + m)
      BY <1>3
    <2>6. \A i \in 1..5 : i \in 1..(5 + m)
      BY <1>3
    <2> QED
      BY <2>2, <2>4, <2>5, <2>6
  <1>10. Get16(e, 2) = k /\ Get16(e, 4) = m /\ e[1] = t
    <2>1. e[1] = t /\ e[2] = p[1] /\ e[3] = p[2] /\ e[4] = q[1] /\ e[5] = q[2]
      <3>1. \A i \in 1..5 : e[i] = h[i]
        BY <1>8
      <3> QED
        BY <1>6, <3>1
    <2> QED
      BY <1>11, <2>1, HeaderNumbers, Zenon
  <1> QED
    <2>1. BytesOf(e, f, m, k)
      BY <1>1, <1>4, <1>8, <1>10 DEF Bytes, BytesOf
    <2> QED
      BY <1>9, <2>1

LEMMA EncodedLength ==
  ASSUME NEW d, NEW f, Fits(d, f)
  PROVE  /\ EncodeFrame(f) \in Bytes /\ Len(EncodeFrame(f)) \in 5..FrameMax
         /\ FrameMax \in Nat
  <1>4. PICK e, m, k : e = EncodeFrame(f) /\ m = Len(f.sig) /\ k = Len(f.payload)
    OBVIOUS
  <1>1. e \in Bytes /\ Len(e) = 5 + m + k
    <2>1. BytesOf(e, f, m, k)
      BY <1>4, Encoding
    <2> QED
      BY <2>1 DEF BytesOf
  <1>2. k \in 0..MaxPayload /\ m \in 0..SigSize
    BY <1>4, FrameLengths
  <1>3. MaxPayload \in Nat /\ SigSize \in Nat /\ FrameMax = 5 + SigSize + MaxPayload
    BY Sizes DEF FrameMax
  <1>5. Len(e) \in 5..FrameMax /\ FrameMax \in Nat
    BY <1>1, <1>2, <1>3
  <1> QED
    BY <1>1, <1>4, <1>5

\* A piece of a sequence, and two adjacent pieces.
LEMMA Slice ==
  ASSUME NEW S, NEW e \in Seq(S), NEW a \in Nat, NEW n \in Nat, a <= n, n <= Len(e),
         NEW x, x = SubSeq(e, a + 1, n)
  PROVE  x \in Seq(S) /\ Len(x) = n - a /\ \A i \in 1..(n - a) : x[i] = e[a + i]
  OBVIOUS

LEMMA Prefix ==
  ASSUME NEW S, NEW e \in Seq(S), NEW n \in Nat, n <= Len(e), NEW x, x = SubSeq(e, 1, n)
  PROVE  x \in Seq(S) /\ Len(x) = n /\ \A i \in 1..n : x[i] = e[i]
  OBVIOUS

LEMMA Adjacent ==
  ASSUME NEW S, NEW e \in Seq(S), NEW a \in Nat, NEW n \in Nat, a <= n, n <= Len(e),
         NEW x, x = SubSeq(e, 1, a), NEW y, y = SubSeq(e, a + 1, n)
  PROVE  x \o y = SubSeq(e, 1, n)
  <1>1. x \in Seq(S) /\ Len(x) = a /\ \A i \in 1..a : x[i] = e[i]
    BY Prefix
  <1>2. y \in Seq(S) /\ Len(y) = n - a /\ \A i \in 1..(n - a) : y[i] = e[a + i]
    BY Slice
  <1>3. PICK z, w : z = x \o y /\ w = SubSeq(e, 1, n)
    OBVIOUS
  <1>4. /\ z \in Seq(S) /\ Len(z) = Len(x) + Len(y)
        /\ \A i \in 1..Len(x) : z[i] = x[i]
        /\ \A i \in 1..Len(y) : z[Len(x) + i] = y[i]
    BY <1>1, <1>2, <1>3, Joined
  <1>5. w \in Seq(S) /\ Len(w) = n /\ \A i \in 1..n : w[i] = e[i]
    BY <1>3, Prefix
  <1>6. Len(z) = n
    BY <1>1, <1>2, <1>4
  <1>7. ASSUME NEW i \in 1..n PROVE z[i] = w[i]
    <2>1. CASE i <= a
      <3>1. i \in 1..a
        BY <2>1
      <3> QED
        BY <1>1, <1>4, <1>5, <3>1
    <2>2. CASE i > a
      <3>1. PICK j \in 1..(n - a) : i = a + j
        BY <2>2
      <3>2. z[a + j] = y[j] /\ y[j] = e[a + j]
        BY <1>1, <1>2, <1>4
      <3> QED
        BY <1>5, <3>1, <3>2
    <2> QED
      BY <2>1, <2>2
  <1>8. z = w
    BY <1>4, <1>5, <1>6, <1>7, SameSeq
  <1> QED
    BY <1>3, <1>8

\* The first n bytes of a frame.
FirstBytes(f, e, n, b) == e = EncodeFrame(f) /\ n \in 0..Len(e) /\ b = SubSeq(e, 1, n)

\* The receiver takes the bytes of a frame for a frame exactly when they are
\* all there, and then reads the frame that was encoded.
LEMMA Decoding ==
  ASSUME NEW d \in Direction, NEW f, Fits(d, f), NEW e, NEW n, NEW b, FirstBytes(f, e, n, b)
  PROVE  /\ Whole(d, b) <=> n = Len(e)
         /\ n = Len(e) => FrameOf(d, b) = f
  <1>1. PICK m, k : m = Len(f.sig) /\ k = Len(f.payload)
    OBVIOUS
  <1>2. /\ e \in Bytes /\ Len(e) = 5 + m + k
        /\ e[1] = f.type /\ Get16(e, 2) = k /\ Get16(e, 4) = m
        /\ \A i \in 1..m : e[5 + i] = f.sig[i]
        /\ \A i \in 1..k : e[5 + m + i] = f.payload[i]
    <2>1. BytesOf(e, f, m, k)
      BY <1>1, Encoding DEF FirstBytes
    <2> QED
      BY <2>1 DEF BytesOf
  <1>3. m \in Nat /\ k \in Nat /\ f.sig \in Bytes /\ f.payload \in Bytes
    BY <1>1, FrameLengths
  <1>4. b \in Bytes /\ Len(b) = n /\ \A i \in 1..n : b[i] = e[i]
    <2>1. n \in Nat /\ n <= Len(e)
      BY <1>2, <1>3 DEF FirstBytes
    <2> QED
      <3>1. PICK B : B = 0..(Radix - 1)
        OBVIOUS
      <3>2. e \in Seq(B)
        BY <1>2, <3>1 DEF Bytes
      <3>3. b \in Seq(B) /\ Len(b) = n /\ \A i \in 1..n : b[i] = e[i]
        BY <2>1, <3>2, Prefix DEF FirstBytes
      <3> QED
        BY <3>1, <3>3 DEF Bytes
  <1>8. n \in Nat /\ n <= 5 + m + k
    BY <1>2, <1>3 DEF FirstBytes
  <1>5. ASSUME n >= 5
        PROVE  PayloadLen(b) = k /\ SigLen(b) = m /\ PayloadAt(d, b) = 5 + m /\ b[1] = f.type
    <2>1. b[1] = e[1] /\ b[2] = e[2] /\ b[3] = e[3] /\ b[4] = e[4] /\ b[5] = e[5]
      <3>1. 1 \in 1..n /\ 2 \in 1..n /\ 3 \in 1..n /\ 4 \in 1..n /\ 5 \in 1..n
        BY <1>5, <1>8
      <3> QED
        BY <1>4, <3>1
    <2>2. PayloadLen(b) = Get16(e, 2) /\ SigLen(b) = Get16(e, 4)
      BY <2>1, HeaderNumbers, Zenon DEF PayloadLen, SigLen
    <2>3. d # "toSigner" => m = SigSize
      BY <1>1 DEF Direction, Fits
    <2>4. PayloadAt(d, b) = 5 + m
      BY <1>2, <2>2, <2>3, Sizes DEF PayloadAt
    <2> QED
      BY <1>2, <2>1, <2>2, <2>4
  <1>6. Whole(d, b) <=> n = Len(e)
    <2>1. CASE n < 5
      <3>1. ~Whole(d, b)
        BY <1>4, <1>8, <2>1, Sizes DEF Whole
      <3> QED
        BY <1>2, <1>3, <2>1, <3>1
    <2>2. CASE n >= 5
      <3>1. Whole(d, b) <=> n >= 5 + m + k
        BY <1>4, <1>5, <2>2, Sizes DEF Whole
      <3> QED
        BY <1>2, <1>3, <1>8, <3>1
    <2> QED
      BY <1>8, <2>1, <2>2
  <1>7. ASSUME n = Len(e) PROVE FrameOf(d, b) = f
    <2>1. /\ n = 5 + m + k /\ PayloadLen(b) = k /\ SigLen(b) = m /\ PayloadAt(d, b) = 5 + m
          /\ b[1] = f.type
      BY <1>2, <1>3, <1>5, <1>7
    <2>2. PICK x, y, B : /\ x = SubSeq(b, 5 + 1, 5 + m)
                         /\ y = SubSeq(b, (5 + m) + 1, 5 + m + k) /\ B = 0..(Radix - 1)
      OBVIOUS
    <2>3. b \in Seq(B) /\ f.sig \in Seq(B) /\ f.payload \in Seq(B)
      BY <1>3, <1>4, <2>2 DEF Bytes
    <2>4. x \in Seq(B) /\ Len(x) = m /\ \A i \in 1..m : x[i] = b[5 + i]
      <3>1. PICK u, v : u = 5 /\ v = 5 + m
        OBVIOUS
      <3>2. u \in Nat /\ v \in Nat /\ u <= v /\ v <= Len(b) /\ v - u = m
        <4>1. Len(b) = 5 + m + k
          BY <1>4, <2>1
        <4> QED
          BY <1>3, <3>1, <4>1
      <3>3. x = SubSeq(b, u + 1, v)
        BY <2>2, <3>1
      <3>4. x \in Seq(B) /\ Len(x) = v - u /\ \A i \in 1..(v - u) : x[i] = b[u + i]
        <4>1. b \in Seq(B) /\ u \in Nat /\ v \in Nat /\ u <= v /\ v <= Len(b)
          BY <2>3, <3>2
        <4> QED
          BY <3>3, <4>1, Slice
      <3> QED
        BY <3>1, <3>2, <3>4
    <2>5. y \in Seq(B) /\ Len(y) = k /\ \A i \in 1..k : y[i] = b[5 + m + i]
      <3>1. PICK u, v : u = 5 + m /\ v = 5 + m + k
        OBVIOUS
      <3>2. u \in Nat /\ v \in Nat /\ u <= v /\ v <= Len(b) /\ v - u = k
        <4>1. Len(b) = 5 + m + k
          BY <1>4, <2>1
        <4> QED
          BY <1>3, <3>1, <4>1
      <3>3. y = SubSeq(b, u + 1, v)
        BY <2>2, <3>1
      <3>4. y \in Seq(B) /\ Len(y) = v - u /\ \A i \in 1..(v - u) : y[i] = b[u + i]
        <4>1. b \in Seq(B) /\ u \in Nat /\ v \in Nat /\ u <= v /\ v <= Len(b)
          BY <2>3, <3>2
        <4> QED
          BY <3>3, <4>1, Slice
      <3> QED
        BY <3>1, <3>2, <3>4
    <2>6. x = f.sig
      <3>1. ASSUME NEW i \in 1..m PROVE x[i] = f.sig[i]
        <4>1. 5 + i \in 1..n
          BY <1>3, <2>1
        <4>2. x[i] = b[5 + i] /\ b[5 + i] = e[5 + i] /\ e[5 + i] = f.sig[i]
          BY <1>2, <1>4, <2>4, <4>1, Zenon
        <4> QED
          BY <4>2
      <3> QED
        BY <1>1, <2>3, <2>4, <3>1, SameSeq
    <2>7. y = f.payload
      <3>1. ASSUME NEW i \in 1..k PROVE y[i] = f.payload[i]
        <4>1. 5 + m + i \in 1..n
          BY <1>3, <2>1
        <4>2. y[i] = b[5 + m + i] /\ b[5 + m + i] = e[5 + m + i] /\ e[5 + m + i] = f.payload[i]
          BY <1>2, <1>4, <2>5, <4>1, Zenon
        <4> QED
          BY <4>2
      <3> QED
        BY <1>1, <2>3, <2>5, <3>1, SameSeq
    <2>8. FrameOf(d, b) = [type |-> f.type, sig |-> x, payload |-> y]
      BY <2>1, <2>2, Sizes DEF FrameOf
    <2>9. f = [type |-> f.type, sig |-> f.sig, payload |-> f.payload]
      BY DEF Fits, FrameRecord
    <2> QED
      BY <2>6, <2>7, <2>8, <2>9
  <1> QED
    BY <1>6, <1>7

\* Where the record that begins behind a bytes of e ends.
RecordEnd(e, a) == Lesser(a + MaxRecord, Len(e))

LEMMA RecordIsPiece ==
  ASSUME NEW q, NEW e \in Bytes, NEW a \in Nat, a < Len(e),
         q[1].data = e, q[1].sent = a
  PROVE  /\ Record(q) = SubSeq(e, a + 1, RecordEnd(e, a))
         /\ RecordEnd(e, a) \in (a + 1)..Len(e)
         /\ Len(Record(q)) = RecordEnd(e, a) - a
         /\ RecordEnd(e, a) < Len(e) => RecordEnd(e, a) = a + MaxRecord
  <1>1. PICK n, B : n = RecordEnd(e, a) /\ B = 0..(Radix - 1)
    OBVIOUS
  <1>2. e \in Seq(B) /\ Len(e) \in Nat
    BY <1>1 DEF Bytes
  <1>3. n \in (a + 1)..Len(e) /\ (n < Len(e) => n = a + MaxRecord)
    BY <1>1, <1>2, Sizes DEF RecordEnd, Lesser
  <1>4. PICK u : u = SubSeq(e, a + 1, Len(e))
    OBVIOUS
  <1>5. /\ u \in Seq(B) /\ Len(u) = Len(e) - a
        /\ \A i \in 1..(Len(e) - a) : u[i] = e[a + i]
    BY <1>2, <1>4, Slice
  <1>6. Lesser(MaxRecord, Len(u)) = n - a
    <2>1. Len(u) = Len(e) - a /\ n = Lesser(a + MaxRecord, Len(e))
      BY <1>1, <1>5 DEF RecordEnd
    <2>2. MaxRecord \in Nat /\ Len(e) \in Nat
      BY <1>2, Sizes
    <2> QED
      BY <2>1, <2>2 DEF Lesser
  <1>7. Record(q) = SubSeq(u, 1, n - a)
    BY <1>4, <1>6 DEF Record, Unsent
  <1>8. PICK x, y : x = SubSeq(u, 1, n - a) /\ y = SubSeq(e, a + 1, n)
    OBVIOUS
  <1>9. /\ n - a \in Nat /\ n - a <= Len(u) /\ a <= n /\ n <= Len(e) /\ n \in Nat
    BY <1>2, <1>3, <1>5
  <1>10. x \in Seq(B) /\ Len(x) = n - a /\ \A i \in 1..(n - a) : x[i] = u[i]
    BY <1>5, <1>8, <1>9, Prefix
  <1>11. y \in Seq(B) /\ Len(y) = n - a /\ \A i \in 1..(n - a) : y[i] = e[a + i]
    BY <1>2, <1>8, <1>9, Slice
  <1>12. x = y
    <2>1. \A i \in 1..(n - a) : x[i] = y[i]
      BY <1>5, <1>9, <1>10, <1>11
    <2> QED
      BY <1>10, <1>11, <2>1, SameSeq
  <1> QED
    BY <1>1, <1>3, <1>7, <1>8, <1>10, <1>12

-----------------------------------------------------------------------------
(* One direction.  The next byte of every record on the wire, and of the   *)
(* queue behind them, is byte off[i] + 1 of frame no[i]: the first record  *)
(* goes on where the receiver's buffer ends, each further one where the    *)
(* record before it ends, and the queue where the last record ends.        *)

Enc(acc, i) == EncodeFrame(acc[i])

LaneTypes(d, q, w, b, acc, del, no, off) ==
  /\ acc \in Seq(Outgoing[d]) /\ del \in Seq(Outgoing[d])
  /\ q \in Seq([data : Bytes, sent : Nat])
  /\ w \in Seq(Bytes) /\ b \in Bytes
  /\ no \in [1..(Len(w) + 1) -> Nat] /\ off \in [1..(Len(w) + 1) -> Nat]

\* The frames before no were delivered, and off bytes of frame no are in the buffer.
LaneRead(b, acc, del, no, off) ==
  /\ no = Len(del) + 1
  /\ \A i \in 1..Len(del) : i <= Len(acc) /\ del[i] = acc[i]
  /\ off = 0 => b = <<>>
  /\ off # 0 => /\ no \in 1..Len(acc) /\ off < Len(Enc(acc, no))
                /\ b = SubSeq(Enc(acc, no), 1, off)

\* The record x holds the bytes of frame no behind off, up to byte off2 of no2.
LaneRecord(x, acc, no, off, no2, off2) ==
  /\ no \in 1..Len(acc) /\ off < Len(Enc(acc, no))
  /\ x = SubSeq(Enc(acc, no), off + 1, RecordEnd(Enc(acc, no), off))
  /\ RecordEnd(Enc(acc, no), off) = Len(Enc(acc, no)) => no2 = no + 1 /\ off2 = 0
  /\ RecordEnd(Enc(acc, no), off) # Len(Enc(acc, no)) =>
       no2 = no /\ off2 = RecordEnd(Enc(acc, no), off)

LaneWire(w, acc, no, off) ==
  \A i \in 1..Len(w) : LaneRecord(w[i], acc, no[i], off[i], no[i + 1], off[i + 1])

\* The frames from no on are in the queue, off bytes of the first one sent.
LaneQueue(q, acc, no, off) ==
  /\ no + Len(q) = Len(acc) + 1
  /\ \A j \in 1..Len(q) : /\ q[j].data = Enc(acc, no + j - 1)
                          /\ q[j].sent = IF j = 1 THEN off ELSE 0
  /\ IF q = <<>> THEN off = 0 ELSE off < Len(Enc(acc, no))

Lane(d, q, w, b, acc, del, no, off) ==
  /\ LaneTypes(d, q, w, b, acc, del, no, off)
  /\ LaneRead(b, acc, del, no[1], off[1])
  /\ LaneWire(w, acc, no, off)
  /\ LaneQueue(q, acc, no[Len(w) + 1], off[Len(w) + 1])

LEMMA EncBytes ==
  ASSUME NEW d \in Direction, NEW acc \in Seq(Outgoing[d]), NEW i \in 1..Len(acc)
  PROVE  /\ Fits(d, acc[i]) /\ Enc(acc, i) \in Bytes
         /\ Len(Enc(acc, i)) \in 5..FrameMax /\ FrameMax \in Nat
         /\ Len(Enc(acc, i)) \in Nat
  <1>1. acc[i] \in Outgoing[d]
    OBVIOUS
  <1>2. Fits(d, acc[i])
    BY <1>1, OutgoingFits
  <1>3. /\ Enc(acc, i) \in Bytes /\ Len(Enc(acc, i)) \in 5..FrameMax
        /\ FrameMax \in Nat
    BY <1>2, EncodedLength DEF Enc
  <1> QED
    BY <1>2, <1>3

LEMMA EmptyLane ==
  ASSUME NEW d \in Direction
  PROVE  \E no, off : Lane(d, <<>>, <<>>, <<>>, <<>>, <<>>, no, off)
  <1>1. PICK no, off : no = [i \in 1..1 |-> 1] /\ off = [i \in 1..1 |-> 0]
    OBVIOUS
  <1>2. LaneTypes(d, <<>>, <<>>, <<>>, <<>>, <<>>, no, off)
    BY <1>1 DEF LaneTypes, Bytes
  <1>3. LaneRead(<<>>, <<>>, <<>>, no[1], off[1])
    BY <1>1 DEF LaneRead
  <1>4. LaneWire(<<>>, <<>>, no, off)
    BY DEF LaneWire
  <1>5. LaneQueue(<<>>, <<>>, no[1], off[1])
    BY <1>1 DEF LaneQueue
  <1>6. Lane(d, <<>>, <<>>, <<>>, <<>>, <<>>, no, off)
    BY <1>2, <1>3, <1>4, <1>5 DEF Lane
  <1> QED
    BY <1>6

\* The place behind the last record.
LEMMA LastPlace ==
  ASSUME NEW d, NEW q, NEW w, NEW b, NEW acc, NEW del, NEW no, NEW off,
         Lane(d, q, w, b, acc, del, no, off),
         NEW n, n = no[Len(w) + 1], NEW o, o = off[Len(w) + 1]
  PROVE  n \in Nat /\ o \in Nat /\ n >= 1 /\ n + Len(q) = Len(acc) + 1
  <1>1. /\ LaneTypes(d, q, w, b, acc, del, no, off) /\ LaneRead(b, acc, del, no[1], off[1])
        /\ LaneWire(w, acc, no, off)
        /\ LaneQueue(q, acc, no[Len(w) + 1], off[Len(w) + 1])
    BY DEF Lane
  <1>2. /\ w \in Seq(Bytes) /\ no \in [1..(Len(w) + 1) -> Nat]
        /\ off \in [1..(Len(w) + 1) -> Nat]
        /\ del \in Seq(Outgoing[d]) /\ acc \in Seq(Outgoing[d])
    BY <1>1 DEF LaneTypes
  <1>3. Len(w) + 1 \in 1..(Len(w) + 1)
    BY <1>2
  <1>4. n + Len(q) = Len(acc) + 1
    BY <1>1 DEF LaneQueue
  <1>5. n \in Nat /\ o \in Nat
    BY <1>2, <1>3
  <1>6. n >= 1
    <2>1. CASE Len(w) = 0
      <3>1. n = Len(del) + 1
        BY <1>1, <2>1 DEF LaneRead
      <3> QED
        BY <1>2, <3>1
    <2>2. CASE Len(w) > 0
      <3>1. LaneRecord(w[Len(w)], acc, no[Len(w)], off[Len(w)], n, o)
        <4>1. Len(w) \in 1..Len(w)
          BY <1>2, <2>2
        <4> QED
          BY <1>1, <4>1, Zenon DEF LaneWire
      <3> QED
        BY <1>2, <3>1 DEF LaneRecord
    <2> QED
      BY <1>2, <2>1, <2>2
  <1> QED
    BY <1>4, <1>5, <1>6

\* What the parts of the invariant say of the frames accepted so far does not
\* change when another one is.
LEMMA QueueLane ==
  ASSUME NEW d \in Direction, NEW q, NEW w, NEW b, NEW acc, NEW del, NEW no, NEW off,
         Lane(d, q, w, b, acc, del, no, off), NEW f \in Outgoing[d],
         NEW q2, q2 = Append(q, [data |-> EncodeFrame(f), sent |-> 0]),
         NEW acc2, acc2 = Append(acc, f)
  PROVE  Lane(d, q2, w, b, acc2, del, no, off)
  <1>1. /\ LaneTypes(d, q, w, b, acc, del, no, off) /\ LaneRead(b, acc, del, no[1], off[1])
        /\ LaneWire(w, acc, no, off)
        /\ LaneQueue(q, acc, no[Len(w) + 1], off[Len(w) + 1])
    BY DEF Lane
  <1>2. acc \in Seq(Outgoing[d]) /\ Len(acc) \in Nat
    BY <1>1 DEF LaneTypes
  <1>3. /\ acc2 \in Seq(Outgoing[d]) /\ Len(acc2) = Len(acc) + 1
        /\ \A i \in 1..Len(acc) : acc2[i] = acc[i]
        /\ acc2[Len(acc) + 1] = f
    BY <1>2
  <1>4. \A i \in 1..Len(acc) : Enc(acc2, i) = Enc(acc, i) /\ i \in 1..Len(acc2)
    BY <1>2, <1>3 DEF Enc
  <1>5. EncodeFrame(f) \in Bytes /\ Len(EncodeFrame(f)) \in 5..FrameMax /\ FrameMax \in Nat
    BY OutgoingFits, EncodedLength
  <1>6. PICK e : e = EncodeFrame(f)
    OBVIOUS
  <1>7. q \in Seq([data : Bytes, sent : Nat]) /\ Len(q) \in Nat
    BY <1>1 DEF LaneTypes
  <1>8. [data |-> e, sent |-> 0] \in [data : Bytes, sent : Nat]
    BY <1>5, <1>6
  <1>9. /\ q2 \in Seq([data : Bytes, sent : Nat]) /\ Len(q2) = Len(q) + 1
        /\ \A j \in 1..Len(q) : q2[j] = q[j]
        /\ q2[Len(q) + 1] = [data |-> e, sent |-> 0]
    BY <1>6, <1>7, <1>8
  <1>10. LaneTypes(d, q2, w, b, acc2, del, no, off)
    BY <1>1, <1>3, <1>9 DEF LaneTypes
  <1>11. LaneRead(b, acc2, del, no[1], off[1])
    <2>1. del \in Seq(Outgoing[d])
      BY <1>1 DEF LaneTypes
    <2>2. \A i \in 1..Len(del) : i \in 1..Len(acc) /\ del[i] = acc[i]
      BY <1>1, <1>2, <2>1 DEF LaneRead
    <2>3. \A i \in 1..Len(del) : i <= Len(acc2) /\ del[i] = acc2[i]
      BY <1>2, <1>3, <2>1, <2>2
    <2> QED
      BY <1>1, <1>4, <2>3 DEF LaneRead
  <1>12. LaneWire(w, acc2, no, off)
    <2> SUFFICES ASSUME NEW i \in 1..Len(w)
                 PROVE  LaneRecord(w[i], acc2, no[i], off[i], no[i + 1], off[i + 1])
      BY DEF LaneWire
    <2>1. LaneRecord(w[i], acc, no[i], off[i], no[i + 1], off[i + 1])
      BY <1>1 DEF LaneWire
    <2>2. no[i] \in 1..Len(acc2) /\ Enc(acc2, no[i]) = Enc(acc, no[i])
      BY <1>4, <2>1 DEF LaneRecord
    <2> QED
      BY <2>1, <2>2 DEF LaneRecord
  <1>13. LaneQueue(q2, acc2, no[Len(w) + 1], off[Len(w) + 1])
    <2>1. PICK n, o : n = no[Len(w) + 1] /\ o = off[Len(w) + 1]
      OBVIOUS
    <2>2. n \in Nat /\ o \in Nat /\ n >= 1 /\ n + Len(q) = Len(acc) + 1
      BY <2>1, LastPlace
    <2>3. n + Len(q2) = Len(acc2) + 1
      <3>1. Len(q2) = Len(q) + 1 /\ Len(acc2) = Len(acc) + 1
        BY <1>3, <1>9
      <3>2. Len(q) \in Nat /\ Len(acc) \in Nat
        BY <1>2, <1>7
      <3> QED
        BY <2>2, <3>1, <3>2
    <2>4. /\ \A j \in 1..Len(q) : /\ q[j].data = Enc(acc, n + j - 1)
                                  /\ q[j].sent = IF j = 1 THEN o ELSE 0
          /\ IF q = <<>> THEN o = 0 ELSE o < Len(Enc(acc, n))
      BY <1>1, <2>1 DEF LaneQueue
    <2>5. ASSUME NEW j \in 1..Len(q2)
          PROVE  q2[j].data = Enc(acc2, n + j - 1) /\ q2[j].sent = IF j = 1 THEN o ELSE 0
      <3>1. CASE j \in 1..Len(q)
        <4>1. n + j - 1 \in 1..Len(acc)
          BY <1>2, <1>7, <2>2, <3>1
        <4> QED
          BY <1>4, <1>9, <2>4, <3>1, <4>1
      <3>2. CASE j = Len(q) + 1
        <4>1. n + j - 1 = Len(acc) + 1
          BY <1>2, <1>7, <2>2, <3>2
        <4>2. q2[j].data = e /\ q2[j].sent = 0
          BY <1>9, <3>2
        <4>3. Enc(acc2, n + j - 1) = e
          BY <1>3, <1>6, <4>1 DEF Enc
        <4>4. j = 1 => o = 0
          BY <1>7, <2>4, <3>2
        <4> QED
          BY <4>2, <4>3, <4>4
      <3> QED
        BY <1>7, <1>9, <3>1, <3>2
    <2>6. q2 # <<>> /\ o < Len(Enc(acc2, n))
      <3>1. CASE q = <<>>
        <4>1. n = Len(acc) + 1
          BY <1>2, <2>2, <3>1
        <4>2. Enc(acc2, n) = e
          BY <1>3, <1>6, <4>1 DEF Enc
        <4> QED
          BY <1>5, <1>6, <1>9, <2>4, <3>1, <4>2
      <3>2. CASE q # <<>>
        <4>1. n \in 1..Len(acc)
          BY <1>2, <1>7, <2>2, <3>2
        <4> QED
          <5>1. o < Len(Enc(acc, n)) /\ Enc(acc2, n) = Enc(acc, n)
            BY <1>4, <2>4, <3>2, <4>1
          <5>2. Len(q2) # 0
            BY <1>7, <1>9
          <5> QED
            BY <5>1, <5>2
      <3> QED
        BY <3>1, <3>2
    <2>7. LaneQueue(q2, acc2, n, o)
      BY <2>3, <2>5, <2>6 DEF LaneQueue
    <2> QED
      BY <2>1, <2>7
  <1> QED
    BY <1>10, <1>11, <1>12, <1>13 DEF Lane

\* Drain(d) sends the record x.
Sends(q, w, x, q2, w2) ==
  /\ q # <<>> /\ x = Record(q) /\ w2 = Append(w, x) /\ q2 = Advance(q, Len(x))

LEMMA DrainLane ==
  ASSUME NEW d \in Direction, NEW q, NEW w, NEW b, NEW acc, NEW del, NEW no, NEW off,
         Lane(d, q, w, b, acc, del, no, off),
         NEW x, NEW q2, NEW w2, Sends(q, w, x, q2, w2)
  PROVE  \E no2, off2 : Lane(d, q2, w2, b, acc, del, no2, off2)
  <1>1. /\ LaneTypes(d, q, w, b, acc, del, no, off) /\ LaneRead(b, acc, del, no[1], off[1])
        /\ LaneWire(w, acc, no, off)
        /\ LaneQueue(q, acc, no[Len(w) + 1], off[Len(w) + 1])
    BY DEF Lane
  <1>2. PICK l, n, o : l = Len(w) + 1 /\ n = no[l] /\ o = off[l]
    OBVIOUS
  <1>3. /\ w \in Seq(Bytes) /\ Len(w) \in Nat /\ l \in Nat \ {0}
        /\ no \in [1..l -> Nat] /\ off \in [1..l -> Nat]
        /\ acc \in Seq(Outgoing[d]) /\ Len(acc) \in Nat
        /\ q \in Seq([data : Bytes, sent : Nat]) /\ Len(q) \in Nat /\ Len(q) >= 1
    <2>1. q # <<>>
      BY DEF Sends
    <2> QED
      BY <1>1, <1>2, <2>1 DEF LaneTypes
  <1>4. n \in Nat /\ o \in Nat /\ n >= 1 /\ n + Len(q) = Len(acc) + 1
    BY <1>2, LastPlace
  <1>5. /\ \A j \in 1..Len(q) : /\ q[j].data = Enc(acc, n + j - 1)
                                /\ q[j].sent = IF j = 1 THEN o ELSE 0
        /\ o < Len(Enc(acc, n))
    BY <1>1, <1>2 DEF LaneQueue, Sends
  <1>6. n \in 1..Len(acc)
    BY <1>3, <1>4
  <1>7. PICK e, r : e = Enc(acc, n) /\ r = RecordEnd(e, o)
    OBVIOUS
  <1>8. e \in Bytes /\ Len(e) \in Nat /\ Len(e) >= 5
    <2>1. acc \in Seq(Outgoing[d])
      BY <1>3
    <2>2. /\ Enc(acc, n) \in Bytes
          /\ Len(Enc(acc, n)) \in 5..FrameMax /\ FrameMax \in Nat
          /\ Len(Enc(acc, n)) \in Nat
      BY <1>6, <2>1, EncBytes
    <2> QED
      BY <1>7, <2>2
  <1>9. q[1].data = e /\ q[1].sent = o /\ o < Len(e)
    <2>1. 1 \in 1..Len(q) /\ n + 1 - 1 = n
      BY <1>3, <1>4
    <2>2. q[1].data = Enc(acc, n + 1 - 1) /\ q[1].sent = o
      BY <1>5, <2>1
    <2> QED
      BY <1>5, <1>7, <2>1, <2>2
  <1>10. x = SubSeq(e, o + 1, r) /\ r \in (o + 1)..Len(e) /\ Len(x) = r - o
    <2>1. x = Record(q)
      BY DEF Sends
    <2> QED
      BY <1>4, <1>7, <1>8, <1>9, <2>1, RecordIsPiece
  <1>11. x \in Bytes
    <2>1. PICK B : B = 0..(Radix - 1)
      OBVIOUS
    <2>2. e \in Seq(B) /\ o \in Nat /\ r \in Nat /\ o <= r /\ r <= Len(e)
      BY <1>4, <1>8, <1>10, <2>1 DEF Bytes
    <2>3. x \in Seq(B) /\ Len(x) = r - o /\ \A i \in 1..(r - o) : x[i] = e[o + i]
      BY <1>10, <2>2, Slice
    <2> QED
      BY <2>1, <2>3 DEF Bytes
  <1>12. /\ w2 \in Seq(Bytes) /\ Len(w2) = l /\ w2[l] = x
         /\ \A i \in 1..Len(w) : w2[i] = w[i]
    <2>1. w2 = Append(w, x)
      BY DEF Sends
    <2> QED
      BY <1>2, <1>3, <1>11, <2>1
  <1>13. PICK n2, o2 : /\ n2 = (IF r = Len(e) THEN n + 1 ELSE n)
                       /\ o2 = (IF r = Len(e) THEN 0 ELSE r)
    OBVIOUS
  <1>14. n2 \in Nat /\ o2 \in Nat
    BY <1>4, <1>10, <1>13
  <1>15. PICK no2, off2 : /\ no2 = [i \in 1..(l + 1) |-> IF i <= l THEN no[i] ELSE n2]
                          /\ off2 = [i \in 1..(l + 1) |-> IF i <= l THEN off[i] ELSE o2]
    OBVIOUS
  <1>16. /\ no2 \in [1..(Len(w2) + 1) -> Nat] /\ off2 \in [1..(Len(w2) + 1) -> Nat]
         /\ \A i \in 1..l : no2[i] = no[i] /\ off2[i] = off[i]
         /\ no2[l + 1] = n2 /\ off2[l + 1] = o2
    <2>1. \A i \in 1..l : no[i] \in Nat /\ off[i] \in Nat
      BY <1>3
    <2> QED
      BY <1>3, <1>12, <1>14, <1>15, <2>1
  <1>17. /\ q2 \in Seq([data : Bytes, sent : Nat])
         /\ r = Len(e) => Len(q2) = Len(q) - 1 /\ \A j \in 1..Len(q2) : q2[j] = q[j + 1]
         /\ r # Len(e) => /\ Len(q2) = Len(q)
                          /\ q2[1].data = e /\ q2[1].sent = r
                          /\ \A j \in 2..Len(q2) : q2[j] = q[j]
    <2>1. q[1].sent + Len(x) = r
      <3>1. q[1].sent = o /\ Len(x) = r - o /\ r \in Int
        BY <1>4, <1>8, <1>9, <1>10
      <3> QED
        BY <1>4, <3>1
    <2>2. CASE r = Len(e)
      <3>1. q2 = Tail(q)
        BY <1>8, <1>9, <2>1, <2>2 DEF Advance, Sends
      <3> QED
        BY <1>3, <2>2, <3>1
    <2>3. CASE r # Len(e)
      <3>1. ~(r >= Len(e))
        BY <1>4, <1>8, <1>10, <2>3
      <3>2. q2 = [q EXCEPT ![1].sent = @ + Len(x)]
        BY <1>9, <2>1, <3>1 DEF Advance, Sends
      <3>3. PICK m : m = [q[1] EXCEPT !.sent = @ + Len(x)]
        OBVIOUS
      <3>4. q[1] \in [data : Bytes, sent : Nat]
        <4>1. 1 \in 1..Len(q)
          BY <1>3
        <4>2. q \in Seq([data : Bytes, sent : Nat])
          BY <1>3
        <4>3. PICK S : S = [data : Bytes, sent : Nat]
          OBVIOUS
        <4>4. q \in Seq(S)
          BY <4>2, <4>3, Zenon
        <4>5. q[1] \in S
          BY <4>1, <4>4
        <4> QED
          BY <4>3, <4>5
      <3>5. m.data = e /\ m.sent = r /\ m \in [data : Bytes, sent : Nat]
        <4>1. m.data = q[1].data /\ m.sent = q[1].sent + Len(x)
          BY <3>3, <3>4
        <4>2. r \in Nat
          BY <1>4, <1>10
        <4>3. m = [data |-> e, sent |-> r]
          BY <1>9, <2>1, <3>3, <3>4
        <4> QED
          BY <1>8, <4>2, <4>3
      <3>6. q2 = [q EXCEPT ![1] = m]
        BY <3>2, <3>3
      <3> QED
        BY <1>3, <2>3, <3>5, <3>6
    <2> QED
      BY <2>2, <2>3
  <1>18. LaneTypes(d, q2, w2, b, acc, del, no2, off2)
    BY <1>1, <1>12, <1>16, <1>17 DEF LaneTypes
  <1>19. LaneRead(b, acc, del, no2[1], off2[1])
    <2>1. no2[1] = no[1] /\ off2[1] = off[1]
      BY <1>3, <1>16
    <2> QED
      BY <1>1, <2>1
  <1>20. LaneWire(w2, acc, no2, off2)
    <2> SUFFICES ASSUME NEW i \in 1..Len(w2)
                 PROVE  LaneRecord(w2[i], acc, no2[i], off2[i], no2[i + 1], off2[i + 1])
      BY DEF LaneWire
    <2>1. CASE i \in 1..Len(w)
      <3>1. LaneRecord(w[i], acc, no[i], off[i], no[i + 1], off[i + 1])
        BY <1>1, <2>1 DEF LaneWire
      <3>2. i \in 1..l /\ i + 1 \in 1..l
        BY <1>2, <1>3, <2>1
      <3>3. no2[i] = no[i] /\ off2[i] = off[i] /\ no2[i + 1] = no[i + 1] /\ off2[i + 1] = off[i + 1]
        BY <1>16, <3>2
      <3> QED
        BY <1>12, <2>1, <3>1, <3>3
    <2>2. CASE i = l
      <3>1. LaneRecord(x, acc, n, o, n2, o2)
        BY <1>6, <1>7, <1>9, <1>10, <1>13 DEF LaneRecord
      <3>2. no2[l] = n /\ off2[l] = o
        <4>1. l \in 1..l
          BY <1>3
        <4> QED
          BY <1>2, <1>16, <4>1
      <3> QED
        BY <1>12, <1>16, <2>2, <3>1, <3>2
    <2> QED
      BY <1>2, <1>3, <1>12, <2>1, <2>2
  <1>21. LaneQueue(q2, acc, n2, o2)
    <2>1. CASE r = Len(e)
      <3>1. n2 = n + 1 /\ o2 = 0 /\ Len(q2) = Len(q) - 1 /\ \A j \in 1..Len(q2) : q2[j] = q[j + 1]
        BY <1>13, <1>17, <2>1
      <3>2. n2 + Len(q2) = Len(acc) + 1
        <4>1. Len(q) \in Nat /\ Len(acc) \in Nat
          BY <1>3
        <4>2. n2 = n + 1 /\ Len(q2) = Len(q) - 1
          BY <3>1
        <4> QED
          BY <1>4, <4>1, <4>2
      <3>3. ASSUME NEW j \in 1..Len(q2)
            PROVE  q2[j].data = Enc(acc, n2 + j - 1) /\ q2[j].sent = 0
        <4>1. j + 1 \in 1..Len(q) /\ j + 1 # 1 /\ n + (j + 1) - 1 = n2 + j - 1
          <5>1. Len(q) \in Nat /\ Len(q2) = Len(q) - 1 /\ n2 = n + 1
            BY <1>3, <3>1
          <5>2. j \in Nat /\ j >= 1 /\ j <= Len(q) - 1
            BY <5>1
          <5> QED
            BY <1>4, <5>1, <5>2
        <4>2. q[j + 1].data = Enc(acc, n + (j + 1) - 1) /\ q[j + 1].sent = 0
          BY <1>5, <4>1
        <4> QED
          BY <3>1, <4>1, <4>2
      <3>4. ASSUME q2 # <<>> PROVE o2 < Len(Enc(acc, n2))
        <4>1. n2 \in 1..Len(acc)
          BY <1>3, <1>4, <1>17, <3>1, <3>2, <3>4
        <4> QED
          <5>1. acc \in Seq(Outgoing[d])
            BY <1>3
          <5>2. Len(Enc(acc, n2)) \in 5..FrameMax /\ FrameMax \in Nat
            BY <4>1, <5>1, EncBytes
          <5> QED
            BY <3>1, <5>2
      <3> QED
        BY <3>1, <3>2, <3>3, <3>4 DEF LaneQueue
    <2>2. CASE r # Len(e)
      <3>1. /\ n2 = n /\ o2 = r /\ Len(q2) = Len(q) /\ q2[1].data = e /\ q2[1].sent = r
            /\ \A j \in 2..Len(q2) : q2[j] = q[j]
        BY <1>13, <1>17, <2>2
      <3>2. n2 + Len(q2) = Len(acc) + 1
        BY <1>4, <3>1
      <3>3. ASSUME NEW j \in 1..Len(q2)
            PROVE  q2[j].data = Enc(acc, n2 + j - 1) /\ q2[j].sent = IF j = 1 THEN o2 ELSE 0
        <4>1. CASE j = 1
          <5>1. n2 + j - 1 = n
            BY <1>4, <3>1, <4>1
          <5> QED
            BY <1>7, <3>1, <4>1, <5>1
        <4>2. CASE j # 1
          <5>1. j \in 2..Len(q2) /\ j \in 1..Len(q)
            BY <1>3, <3>1, <4>2
          <5> QED
            BY <1>5, <3>1, <4>2, <5>1
        <4> QED
          BY <4>1, <4>2
      <3>4. q2 # <<>> /\ o2 < Len(Enc(acc, n2))
        <4>1. r < Len(e)
          BY <1>4, <1>8, <1>10, <2>2
        <4> QED
          BY <1>3, <1>7, <1>17, <3>1, <4>1
      <3> QED
        BY <3>2, <3>3, <3>4 DEF LaneQueue
    <2> QED
      BY <2>1, <2>2
  <1>22. LaneQueue(q2, acc, no2[Len(w2) + 1], off2[Len(w2) + 1])
    BY <1>12, <1>16, <1>21
  <1>23. Lane(d, q2, w2, b, acc, del, no2, off2)
    BY <1>18, <1>19, <1>20, <1>22 DEF Lane
  <1> QED
    BY <1>23

\* Recv(d) takes k bytes of the first record x on the wire behind b.
Reads(w, b, x, k, b2) ==
  /\ w # <<>> /\ x = Head(w)
  /\ k = Lesser(Len(x), FrameMax - Len(b))
  /\ b2 = b \o SubSeq(x, 1, k)

\* The record fits, and it completes the frame that is due or leaves a shorter
\* part of it.
LEMMA RecvLane ==
  ASSUME NEW d \in Direction, NEW q, NEW w, NEW b, NEW acc, NEW del, NEW no, NEW off,
         Lane(d, q, w, b, acc, del, no, off),
         NEW x, NEW k, NEW b2, Reads(w, b, x, k, b2)
  PROVE  /\ SubSeq(x, k + 1, Len(x)) = <<>>
         /\ Whole(d, b2) => /\ Len(del) < Len(acc)
                            /\ FrameOf(d, b2) = acc[Len(del) + 1]
         /\ \E no2, off2 :
              Lane(d, q, Tail(w), After(d, b2), acc,
                   IF Whole(d, b2) THEN Append(del, FrameOf(d, b2)) ELSE del, no2, off2)
  <1>1. /\ LaneTypes(d, q, w, b, acc, del, no, off) /\ LaneRead(b, acc, del, no[1], off[1])
        /\ LaneWire(w, acc, no, off)
        /\ LaneQueue(q, acc, no[Len(w) + 1], off[Len(w) + 1])
    BY DEF Lane
  <1>2. PICK n, o, n2, o2, B : /\ n = no[1] /\ o = off[1] /\ n2 = no[2] /\ o2 = off[2]
                               /\ B = 0..(Radix - 1)
    OBVIOUS
  <1>3. /\ w \in Seq(Bytes) /\ Len(w) \in Nat /\ Len(w) >= 1
        /\ no \in [1..(Len(w) + 1) -> Nat] /\ off \in [1..(Len(w) + 1) -> Nat]
        /\ acc \in Seq(Outgoing[d]) /\ Len(acc) \in Nat
        /\ del \in Seq(Outgoing[d]) /\ Len(del) \in Nat
        /\ b \in Bytes
    <2>1. w # <<>>
      BY DEF Reads
    <2>2. /\ w \in Seq(Bytes) /\ acc \in Seq(Outgoing[d]) /\ del \in Seq(Outgoing[d])
          /\ b \in Bytes
          /\ no \in [1..(Len(w) + 1) -> Nat] /\ off \in [1..(Len(w) + 1) -> Nat]
      BY <1>1 DEF LaneTypes
    <2> QED
      BY <2>1, <2>2
  <1>4. x = w[1] /\ 1 \in 1..Len(w)
    <2>1. x = Head(w)
      BY DEF Reads
    <2> QED
      BY <1>3, <2>1
  <1>5. LaneRecord(x, acc, n, o, n2, o2)
    <2>1. LaneRecord(w[1], acc, no[1], off[1], no[1 + 1], off[1 + 1])
      BY <1>1, <1>4 DEF LaneWire
    <2>2. 1 + 1 = 2
      OBVIOUS
    <2> QED
      BY <1>2, <1>4, <2>1, <2>2
  <1>6. n \in Nat /\ o \in Nat
    <2>1. no \in [1..(Len(w) + 1) -> Nat] /\ off \in [1..(Len(w) + 1) -> Nat]
      BY <1>3
    <2>2. 1 \in 1..(Len(w) + 1)
      BY <1>3
    <2> QED
      BY <1>2, <2>1, <2>2
  <1>7. PICK e, r : e = Enc(acc, n) /\ r = RecordEnd(e, o)
    OBVIOUS
  <1>8. /\ n \in 1..Len(acc) /\ o < Len(e) /\ x = SubSeq(e, o + 1, r)
        /\ r = Len(e) => n2 = n + 1 /\ o2 = 0
        /\ r # Len(e) => n2 = n /\ o2 = r
    BY <1>5, <1>7 DEF LaneRecord
  <1>9. /\ Fits(d, acc[n]) /\ e \in Bytes /\ Len(e) \in 5..FrameMax /\ FrameMax \in Nat
        /\ Len(e) \in Nat
    BY <1>3, <1>7, <1>8, EncBytes
  <1>10. r \in (o + 1)..Len(e)
    BY <1>6, <1>7, <1>8, <1>9, Sizes DEF RecordEnd, Lesser
  <1>11. e \in Seq(B) /\ r \in Nat /\ o <= r /\ r <= Len(e)
    BY <1>2, <1>6, <1>9, <1>10 DEF Bytes
  <1>12. x \in Seq(B) /\ Len(x) = r - o
    BY <1>6, <1>8, <1>11, Slice
  <1>13. /\ n = Len(del) + 1 /\ \A i \in 1..Len(del) : i <= Len(acc) /\ del[i] = acc[i]
         /\ o = 0 => b = <<>>
         /\ o # 0 => b = SubSeq(e, 1, o)
    BY <1>1, <1>2, <1>7 DEF LaneRead
  <1>14. b = SubSeq(e, 1, o) /\ Len(b) = o
    <2>1. PICK y : y = SubSeq(e, 1, o)
      OBVIOUS
    <2>2. y \in Seq(B) /\ Len(y) = o
      <3>1. o <= Len(e)
        BY <1>6, <1>8, <1>9
      <3> QED
        BY <1>6, <1>11, <2>1, <3>1, Prefix
    <2>3. o = 0 => y = <<>>
      BY <2>2
    <2> QED
      BY <1>13, <2>1, <2>2, <2>3
  <1>15. k = Len(x)
    <2>1. k = Lesser(r - o, FrameMax - o)
      BY <1>12, <1>14 DEF Reads
    <2> QED
      BY <1>6, <1>9, <1>10, <1>12, <2>1 DEF Lesser
  <1>16. SubSeq(x, 1, k) = x /\ SubSeq(x, k + 1, Len(x)) = <<>>
    BY <1>12, <1>15
  <1>17. b2 = SubSeq(e, 1, r)
    <2>1. b2 = b \o x
      BY <1>16 DEF Reads
    <2>2. b \o x = SubSeq(e, 1, r)
      <3>1. b = SubSeq(e, 1, o) /\ x = SubSeq(e, o + 1, r)
        BY <1>8, <1>14
      <3> QED
        BY <1>6, <1>11, <3>1, Adjacent
    <2> QED
      BY <2>1, <2>2
  <1>18. (Whole(d, b2) <=> r = Len(e)) /\ (r = Len(e) => FrameOf(d, b2) = acc[n])
    <2>1. PICK f : f = acc[n]
      OBVIOUS
    <2>2. Fits(d, f) /\ FirstBytes(f, e, r, b2)
      BY <1>7, <1>9, <1>11, <1>17, <2>1 DEF Enc, FirstBytes
    <2>3. (Whole(d, b2) <=> r = Len(e)) /\ (r = Len(e) => FrameOf(d, b2) = f)
      BY <2>2, Decoding
    <2> QED
      BY <2>1, <2>3
  <1>19. Whole(d, b2) => Len(del) < Len(acc) /\ FrameOf(d, b2) = acc[Len(del) + 1]
    BY <1>3, <1>8, <1>13, <1>18
  <1>20. PICK w2, no2, off2 : /\ w2 = Tail(w)
                              /\ no2 = [i \in 1..Len(w) |-> no[i + 1]]
                              /\ off2 = [i \in 1..Len(w) |-> off[i + 1]]
    OBVIOUS
  <1>21. /\ w2 \in Seq(Bytes) /\ Len(w2) = Len(w) - 1
         /\ \A i \in 1..Len(w2) : w2[i] = w[i + 1]
    BY <1>3, <1>20
  <1>22. /\ no2 \in [1..(Len(w2) + 1) -> Nat] /\ off2 \in [1..(Len(w2) + 1) -> Nat]
         /\ \A i \in 1..Len(w) : no2[i] = no[i + 1] /\ off2[i] = off[i + 1]
    <2>1. ASSUME NEW i \in 1..Len(w) PROVE no[i + 1] \in Nat /\ off[i + 1] \in Nat
      <3>1. no \in [1..(Len(w) + 1) -> Nat] /\ off \in [1..(Len(w) + 1) -> Nat]
        BY <1>3
      <3>2. i + 1 \in 1..(Len(w) + 1)
        BY <1>3
      <3> QED
        BY <3>1, <3>2
    <2>2. Len(w2) + 1 = Len(w)
      BY <1>3, <1>21
    <2> QED
      BY <1>20, <2>1, <2>2
  <1>23. LaneWire(w2, acc, no2, off2)
    <2> SUFFICES ASSUME NEW i \in 1..Len(w2)
                 PROVE  LaneRecord(w2[i], acc, no2[i], off2[i], no2[i + 1], off2[i + 1])
      BY DEF LaneWire
    <2>1. i + 1 \in 1..Len(w) /\ i \in 1..Len(w)
      BY <1>3, <1>21
    <2>2. LaneRecord(w[i + 1], acc, no[i + 1], off[i + 1], no[(i + 1) + 1], off[(i + 1) + 1])
      BY <1>1, <2>1 DEF LaneWire
    <2>3. no2[i] = no[i + 1] /\ off2[i] = off[i + 1]
      BY <1>22, <2>1
    <2>4. no2[i + 1] = no[(i + 1) + 1] /\ off2[i + 1] = off[(i + 1) + 1]
      BY <1>22, <2>1
    <2>5. w2[i] = w[i + 1]
      BY <1>21
    <2> QED
      BY <2>2, <2>3, <2>4, <2>5
  <1>24. LaneQueue(q, acc, no2[Len(w2) + 1], off2[Len(w2) + 1])
    <2>1. Len(w2) + 1 = Len(w) /\ Len(w) \in 1..Len(w)
      BY <1>3, <1>21
    <2>2. no2[Len(w)] = no[Len(w) + 1] /\ off2[Len(w)] = off[Len(w) + 1]
      BY <1>22, <2>1
    <2> QED
      BY <1>1, <2>1, <2>2
  <1>25. no2[1] = n2 /\ off2[1] = o2
    <2>1. no2[1] = no[1 + 1] /\ off2[1] = off[1 + 1]
      BY <1>4, <1>22
    <2>2. 1 + 1 = 2
      OBVIOUS
    <2> QED
      BY <1>2, <2>1, <2>2
  <1>26. PICK b3, del2 : /\ b3 = After(d, b2)
                         /\ del2 = IF Whole(d, b2) THEN Append(del, FrameOf(d, b2)) ELSE del
    OBVIOUS
  <1>27. b3 \in Bytes /\ del2 \in Seq(Outgoing[d]) /\ LaneRead(b3, acc, del2, n2, o2)
    <2>1. CASE r = Len(e)
      <3>1. b3 = <<>> /\ del2 = Append(del, acc[n]) /\ n2 = n + 1 /\ o2 = 0
        BY <1>8, <1>18, <1>26, <2>1 DEF After
      <3>2. acc[n] \in Outgoing[d]
        BY <1>3, <1>8
      <3>3. /\ del2 \in Seq(Outgoing[d]) /\ Len(del2) = Len(del) + 1
            /\ \A i \in 1..Len(del) : del2[i] = del[i]
            /\ del2[Len(del) + 1] = acc[n]
        <4>1. PICK S, f : S = Outgoing[d] /\ f = acc[n]
          OBVIOUS
        <4>2. del \in Seq(S) /\ f \in S /\ del2 = Append(del, f)
          BY <1>3, <3>1, <3>2, <4>1
        <4>3. /\ del2 \in Seq(S) /\ Len(del2) = Len(del) + 1
              /\ \A i \in 1..Len(del) : del2[i] = del[i]
              /\ del2[Len(del) + 1] = f
          BY <4>2
        <4> QED
          BY <4>1, <4>3
      <3>4. n2 = Len(del2) + 1
        BY <1>13, <3>1, <3>3
      <3>5. ASSUME NEW i \in 1..Len(del2) PROVE i <= Len(acc) /\ del2[i] = acc[i]
        <4>1. CASE i \in 1..Len(del)
          BY <1>13, <3>3, <4>1
        <4>2. CASE i = n
          BY <1>3, <1>8, <1>13, <3>3, <4>2
        <4> QED
          BY <1>3, <1>13, <3>3, <4>1, <4>2
      <3>6. LaneRead(b3, acc, del2, n2, o2)
        BY <3>1, <3>4, <3>5 DEF LaneRead
      <3>7. b3 \in Bytes
        BY <3>1 DEF Bytes
      <3> QED
        BY <3>3, <3>6, <3>7
    <2>2. CASE r # Len(e)
      <3>1. b3 = b2 /\ del2 = del /\ n2 = n /\ o2 = r
        BY <1>8, <1>18, <1>26, <2>2 DEF After
      <3>2. b2 \in Seq(B)
        BY <1>11, <1>17, Prefix
      <3>3. r # 0 /\ r < Len(e)
        BY <1>6, <1>9, <1>10, <2>2
      <3>4. LaneRead(b3, acc, del2, n2, o2)
        BY <1>7, <1>8, <1>13, <1>17, <3>1, <3>3 DEF LaneRead
      <3> QED
        BY <1>2, <1>3, <3>1, <3>2, <3>4 DEF Bytes
    <2> QED
      BY <2>1, <2>2
  <1>28. LaneTypes(d, q, w2, b3, acc, del2, no2, off2)
    BY <1>1, <1>21, <1>22, <1>27 DEF LaneTypes
  <1>29. Lane(d, q, w2, b3, acc, del2, no2, off2)
    BY <1>23, <1>24, <1>25, <1>27, <1>28 DEF Lane
  <1> QED
    BY <1>16, <1>19, <1>20, <1>26, <1>29

LEMMA LaneBounds ==
  ASSUME NEW d \in Direction, NEW q, NEW w, NEW b, NEW acc, NEW del, NEW no, NEW off,
         Lane(d, q, w, b, acc, del, no, off)
  PROVE  /\ \A i \in DOMAIN q : q[i].data \in Bytes /\ q[i].sent < Len(q[i].data)
         /\ \A i \in DOMAIN w : w[i] \in Bytes \ {<<>>}
         /\ b \in Bytes /\ Len(b) < FrameMax
  <1>1. /\ LaneTypes(d, q, w, b, acc, del, no, off) /\ LaneRead(b, acc, del, no[1], off[1])
        /\ LaneWire(w, acc, no, off)
        /\ LaneQueue(q, acc, no[Len(w) + 1], off[Len(w) + 1])
    BY DEF Lane
  <1>2. /\ w \in Seq(Bytes) /\ Len(w) \in Nat
        /\ no \in [1..(Len(w) + 1) -> Nat] /\ off \in [1..(Len(w) + 1) -> Nat]
        /\ acc \in Seq(Outgoing[d]) /\ Len(acc) \in Nat /\ b \in Bytes
    BY <1>1 DEF LaneTypes
  <1>3. DOMAIN q = 1..Len(q) /\ Len(q) \in Nat
    BY <1>1 DEF LaneTypes
  <1>4. ASSUME NEW i \in 1..Len(q)
        PROVE  q[i].data \in Bytes /\ q[i].sent < Len(q[i].data)
    <2>1. PICK n, o : n = no[Len(w) + 1] /\ o = off[Len(w) + 1]
      OBVIOUS
    <2>2. n \in Nat /\ o \in Nat /\ n >= 1 /\ n + Len(q) = Len(acc) + 1
      BY <2>1, LastPlace
    <2>3. n + i - 1 \in 1..Len(acc)
      BY <1>2, <1>3, <2>2
    <2>4. PICK e : e = Enc(acc, n + i - 1)
      OBVIOUS
    <2>5. e \in Bytes /\ Len(e) \in Nat /\ Len(e) >= 5
      BY <1>2, <2>3, <2>4, EncBytes
    <2>6. q[i].data = e /\ q[i].sent = (IF i = 1 THEN o ELSE 0) /\ o < Len(Enc(acc, n))
      BY <1>1, <1>3, <2>1, <2>4 DEF LaneQueue
    <2>7. i = 1 => n + i - 1 = n
      BY <2>2
    <2> QED
      BY <2>4, <2>5, <2>6, <2>7
  <1>5. ASSUME NEW i \in 1..Len(w) PROVE w[i] \in Bytes \ {<<>>}
    <2>1. PICK x, n, o, e, B : /\ x = w[i] /\ n = no[i] /\ o = off[i] /\ e = Enc(acc, n)
                               /\ B = 0..(Radix - 1)
      OBVIOUS
    <2>2. /\ n \in 1..Len(acc) /\ o < Len(e) /\ x = SubSeq(e, o + 1, RecordEnd(e, o))
      BY <1>1, <2>1 DEF LaneWire, LaneRecord
    <2>3. o \in Nat
      <3>1. i \in 1..(Len(w) + 1)
        BY <1>2
      <3> QED
        BY <1>2, <2>1, <3>1
    <2>4. e \in Bytes /\ Len(e) \in Nat
      BY <1>2, <2>1, <2>2, EncBytes
    <2>5. PICK r : r = RecordEnd(e, o)
      OBVIOUS
    <2>6. r \in (o + 1)..Len(e)
      BY <2>2, <2>3, <2>4, <2>5, Sizes DEF RecordEnd, Lesser
    <2>7. e \in Seq(B) /\ r \in Nat /\ o <= r /\ r <= Len(e)
      BY <2>1, <2>3, <2>4, <2>6 DEF Bytes
    <2>8. x \in Seq(B) /\ Len(x) = r - o
      <3>1. x = SubSeq(e, o + 1, r)
        BY <2>2, <2>5
      <3> QED
        BY <2>3, <2>7, <3>1, Slice
    <2>9. Len(x) # 0
      BY <2>3, <2>6, <2>8
    <2>10. x # <<>>
      BY <2>9
    <2> QED
      BY <1>2, <2>1, <2>10
  <1>6. Len(b) < FrameMax
    <2>1. PICK n, o : n = no[1] /\ o = off[1]
      OBVIOUS
    <2>2. o \in Nat
      <3>1. 1 \in 1..(Len(w) + 1)
        BY <1>2
      <3> QED
        BY <1>2, <2>1, <3>1
    <2>3. CASE o = 0
      <3>1. b = <<>>
        BY <1>1, <2>1, <2>3 DEF LaneRead
      <3>2. FrameMax = 5 + SigSize + MaxPayload /\ SigSize \in Nat /\ MaxPayload \in Nat
        BY Sizes DEF FrameMax
      <3> QED
        BY <3>1, <3>2
    <2>4. CASE o # 0
      <3>1. PICK e, B : e = Enc(acc, n) /\ B = 0..(Radix - 1)
        OBVIOUS
      <3>2. n \in 1..Len(acc) /\ o < Len(e) /\ b = SubSeq(e, 1, o)
        BY <1>1, <2>1, <2>4, <3>1 DEF LaneRead
      <3>3. e \in Bytes /\ Len(e) \in 5..FrameMax /\ FrameMax \in Nat
        BY <1>2, <3>1, <3>2, EncBytes
      <3>4. e \in Seq(B) /\ o <= Len(e)
        BY <2>2, <3>1, <3>2, <3>3 DEF Bytes
      <3>5. Len(b) = o
        BY <2>2, <3>2, <3>4, Prefix
      <3> QED
        BY <2>2, <3>2, <3>3, <3>5
    <2> QED
      BY <2>3, <2>4
  <1>7. DOMAIN w = 1..Len(w)
    BY <1>2
  <1> QED
    BY <1>2, <1>3, <1>4, <1>5, <1>6, <1>7

-----------------------------------------------------------------------------
(* Both directions.                                                        *)

TwoWays ==
  /\ DOMAIN queue = Direction /\ DOMAIN wire = Direction /\ DOMAIN held = Direction
  /\ DOMAIN inbuf = Direction /\ DOMAIN accepted = Direction /\ DOMAIN delivered = Direction

LaneInv(d) ==
  /\ held[d] = <<>>
  /\ \E no, off : Lane(d, queue[d], wire[d], inbuf[d], accepted[d], delivered[d], no, off)

\* The inductive invariant.
StreamInv == TwoWays /\ \A d \in Direction : LaneInv(d)

\* What a step does in direction c, seen from above.
ChannelStep(c) ==
  \/ /\ \E f \in Outgoing[c] : accepted[c]' = Append(accepted[c], f)
     /\ delivered[c]' = delivered[c]
  \/ /\ Len(delivered[c]) < Len(accepted[c])
     /\ delivered[c]' = Append(delivered[c], accepted[c][Len(delivered[c]) + 1])
     /\ accepted[c]' = accepted[c]
  \/ accepted[c]' = accepted[c] /\ delivered[c]' = delivered[c]

\* Nothing happens in direction c.
Rests(c) ==
  /\ queue[c]' = queue[c] /\ wire[c]' = wire[c] /\ held[c]' = held[c]
  /\ inbuf[c]' = inbuf[c] /\ accepted[c]' = accepted[c] /\ delivered[c]' = delivered[c]

LEMMA RestsLane ==
  ASSUME NEW c, LaneInv(c), Rests(c)
  PROVE  LaneInv(c)' /\ ChannelStep(c)
  BY DEF LaneInv, Rests, ChannelStep

LEMMA StreamInit ==
  ASSUME Init
  PROVE  StreamInv
  <1>1. TwoWays
    BY DEF Init, TwoWays
  <1>2. ASSUME NEW d \in Direction PROVE LaneInv(d)
    <2>1. /\ queue[d] = <<>> /\ wire[d] = <<>> /\ held[d] = <<>> /\ inbuf[d] = <<>>
          /\ accepted[d] = <<>> /\ delivered[d] = <<>>
      BY DEF Init
    <2> QED
      BY <2>1, EmptyLane DEF LaneInv
  <1> QED
    BY <1>1, <1>2 DEF StreamInv

LEMMA QueueStep ==
  ASSUME StreamInv, NEW d \in Direction, NEW f \in Outgoing[d], Queue(d, f)
  PROVE  StreamInv' /\ \A c \in Direction : ChannelStep(c)
  <1>1. TwoWays'
    BY DEF StreamInv, TwoWays, Queue
  <1>2. ASSUME NEW c \in Direction, c # d PROVE Rests(c)
    BY <1>2 DEF StreamInv, TwoWays, Queue, Rests
  <1>3. ASSUME NEW c \in Direction, c # d PROVE LaneInv(c)' /\ ChannelStep(c)
    BY <1>2, <1>3, RestsLane DEF StreamInv
  <1>4. /\ queue[d]' = Append(queue[d], [data |-> EncodeFrame(f), sent |-> 0])
        /\ accepted[d]' = Append(accepted[d], f)
        /\ wire[d]' = wire[d] /\ held[d]' = held[d] /\ inbuf[d]' = inbuf[d]
        /\ delivered[d]' = delivered[d]
    BY DEF StreamInv, TwoWays, Queue
  <1>5. PICK no, off : Lane(d, queue[d], wire[d], inbuf[d], accepted[d], delivered[d], no, off)
    BY DEF StreamInv, LaneInv
  <1>6. PICK q, w, b, acc, del, q2, acc2 :
          /\ q = queue[d] /\ w = wire[d] /\ b = inbuf[d] /\ acc = accepted[d]
          /\ del = delivered[d] /\ q2 = queue[d]' /\ acc2 = accepted[d]'
    OBVIOUS
  <1>7. /\ Lane(d, q, w, b, acc, del, no, off) /\ acc2 = Append(acc, f)
        /\ q2 = Append(q, [data |-> EncodeFrame(f), sent |-> 0])
    BY <1>4, <1>5, <1>6
  <1>8. Lane(d, q2, w, b, acc2, del, no, off)
    BY <1>7, QueueLane
  <1>9. held[d]' = <<>>
    BY <1>4 DEF StreamInv, LaneInv
  <1>10. LaneInv(d)'
    BY <1>4, <1>6, <1>8, <1>9 DEF LaneInv
  <1>11. ChannelStep(d)
    BY <1>4 DEF ChannelStep
  <1> QED
    BY <1>1, <1>3, <1>10, <1>11 DEF StreamInv

LEMMA DrainStep ==
  ASSUME StreamInv, NEW d \in Direction, Drain(d)
  PROVE  StreamInv' /\ \A c \in Direction : ChannelStep(c)
  <1>1. TwoWays'
    BY DEF StreamInv, TwoWays, Drain
  <1>2. ASSUME NEW c \in Direction, c # d PROVE Rests(c)
    BY <1>2 DEF StreamInv, TwoWays, Drain, Rests
  <1>3. ASSUME NEW c \in Direction, c # d PROVE LaneInv(c)' /\ ChannelStep(c)
    BY <1>2, <1>3, RestsLane DEF StreamInv
  <1>4. /\ queue[d] # <<>>
        /\ wire[d]' = Append(wire[d], Record(queue[d]))
        /\ queue[d]' = Advance(queue[d], Len(Record(queue[d])))
        /\ accepted[d]' = accepted[d] /\ held[d]' = held[d] /\ inbuf[d]' = inbuf[d]
        /\ delivered[d]' = delivered[d]
    BY DEF StreamInv, TwoWays, Drain
  <1>5. PICK no, off : Lane(d, queue[d], wire[d], inbuf[d], accepted[d], delivered[d], no, off)
    BY DEF StreamInv, LaneInv
  <1>6. PICK q, w, b, acc, del, q2, w2, x :
          /\ q = queue[d] /\ w = wire[d] /\ b = inbuf[d] /\ acc = accepted[d]
          /\ del = delivered[d] /\ q2 = queue[d]' /\ w2 = wire[d]' /\ x = Record(queue[d])
    OBVIOUS
  <1>7. Lane(d, q, w, b, acc, del, no, off) /\ Sends(q, w, x, q2, w2)
    BY <1>4, <1>5, <1>6 DEF Sends
  <1>8. PICK no2, off2 : Lane(d, q2, w2, b, acc, del, no2, off2)
    BY <1>7, DrainLane
  <1>9. held[d]' = <<>>
    BY <1>4 DEF StreamInv, LaneInv
  <1>10. LaneInv(d)'
    BY <1>4, <1>6, <1>8, <1>9 DEF LaneInv
  <1>11. ChannelStep(d)
    BY <1>4 DEF ChannelStep
  <1> QED
    BY <1>1, <1>3, <1>10, <1>11 DEF StreamInv

LEMMA RecvStep ==
  ASSUME StreamInv, NEW d \in Direction, Recv(d)
  PROVE  StreamInv' /\ \A c \in Direction : ChannelStep(c)
  <1>1. TwoWays'
    BY DEF StreamInv, TwoWays, Recv
  <1>2. ASSUME NEW c \in Direction, c # d PROVE Rests(c)
    BY <1>2 DEF StreamInv, TwoWays, Recv, Rests
  <1>3. ASSUME NEW c \in Direction, c # d PROVE LaneInv(c)' /\ ChannelStep(c)
    BY <1>2, <1>3, RestsLane DEF StreamInv
  <1>4. held[d] = <<>> /\ wire[d] # <<>>
    BY DEF StreamInv, LaneInv, Recv, Readable
  <1>5. PICK no, off : Lane(d, queue[d], wire[d], inbuf[d], accepted[d], delivered[d], no, off)
    BY DEF StreamInv, LaneInv
  <1>6. PICK x, k, b2 : /\ x = Head(wire[d]) /\ k = Lesser(Len(x), FrameMax - Len(inbuf[d]))
                        /\ b2 = inbuf[d] \o SubSeq(x, 1, k)
    OBVIOUS
  <1>7. /\ held[d]' = SubSeq(x, k + 1, Len(x)) /\ wire[d]' = Tail(wire[d])
        /\ inbuf[d]' = After(d, b2)
        /\ delivered[d]' = (IF Whole(d, b2) THEN Append(delivered[d], FrameOf(d, b2))
                                            ELSE delivered[d])
        /\ queue[d]' = queue[d] /\ accepted[d]' = accepted[d]
    BY <1>4, <1>6 DEF StreamInv, TwoWays, Recv
  <1>8. PICK q, w, b, acc, del :
          /\ q = queue[d] /\ w = wire[d] /\ b = inbuf[d] /\ acc = accepted[d]
          /\ del = delivered[d]
    OBVIOUS
  <1>9. Lane(d, q, w, b, acc, del, no, off) /\ Reads(w, b, x, k, b2)
    BY <1>4, <1>5, <1>6, <1>8 DEF Reads
  <1>10. /\ SubSeq(x, k + 1, Len(x)) = <<>>
         /\ Whole(d, b2) => Len(del) < Len(acc) /\ FrameOf(d, b2) = acc[Len(del) + 1]
         /\ \E no2, off2 :
              Lane(d, q, Tail(w), After(d, b2), acc,
                   IF Whole(d, b2) THEN Append(del, FrameOf(d, b2)) ELSE del, no2, off2)
    BY <1>9, RecvLane
  <1>11. LaneInv(d)'
    BY <1>7, <1>8, <1>10 DEF LaneInv
  <1>12. ChannelStep(d)
    BY <1>7, <1>8, <1>10 DEF ChannelStep
  <1> QED
    BY <1>1, <1>3, <1>11, <1>12 DEF StreamInv

LEMMA StreamStep ==
  ASSUME StreamInv, [Next]_vars
  PROVE  StreamInv' /\ \A c \in Direction : ChannelStep(c)
  <1>1. CASE \E d \in Direction : \E f \in Outgoing[d] : Queue(d, f)
    BY <1>1, QueueStep
  <1>2. CASE \E d \in Direction : Drain(d)
    BY <1>2, DrainStep
  <1>3. CASE \E d \in Direction : Recv(d)
    BY <1>3, RecvStep
  <1>4. CASE UNCHANGED vars
    <2>1. TwoWays' /\ \A c \in Direction : Rests(c)
      BY <1>4 DEF vars, StreamInv, TwoWays, Rests
    <2> QED
      BY <2>1, RestsLane DEF StreamInv
  <1> QED
    BY <1>1, <1>2, <1>3, <1>4 DEF Next, Idle

\* Both directions keep the invariant: the receiver's buffer, the records under
\* way and the queue are, in this order, the bytes of the frames not yet
\* dispatched, and a record never holds bytes of two of them.
THEOREM StreamInvariant == Spec => []StreamInv
  <1>1. Init => StreamInv
    BY StreamInit
  <1>2. StreamInv /\ [Next]_vars => StreamInv'
    BY StreamStep
  <1> QED
    BY <1>1, <1>2, PTL DEF Spec

\* The receiver's buffer never reaches FROST_FRAME_MAX between two passes of the
\* loop, no gnutls_record_send is called with nothing to send, and the buffers
\* hold bytes.
THEOREM StreamTypeOK == Spec => []TypeOK
  <1>1. ASSUME StreamInv PROVE TypeOK
    <2> SUFFICES ASSUME NEW d \in Direction
                 PROVE  /\ \A i \in DOMAIN queue[d] : /\ queue[d][i].data \in Bytes
                                                     /\ queue[d][i].sent < Len(queue[d][i].data)
                        /\ \A i \in DOMAIN wire[d] : wire[d][i] \in Bytes \ {<<>>}
                        /\ inbuf[d] \in Bytes /\ Len(inbuf[d]) < FrameMax
                        /\ held[d] \in Bytes
      BY DEF TypeOK
    <2>1. PICK no, off : Lane(d, queue[d], wire[d], inbuf[d], accepted[d], delivered[d], no, off)
      BY <1>1 DEF StreamInv, LaneInv
    <2>2. PICK q, w, b, acc, del : /\ q = queue[d] /\ w = wire[d] /\ b = inbuf[d]
                                   /\ acc = accepted[d] /\ del = delivered[d]
      OBVIOUS
    <2>3. Lane(d, q, w, b, acc, del, no, off)
      BY <2>1, <2>2
    <2>4. /\ \A i \in DOMAIN q : q[i].data \in Bytes /\ q[i].sent < Len(q[i].data)
          /\ \A i \in DOMAIN w : w[i] \in Bytes \ {<<>>}
          /\ b \in Bytes /\ Len(b) < FrameMax
      BY <2>3, LaneBounds
    <2>5. held[d] \in Bytes
      <3>1. held[d] = <<>>
        BY <1>1 DEF StreamInv, LaneInv
      <3>2. <<>> \in Bytes
        BY DEF Bytes
      <3> QED
        BY <3>1, <3>2, Zenon
    <2> QED
      BY <2>2, <2>4, <2>5
  <1> QED
    BY <1>1, StreamInvariant, PTL

\* A record always fits in what is left of the receiver's buffer, so no bytes
\* stay behind in GnuTLS, where select does not see them.
THEOREM StreamNothingHeldBack == Spec => []NothingHeldBack
  <1>1. StreamInv => NothingHeldBack
    BY DEF StreamInv, LaneInv, NothingHeldBack
  <1> QED
    BY <1>1, StreamInvariant, PTL

\* A signer's handler is called with the frames the coordinator queued for it,
\* unchanged, each once and in that order, whatever the frames and however they
\* are cut into records: the safety of the FIFO channel.
THEOREM StreamImplementsToSigner == Spec => ToSigner!Safety
  <1>1. Init => ToSigner!Init
    BY DEF Init, Direction, ToSigner!Init
  <1>2. StreamInv /\ [Next]_vars => [ToSigner!Next]_(ToSigner!vars)
    <2> SUFFICES ASSUME StreamInv, [Next]_vars PROVE [ToSigner!Next]_(ToSigner!vars)
      OBVIOUS
    <2>1. ChannelStep("toSigner")
      BY StreamStep DEF Direction
    <2> QED
      BY <2>1 DEF ChannelStep, ToSigner!Next, ToSigner!Send, ToSigner!Deliver, ToSigner!vars
  <1> QED
    BY <1>1, <1>2, StreamInvariant, PTL DEF Spec, ToSigner!Safety

\* The same from a signer to the coordinator, which takes the size of every
\* signature to be the one a signer's has.
THEOREM StreamImplementsToCoord == Spec => ToCoord!Safety
  <1>1. Init => ToCoord!Init
    BY DEF Init, Direction, ToCoord!Init
  <1>2. StreamInv /\ [Next]_vars => [ToCoord!Next]_(ToCoord!vars)
    <2> SUFFICES ASSUME StreamInv, [Next]_vars PROVE [ToCoord!Next]_(ToCoord!vars)
      OBVIOUS
    <2>1. ChannelStep("toCoord")
      BY StreamStep DEF Direction
    <2> QED
      BY <2>1 DEF ChannelStep, ToCoord!Next, ToCoord!Send, ToCoord!Deliver, ToCoord!vars
  <1> QED
    BY <1>1, <1>2, StreamInvariant, PTL DEF Spec, ToCoord!Safety
=============================================================================
