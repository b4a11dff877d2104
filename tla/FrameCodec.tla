----------------------------- MODULE FrameCodec -----------------------------
(***************************************************************************)
(* The byte formats of frost_common.h: frames and commit bundles.  Lengths *)
(* and ids are 16-bit, most significant byte first; Radix is the number of *)
(* values of a byte, kept small when the model is checked so that short    *)
(* sequences already need both bytes.                                      *)
(***************************************************************************)
EXTENDS Integers, Sequences

CONSTANTS Radix,       \* values of a byte                    (256)
          SigSize,     \* FROST_FRAME_SIG_SIZE                (256)
          MaxPayload,  \* FROST_MAX_PAYLOAD                   (24000)
          MaxSigners,  \* FROST_MAX_SIGNERS                   (64)
          EntryMax     \* FROST_COMMIT_ENTRY_MAX              (256)

ASSUME CodecAssumption ==
  /\ Radix \in Nat /\ Radix > 1
  /\ {SigSize, MaxPayload, MaxSigners, EntryMax} \subseteq 1..(Radix * Radix - 1)

Bytes == Seq(0..(Radix - 1))

Header == 5                                      \* FROST_FRAME_HDR

\* Mutant: the receive buffer has no room for the signature.
FrameMaxUnsigned == Header + MaxPayload

FrameMax == Header + SigSize + MaxPayload        \* FROST_FRAME_MAX

-----------------------------------------------------------------------------
(* Frames.                                                                 *)

\* Mutant: only the low byte of a number is written.
Put16Low(x) == <<0, x % Radix>>

\* A number as two bytes, and the number at bytes i and i + 1.
Put16(x) == <<x \div Radix, x % Radix>>
Get16(b, i) == b[i] * Radix + b[i + 1]

\* frost_encode_frame
EncodeFrame(f) ==
  <<f.type>> \o Put16(Len(f.payload)) \o Put16(Len(f.sig)) \o f.sig \o f.payload

\* frost_decode_header
PayloadLen(b) == Get16(b, 2)
SigLen(b) == Get16(b, 4)

-----------------------------------------------------------------------------
(* Commit bundles: a count, the entries (id, length, commitment, RSA       *)
(* signature), and the tbs behind its length.                              *)

Malformed == [ok |-> FALSE, entries |-> <<>>, tbs |-> <<>>]

\* Mutant: the signature is written before the commitment.
EntryBytesSwapped(e) == Put16(e.id) \o Put16(Len(e.commit)) \o e.sig \o e.commit

EntryBytes(e) == Put16(e.id) \o Put16(Len(e.commit)) \o e.commit \o e.sig

\* frost_pack_commit_bundle; the buffer is sized for the largest bundle.
PackBundle(b) ==
  LET n == Len(b.entries)
      upTo[i \in 0..n] ==
        IF i = 0 THEN Put16(n) ELSE upTo[i - 1] \o EntryBytes(b.entries[i])
  IN  upTo[n] \o Put16(Len(b.tbs)) \o b.tbs

\* Where the entry after one at offset p begins, or -1 if that entry does not
\* fit the bytes or its commitment is too long.
NextEntry(b, p) ==
  IF p < 0 \/ p + 4 > Len(b) THEN -1
  ELSE LET c == Get16(b, p + 3)
       IN  IF c > EntryMax \/ p + 4 + c + SigSize > Len(b) THEN -1
           ELSE p + 4 + c + SigSize

EntryAt(b, p) ==
  LET c == Get16(b, p + 3)
  IN  [id     |-> Get16(b, p + 1),
       commit |-> SubSeq(b, p + 5, p + 4 + c),
       sig    |-> SubSeq(b, p + 5 + c, p + 4 + c + SigSize)]

\* Is there room for the tbs whose length is at offset p?
TbsFits(b, p) ==
  /\ p >= 0 /\ p + 2 <= Len(b)
  /\ Get16(b, p + 1) <= MaxPayload
  /\ p + 2 + Get16(b, p + 1) <= Len(b)

\* frost_unpack_commit_bundle; bytes behind the tbs are not looked at.
UnpackBundle(b) ==
  LET n == IF Len(b) < 2 THEN -1 ELSE Get16(b, 1)
      offset[i \in 0..n] == IF i = 0 THEN 2 ELSE NextEntry(b, offset[i - 1])
  IN  IF n < 0 \/ n > MaxSigners \/ ~TbsFits(b, offset[n]) THEN Malformed
      ELSE [ok      |-> TRUE,
            entries |-> [i \in 1..n |-> EntryAt(b, offset[i - 1])],
            tbs     |-> SubSeq(b, offset[n] + 3, offset[n] + 2 + Get16(b, offset[n] + 1))]
=============================================================================
