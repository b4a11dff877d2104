---------------------------- MODULE FrameStream ----------------------------
(***************************************************************************)
(* The frame layer of one TLS connection (frost_common.h, the queues and   *)
(* the select loops of both programs), in both directions.                 *)
(*                                                                         *)
(* A frame is a header (type, 16-bit payload length, 16-bit signature      *)
(* length), a signature and a payload.  A sender queues encoded frames and *)
(* hands at most one TLS record's worth of the frame at the head to each   *)
(* gnutls_record_send.  A receiver appends what one gnutls_record_recv     *)
(* returns to its buffer and, once the buffer holds a frame, dispatches it *)
(* and sets the buffer back to empty, whatever else it holds: nothing on   *)
(* the wire marks where a frame begins.                                    *)
(*                                                                         *)
(* A program with something to write does not read from that connection,   *)
(* and select only reports bytes that are still in the socket, not those   *)
(* that GnuTLS has decrypted and holds back.                               *)
(***************************************************************************)
EXTENDS FrameCodec

CONSTANTS MaxRecord,   \* bytes of a TLS record               (16384)
          Capacity,    \* records the sockets buffer, per direction
          Outgoing,    \* Outgoing[d]: the frames sent in direction d
          MaxFrames    \* bound on the frames queued per direction

Direction == {"toSigner", "toCoord"}

Other(d) == IF d = "toSigner" THEN "toCoord" ELSE "toSigner"

\* Every caller keeps its payload within FROST_MAX_PAYLOAD; a signer signs all
\* it sends, the coordinator either forwards a signer's signature or sends none.
ASSUME StreamAssumption ==
  /\ {MaxRecord, Capacity} \subseteq Nat \ {0}
  /\ MaxFrames \in Nat
  /\ DOMAIN Outgoing = Direction
  /\ \A d \in Direction : \A f \in Outgoing[d] :
       /\ f \in [type : 0..(Radix - 1), sig : Bytes, payload : Bytes]
       /\ Len(f.payload) <= MaxPayload
       /\ Len(f.sig) \in {0, SigSize}
       /\ d = "toCoord" => Len(f.sig) = SigSize

VARIABLES
  queue,     \* queue[d]: outmsg list of the sender, [data, sent] each
  wire,      \* wire[d]: TLS records under way
  held,      \* held[d]: decrypted bytes GnuTLS could not hand over yet
  inbuf,     \* inbuf[d]: the receiver's bytes up to inptr
  accepted,  \* accepted[d], delivered[d]: history of the frames queued
  delivered  \*   and dispatched

vars == <<queue, wire, held, inbuf, accepted, delivered>>

-----------------------------------------------------------------------------
(* Receiving a frame.                                                      *)

Lesser(a, b) == IF a < b THEN a ELSE b

\* Where the payload begins: a signer goes by the header, the coordinator by
\* the size every signer's signature has.
PayloadAt(d, b) == Header + (IF d = "toSigner" THEN SigLen(b) ELSE SigSize)

\* Does the buffer hold a whole frame?
Whole(d, b) ==
  /\ Len(b) >= Header
  /\ Len(b) >= PayloadAt(d, b) + PayloadLen(b)

\* What the frame handler is called with.
FrameOf(d, b) ==
  [type    |-> b[1],
   sig     |-> SubSeq(b, Header + 1, Header + SigLen(b)),
   payload |-> SubSeq(b, PayloadAt(d, b) + 1, PayloadAt(d, b) + PayloadLen(b))]

-----------------------------------------------------------------------------

Init ==
  /\ queue = [d \in Direction |-> <<>>]
  /\ wire = [d \in Direction |-> <<>>]
  /\ held = [d \in Direction |-> <<>>]
  /\ inbuf = [d \in Direction |-> <<>>]
  /\ accepted = [d \in Direction |-> <<>>]
  /\ delivered = [d \in Direction |-> <<>>]

\* signer_send, queue_to_coord
Queue(d, f) ==
  /\ Len(accepted[d]) < MaxFrames
  /\ queue' = [queue EXCEPT ![d] = Append(@, [data |-> EncodeFrame(f), sent |-> 0])]
  /\ accepted' = [accepted EXCEPT ![d] = Append(@, f)]
  /\ UNCHANGED <<wire, held, inbuf, delivered>>

\* Mutant: a frame whose last byte was sent stays in the queue.
AdvanceLate(q, n) ==
  IF q[1].sent + n > Len(q[1].data) THEN Tail(q) ELSE [q EXCEPT ![1].sent = @ + n]

\* n more bytes of the frame at the head are sent; a finished frame is freed.
Advance(q, n) ==
  IF q[1].sent + n >= Len(q[1].data) THEN Tail(q) ELSE [q EXCEPT ![1].sent = @ + n]

Unsent(m) == SubSeq(m.data, m.sent + 1, Len(m.data))

\* What one gnutls_record_send takes: bytes of the frame at the head only.
Record(q) ==
  SubSeq(Unsent(q[1]), 1, Lesser(MaxRecord, Len(Unsent(q[1]))))

\* drain_signer_write, drain_outq
Drain(d) ==
  /\ queue[d] # <<>>
  /\ Len(wire[d]) < Capacity
  /\ wire' = [wire EXCEPT ![d] = Append(@, Record(queue[d]))]
  /\ queue' = [queue EXCEPT ![d] = Advance(@, Len(Record(@)))]
  /\ UNCHANGED <<held, inbuf, accepted, delivered>>

\* The descriptor is in the read set, and select finds bytes in the socket.
Readable(d) == queue[Other(d)] = <<>> /\ wire[d] # <<>>

\* Mutant: inptr is left where it is after a frame.
AfterKeeps(d, b) == b

\* inptr = inbuf once a frame is complete.
After(d, b) == IF Whole(d, b) THEN <<>> ELSE b

\* One pass of the loop: gnutls_record_recv into what is left of the buffer,
\* then at most one frame is dispatched.
Recv(d) ==
  /\ Readable(d)
  /\ LET bytes == IF held[d] # <<>> THEN held[d] ELSE Head(wire[d])
         n     == Lesser(Len(bytes), FrameMax - Len(inbuf[d]))
         b     == inbuf[d] \o SubSeq(bytes, 1, n)
     IN  /\ held' = [held EXCEPT ![d] = SubSeq(bytes, n + 1, Len(bytes))]
         /\ wire' = [wire EXCEPT ![d] = IF held[d] # <<>> THEN @ ELSE Tail(@)]
         /\ inbuf' = [inbuf EXCEPT ![d] = After(d, b)]
         /\ delivered' = [delivered EXCEPT ![d] =
              IF Whole(d, b) THEN Append(@, FrameOf(d, b)) ELSE @]
  /\ UNCHANGED <<queue, accepted>>

\* Both have said all they had to say and have read it all.
Idle ==
  /\ \A d \in Direction : /\ Len(accepted[d]) = MaxFrames
                          /\ queue[d] = <<>> /\ wire[d] = <<>>
  /\ UNCHANGED vars

Next ==
  \/ \E d \in Direction :
       \/ \E f \in Outgoing[d] : Queue(d, f)
       \/ Drain(d)
       \/ Recv(d)
  \/ Idle

\* select serves every ready descriptor.
Fairness == \A d \in Direction : WF_vars(Drain(d)) /\ WF_vars(Recv(d))

Spec == Init /\ [][Next]_vars /\ Fairness

-----------------------------------------------------------------------------
(* Properties.                                                             *)

\* The buffers are sequences of bytes, and the receiver's never outgrows
\* FROST_FRAME_MAX.
TypeOK ==
  \A d \in Direction :
    /\ \A i \in DOMAIN queue[d] :
         queue[d][i].data \in Bytes /\ queue[d][i].sent < Len(queue[d][i].data)
    /\ \A i \in DOMAIN wire[d] : wire[d][i] \in Bytes \ {<<>>}
    /\ inbuf[d] \in Bytes /\ Len(inbuf[d]) < FrameMax
    /\ held[d] \in Bytes

\* gnutls_record_recv never has to hold bytes back for want of room in inbuf:
\* select would not report them, and the frame would wait for the next one.
NothingHeldBack == \A d \in Direction : held[d] = <<>>

ToSigner == INSTANCE FifoChannel WITH
  Frame <- Outgoing["toSigner"],
  accepted <- accepted["toSigner"], delivered <- delivered["toSigner"]

ToCoord == INSTANCE FifoChannel WITH
  Frame <- Outgoing["toCoord"],
  accepted <- accepted["toCoord"], delivered <- delivered["toCoord"]

\* Each direction implements the FIFO channel the protocol relies on: although
\* a receiver throws its buffer away at every frame, no byte of the next frame
\* is in it, because a record never holds bytes of two frames.
FramesToSigner == ToSigner!Spec

\* The same from a signer to the coordinator, which goes by the size of a
\* signature and not by the header, although each side stops reading while it
\* has something to write.
FramesToCoord == ToCoord!Spec
=============================================================================
