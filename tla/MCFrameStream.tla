--------------------------- MODULE MCFrameStream ---------------------------
(***************************************************************************)
(* FrameStream with 3-bit bytes: a record holds 12 of the up to 27 bytes of*)
(* a frame, and payloads of 8 bytes or more need both bytes of a length.   *)
(***************************************************************************)
EXTENDS FrameStream

Relay == 5      \* the type byte of RELAY_COMMIT

Frame(type, sig, payload) == [type |-> type, sig |-> sig, payload |-> payload]

CommitOf(id, commit, sig) == [id |-> id, commit |-> commit, sig |-> sig]

Bundles ==
  {[entries |-> <<>>, tbs |-> <<>>],
   [entries |-> <<CommitOf(1, <<>>, <<6, 6>>)>>, tbs |-> <<0, 2, 0>>],
   [entries |-> <<CommitOf(2, <<0, 1>>, <<3, 4>>), CommitOf(9, <<7>>, <<0, 0>>)>>,
    tbs |-> <<0>>]}

MCOutgoing ==
  [toSigner |-> {Frame(1, <<>>, <<>>), Frame(2, <<1, 2>>, [i \in 1..MaxPayload |-> i % Radix])}
                  \cup {Frame(Relay, <<>>, PackBundle(b)) : b \in Bundles},
   toCoord  |-> {Frame(3, <<4, 4>>, <<>>),
                 Frame(4, <<0, 7>>, [i \in 1..10 |-> i % Radix])}]

\* A bundle that was packed is unpacked to the same bundle, entries, ids above
\* a byte and empty commitments included, and no shorter prefix of it is taken
\* for a bundle.
BundlesSurvive ==
  \A i \in DOMAIN delivered["toSigner"] :
    LET f == delivered["toSigner"][i]
    IN  f.type = Relay =>
          /\ \E b \in Bundles : /\ accepted["toSigner"][i].payload = PackBundle(b)
                                /\ UnpackBundle(f.payload) =
                                     [ok |-> TRUE, entries |-> b.entries, tbs |-> b.tbs]
          /\ \A k \in 0..(Len(f.payload) - 1) : ~UnpackBundle(SubSeq(f.payload, 1, k)).ok
=============================================================================
