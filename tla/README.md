# A TLA+ model of the FROST SSH certificate authority

The repository is a threshold SSH CA: one coordinator (`frost_coordinator.c`)
and `n` signers (`frost_signer.c`) that together hold an Ed25519 CA key of
which no process has more than a share. Any `t` signers can sign a certificate
with FROST; ROAST on top of it keeps signing live when signers are silent or
return bad shares. The key is made by a distributed key generation and its
shares are renewed by a refresh, both routed through the coordinator. This
directory models that system, checks it with TLC and proves with TLAPS the safety
of the signer, of signing as a whole, of issuance, of registration, of the key
ceremonies and of the frame layer.

## Inventory

| Component | State it keeps | Operations | Talks to |
| --- | --- | --- | --- |
| Signer, SIGN mode (`frost_signer.c` 407-455, 963-1238, 1547-1562) | key in memory, `g_t`, `g_state`, `g_nonces`, `g_commit`, `g_commit_is_precomputed`, `g_tbs` | HELLO_ACK, SIGN_REQ, RELAY_COMMIT, CERT_OUTPUT, precomputation after each frame, faults | coordinator (TLS), Rust core (popen) |
| ROAST coordinator (`frost_coordinator.c` 795-1376, 1589-1672, 1917-2003) | table of signers (phase, commitment, its signature, session), sessions, strikes, blacklist, `g_signing_done`, `g_roast_fail` | COMMIT, SIG_SHARE, SHARE_LOAD_FAIL, disconnect; form, aggregate, abort and expire sessions | signers, Rust core |
| Issuance (200-502, 1921-1931) | `g_serial`, `g_tbs`, `g_dummy_cert`, `g_to_mint`, files in `output/` | `tbs`, `prepare_tbs`, `mint`, next certificate of a `--mass-mint` run | Rust core |
| Commit bundle (`frost_common.h` 313-474) | none | `commit_sig` over (tbs, commitment), packing, the four checks of RELAY_COMMIT, `assemble` | both sides |
| Registration (2008-2254) | staged connections, `g_n`, `g_t` | TLS accept, HELLO, identity check, promotion | signers |
| DKG (635-709; signer 457-713) | round buffers and counters | three rounds routed by the coordinator | signers |
| Refresh (715-789; signer 715-961) | round buffers, completion counters | two rounds, FINALIZE, CONFIRMED | signers |
| Key persistence (signer 163-242) | `shares/signer_<id>.keypkg`, `pub_key_pkg.hex` | save, load | disk |
| Frame codec (`frost_common.h` 263-295, 387-474) | none | encode, decode, pack, unpack | both sides |
| Rust core and its binding (`main.rs`, `frost_stubs.c`) | none between runs | one subcommand per FROST step | both sides |
| Profiling, log analysis, certificate scripts | logs | - | - |

What is hard in this system: each process is a single-threaded event loop, but
`n + 1` of them interleave, with several ROAST sessions alive at once and frames
for an earlier request still in the channels when the coordinator has moved on.
Frames carry neither a session id nor a request id; the coordinator relates them
to its state by the phase and the `session_id` it keeps per connection. Deadlines
race with late shares, connections come and go, every step calls a separate
program that can fail, and nonces must never be used twice although they are
drawn ahead of time. The ceremonies have no deadline and no way to start over,
and a refresh replaces shares one process at a time. Underneath, nothing on the
wire marks where a frame begins. `PROJECT.json` lists these hazards line by line.

What makes the parts correct:

* signer: a nonce makes one share, a commitment is offered once, and a share is
  only given for the message and commitments of the latest request, whatever
  the coordinator sends;
* coordinator: sessions do not share signers, each share is counted once and in
  its own session, penalties hit only those who earned them, at most a bounded
  number of sessions is needed, and the run ends;
* issuance: no nonce stands behind two certificates, serials differ, and as many
  are issued as were asked for;
* registration: an id is held by the owner of its certificate and by one
  connection at a time, the ceremony starts when all ids are there, and no
  client waits for ever;
* DKG and refresh: no two shares on disk come from different outcomes of a
  ceremony, what is announced as saved is saved, nobody gives up an old share while another signer lacks a package for
  its new one, and an undisturbed ceremony completes;
* frames: a handler sees exactly the frames that were queued, in order.

## Modules

| Module | What it is |
| --- | --- |
| `FrostCommon` | the group, commitments, attestations, bundles, packages, frames |
| `FrostSigner` | the signer process: one action per frame handler, with the precomputation that follows it |
| `AnyCoordinator` | honest signers under a coordinator that sends any frame at any time; their properties and the inductive invariant |
| `AnyCoordinatorProofs` | the proofs about it |
| `RoastCoordinator` | the coordinator in SIGN mode, with issuance and the top of the event loop |
| `RoastSystem` | coordinator and signers composed over one FIFO channel per direction and connection; crashes, reconnection, time |
| `RoastSystemProofs` | its inductive invariant and what follows from it |
| `RoastIssuanceProofs` | further invariants of it: certificates, their number and their nonces, the escrow of signers |
| `RoastPenaltyProofs` | who is penalised, and how many sessions one certificate can cost |
| `CeremonySigner` | the signer in DKG and refresh: handlers, the core's subcommands, key files |
| `CeremonyCoordinator` | the coordinator in DKG and REFRESH mode |
| `KeyCeremony` | their composition: connections, crashes, a killed coordinator, several runs over the same files |
| `KeyCeremonyProofs` | the inductive invariant of the sharing a ceremony makes, and what follows from it |
| `KeyCeremonyOrderProofs` | the inductive invariant of the order of its frames, and what follows from it |
| `Registration` | signer start-up, staged connections, HELLO checks, promotion, removal |
| `Roll` | abstract: a roll of authenticated signers; `Registration` implements it |
| `RegistrationProofs` | the proofs of its type invariant and of the refinement |
| `FrameCodec` | frames and commit bundles as byte sequences |
| `FrameStream` | queues, TLS records and receive buffers of one connection |
| `FifoChannel` | abstract: frames delivered in order, each once, eventually; each direction of `FrameStream` implements it, and the other modules assume it |
| `FrameStreamProofs` | the proofs about the codec of a frame, the type invariant and the safety of the refinement |
| `MCAnyCoordinator`, `MCRoast`, `MCKeyCeremony`, `MCRegistration`, `MCFrameStream` | instances for TLC |

### Correspondence with the code

`signer[s]` is the signing part of the globals of process `s`: `signMode` is
`g_coord_mode`, `key` is `g_key_pkg_len > 0`, `t`, `state`, `tbs` are `g_t`,
`g_state`, `g_tbs`; `nonces` and `commit` name the nonce by the commitment to it
(`<<owner, draw>>`, `NoCommit` for an empty buffer), `pre` is
`g_commit_is_precomputed`. A handler followed by the precomputation at the end of
the loop body is one action (`EndOfPass`). The ceremony frames are obeyed in SIGN
mode too; they occur in `AnyCoordinator` by their effect on `g_t`, `g_state` and
the presence of a key. The frames they make a signer send are not recorded.

`peer[s]` is the `struct signer` of `s`; `arrived` gives the list its order
(LIST_INSERT_HEAD, so the latest arrival comes first); `sessions` holds the used
slots of `g_sessions` in slot order. `job` is serial, body, template and
`g_to_mint`. The body `<<serial, owner of the CA key in it>>` is what
distinguishes the three outcomes of `prepare_tbs`. Where a handler ends in
`roast_try_form_session`, its action ends in `TryForm`.

Cryptography is symbolic. An attestation verifies exactly for the signer, message
and commitment it was made with; `sign` needs nonces whose commitment is in the
package; `aggregate` succeeds exactly when every member's share was made for the
session's package and not corrupted, and otherwise names the invalid share with
the lowest id; `mint` accepts what verifies for the template under the FROST CA
key, as `ssh_key` checks it in the debug build that the repository's README
builds. `round2::sign` also refuses packages smaller than the `min_signers` of the
KeyPackage. That refusal is not represented (after a DKG run under another
threshold it depends on the key), so the signer of the model signs in more
situations than the real one.

**Ceremonies.** A signer draws one polynomial per ceremony (`Poly`: owner, run,
number). A share is the sum of the values of all polynomials that went into it,
so a KeyPackage is represented by the set of those polynomials, and so is a
PublicKeyPackage: shares sign together exactly when the sets are equal. `part2`
wants a round-1 package of every other signer, `part3` and `refresh_shares` also
the matching round-2 packages. `secret1`, `r1`, `secret2`, `r2` are the round
buffers of DKG (`g_peer_r1`...) or refresh (`g_ref_peer_r1`...), of which a process
only ever uses one kind; `r1` and `r2` keep duplicates, as the code counts
messages. `keyFile` and `pubFile` are the files; `Torn` is one that was truncated
and not, or not wholly, written: the process died in between, or the write failed.
Neither program looks at the results of `fprintf` and `fclose`, so the second goes
unnoticed (`SaveKeyMaterial`, `WritePub`), also by `save_key_material`, which
only reports a key file it cannot open. The signers in `MayFail` have a core and a disk that may
fail, and `CoordMayFail` says whether the coordinator's writes may; a coordinator
that is killed may leave the `pub_key_pkg.hex` it was writing torn. `entry[s]` is the ceremony part of `struct signer`, `count` is
`g_refresh_complete_count`, which both ceremonies use. `disturbed` is a history
variable: it says that something happened after the start that the run cannot
recover from. All processes share a working directory, as the repository's usage
does, hence one `pub_key_pkg.hex`. A new run starts when the processes of the
previous one have ended.

**Registration.** `client[c]` is a program that can be started any number of
times; `Cert[c]` and `Hello[c]` may disagree, and `HeldCerts` are the certificates
the coordinator has. `staged` and `list` are the coordinator's two lists; `alive`
says whether the program at the other end still runs, which the coordinator learns
only by serving the connection. A HELLO is checked and answered in one step.
The signer's own identity check compares `certs/signer<id>.crt` with itself and
always holds, so it does not appear. HELLO and registration in SIGN mode are the
same code; `RoastCoordinator` has its last step.

**Frames.** `queue`, `wire`, `held` and `inbuf` are the sender's `outmsg` list, the
TLS records under way, what GnuTLS has decrypted but could not hand over, and the
receiver's buffer up to `inptr`. A record never holds bytes of two frames, because
`gnutls_record_send` is called with the rest of one frame; that is what makes it
safe to empty the buffer after each frame. Frame payloads in the other modules
are records, delivered as `FifoChannel` says.

Code abstracted away: hex, temporary files, pipes, logging, `malloc` failure, RSA
encryption that fails for one peer (`continue` in the loop that sends round-2
packages), sizes above `FROST_MAX_PAYLOAD` (no caller reaches it).

Mutants (`... Mutant:` in the comments) are the plausible mistakes each property
is tested against; they are not part of the specification.

## Runs

| Run | Instance | Checks |
| --- | --- | --- |
| `OneSigner` | N=T=2, one honest signer with three draws beside one that signs anything; failing core; all modes and ceremony frames; START frames lower `g_t` to 1 | `TypeOK`, `NonceSingleUse`, `CommitmentOfferedOnce`, `SignsLatestRequest`, `Coherent` |
| `TwoSigners` | N=T=2, both honest, two draws each, two messages | `PackageAuthentic` |
| `RoastFaults` | 2-of-5: one silent, one bad-share, one without a key; fair | `DisjointSessions`, `HonestNeverPenalised`, `SessionBound`, `Issues`, `Ends` |
| `RoastMassMint` | 2-of-4, two certificates, up to two sessions at a time | `DistinctSerials`, `AtMostToMint`, `SignsCurrentTbs` |
| `RoastAllFail` | 2-of-3, two registered at first, the third drops out; crash, both cores may fail, two certificates, early deadlines, with and without `--fault replace-tbs` | `TypeOK`, `CertificatesFresh`, `ShareCountExact`, `SharesOfTheirSession`, `RefusesReplacedTbs` |
| `KeyCeremony` | three signers, t=2, DKG or refresh, two runs over the same files, one fault of any kind, failing writes on either side included; fair | `TypeOK`, `SameSharing`, `AnnouncedMeansSaved`, `NoWayBack`, `Completes` |
| `Registration` | a group of two, six clients, one crash, options given, absent or incomplete; fair | `TypeOK`, `ImplementsRoll`, `Settles`, `Forms` |
| `FrameStream` | both directions, two frames each, 3-bit bytes, up to three records per frame; fair | `TypeOK`, `NothingHeldBack`, `BundlesSurvive`, `FramesToSigner`, `FramesToCoord` |

Four runs end in a violation, each a disagreement of the code with what the
repository says of it (`findings` in `PROJECT.json`):

| Run | What it shows |
| --- | --- |
| `SessionBound` | README: termination within `n - t + 1` sessions. A silent signer may spoil two sessions (`FROST_MAX_STRIKES`), so a fourth is needed for 2-of-4. The code's own bound is `SessionBound`: `FROST_MAX_STRIKES * (n - t) + 1`. |
| `MassMintStalls` | A COMMIT for the previous certificate is accepted for the next; honest signers are struck for the session that fails. The strikes survive from certificate to certificate, until honest signers are blacklisted and a `--mass-mint` run stops. |
| `SilentHang` | Too few signers left after expiries is noticed by nobody: the coordinator waits forever. |
| `RefreshTwice` | A refresh that ends after some signers overwrote their shares and others did not is followed by one that is confirmed, though t signers can no longer sign together. |

Seen on the way and not a run:

* The result of `prepare_tbs` is ignored (`frost_coordinator.c` 1928). With
  `CoordMayFail = TRUE` in `RoastMassMint`, `DistinctSerials` fails: the next file
  holds a certificate with the previous serial. `CertificatesFresh` survives.
* A write error in `save_key_material` goes unnoticed (`frost_signer.c` 179-180): the
  signer reports its refresh complete, and REFRESH_CONFIRMED, of which a comment says that all
  signers saved new shares (954-955), comes when one has neither its new share nor
  its old one. With `MayFail = {2}` in `RefreshTwice`, `ConfirmedCanSign` fails for
  this reason in the first refresh. Likewise DKG_DONE makes a signer print that its
  share is persisted, though the result of `save_key_material` was ignored (673).
  `AnnouncedMeansSaved` is what remains true; without its clause on `MayFail` it
  fails in `KeyCeremony`, in a DKG as in a refresh.
* A coordinator that cannot write `pub_key_pkg.hex`, or leaves it truncated, ends the
  ceremony as if it had; no signer can finish a refresh from a truncated one.
* Signers that differ in their PublicKeyPackage are logged, and the ceremony is
  completed and reported as verified all the same.
* `--n` without `--t` leaves `g_t` at 0, and every HELLO is refused. Without
  either, the first HELLO in range fixes the group, even if it is then refused.
* The README calls the signer with `<id> <t> <n>`, the code reads `<id> <n> <t>`;
  the README names the coordinator's fault `tbs-replace`, the code accepts
  `replace-tbs`; `--mass-mint 0` issues a certificate, after which the unsigned
  `g_to_mint` wraps.

### Bounds

* `MaxDraws` bounds the nonces per signer: three are enough for one consumed, one
  offered and one precomputed at the same time.
* `MaxSerial` bounds the serials tried, `MaxArrivals` the registrations. One
  reconnection is one more arrival than signers.
* `MaxSessions` is 8 where it should not matter (no run of that kind forms more
  than five) and 2 where the full table is a case of interest or where failures
  would make sessions go on for ever.
* `CounterMod` is 2^4 in place of 2^64: counts up to 3 are asked for.
* T=2 is the smallest threshold with which a session has a silent and a
  cooperative member; N=4 the smallest group with two sessions at a time, N=5 the
  smallest with three absent signers beside two honest ones. No symmetry is used:
  ids and order of arrival matter to the code.
* `KeyCeremony`: N=3 is the smallest group in which two signers can be ahead of a
  third; `MaxRuns` = 2 gives one ceremony on the files another left behind;
  `MaxFaults` = 1, with one signer that may crash, another whose core and disk may
  fail, and the coordinator, which may be killed or fail to write; `MaxArrivals`
  allows one restart. `RefreshTwice` uses N=2.
* `Registration`: the clients are a correct signer for each id, a second process
  for one of them, a wrong certificate, another group, and one without HELLO.
* `FrameStream`: `Radix` = 8 instead of 256, so that short payloads need both bytes
  of a length; `MaxRecord` = 12 bytes, so that frames take up to three records.
  `Capacity` = 4 records per direction stands for the socket buffers. It has to hold
  one side's burst: neither side reads while it has something to write, and with
  3 both can wait for each other. The protocol's largest burst (round-2
  packages to 63 peers, about 33 KB) is below the kernel's default buffers.

Deadlock is checked in `RoastFaults`, `Registration`, `FrameStream` and both
`AnyCoordinator` runs. The others say CHECK_DEADLOCK FALSE since there the system
really can stop: with more than one certificate, or a coordinator that swaps the
message, signers can be blacklisted until the coordinator waits (as in `SilentHang`
and `MassMintStalls`); a ceremony ends, or hangs after a fault; and where
crashes or core failures are allowed, the bounds on serials, arrivals, sessions
and runs end a behaviour.

### Time and fairness

`Timeout` expires the oldest session awaiting shares. With `PromptSigners` it
happens only when nothing else is under way: the signers that answer do so within
the ten seconds of `ROAST_SESSION_TIMEOUT_SEC`. Without it a deadline may pass at
any moment. `FairSpec` assumes weak fairness of each signer's and the
coordinator's handling of a waiting frame (both loops serve every ready
descriptor), of deadlines (`select` has a timeout and the expiry tick follows it)
and of the top of the loop. Nobody has to connect or to crash.
`HonestNeverPenalised`, `Issues` and `Ends` are claims about prompt signers;
`HonestNeverPenalised` and `SessionBound` hold for a run of one certificate
(`MassMintStalls` shows what happens with more), the second while no signer
crashes, and `DisjointSessions` while nobody
reconnects: a signer that reconnects may join a second session while the first
still waits for it, which `ShareCountExact` and `SharesOfTheirSession` survive.

`KeyCeremony` assumes that both loops handle waiting frames and that the operator
starts each signer that is missing: START is only sent when all n are there.
Nothing obliges anyone to crash, or the operator to stop or restart the
coordinator. `Registration` assumes that the loop serves every connection (it walks
both lists after each `select`) and that a signer that was turned away is started
again, as the refusal of a restarted signer whose old connection is not yet
removed makes necessary. `FrameStream` assumes that `select` reports what is ready.

## Proofs

A theorem holds for every value of the constants that meets the assumptions of
its modules: every group size, threshold, set of messages, roster, assignment of
faults, number of sessions, clients and certificates. Where one needs more, its
statement says so and the table repeats it.

| Module | Properties proved invariant | Further hypotheses |
| --- | --- | --- |
| `AnyCoordinatorProofs` | `TypeOK`, `NonceSingleUse`, `CommitmentOfferedOnce`, `SignsLatestRequest`, `PackageAuthentic`, `Coherent` | none |
| `RoastSystemProofs` | `TypeOK`, `ShareCountExact`, `SharesOfTheirSession`, `RefusesReplacedTbs` | none |
| `RoastIssuanceProofs` | `CertificatesFresh` | none |
| | `AtMostToMint` | `ToMint > 0` |
| | `DistinctSerials`, `SignsCurrentTbs` | `CoordMayFail = FALSE` |
| | `DisjointSessions` | `CoordMayFail = FALSE`, and either no signer returns that the table has in a session or `MaxArrivals <= Len(Roster)` |
| `RoastPenaltyProofs` | `HonestNeverPenalised` | `PromptSigners`, `ToMint = 1`, `CoordMayFail = FALSE`, `CoreMayFail = FALSE`, `ReplaceTbs = {FALSE}` |
| | `SessionBound` | the same, `Crashers = {}` and at least `T` honest signers |
| `KeyCeremonyProofs` | `SameSharing` | none |
| `KeyCeremonyOrderProofs` | `TypeOK`, `AnnouncedMeansSaved`, `NoWayBack` | none |
| `RegistrationProofs` | `TypeOK`; `ImplementsRoll` (the refinement) | none |
| `FrameStreamProofs` | `TypeOK`, `NothingHeldBack`; `ToSigner!Safety`, `ToCoord!Safety` (the refinement without its fairness) | none |

The hypotheses are what the code needs. `--mass-mint 0` issues a certificate and
wraps the counter. With a failing core the result of `prepare_tbs` is ignored:
the next certificate has the previous serial, and sessions for the previous body
stay in the table, while their members are free for new ones. A signer that comes back starts from a blank entry of the
table (`BlankEntry`) while the session it was in still lists it, so it may be chosen
for a second one.

Those of `RoastPenaltyProofs` are met by the run `RoastFaults`. An honest
signer that does not answer in time is struck like any other; one whose core fails
sends no share; one that is shown an altered message refuses it, and is taken for
silent; and when a second certificate follows, a COMMIT made for the first may be
taken into a session whose members then all refuse (`MassMintStalls`). The bound needs that
no process crashes: `roast_expire_sessions` strikes the members that are still
connected, so one that crashes in a session costs it without a strike and may come
back to spoil another. With two of three signers, one of them crashing, `MAX_STRIKES`
at 1 and nine arrivals TLC finds the bound exceeded after 27 states.

### The signer

Since the coordinator of `AnyCoordinator` may send anything, its theorems cover
the signers of `RoastSystem` too.

None of these properties is inductive. `NonceSingleUse` holds in states whose memory
still has a nonce that was already used, and fails one step later. The invariant
`Coherent` ties the memory of a signer to the log of what it sent: nonces in
memory are the latest draw, belong to `g_commit` and were not consumed
(`NoncesLive`); a precomputed commitment was not offered (`PreUnused`); otherwise
the nonces stand behind the latest COMMIT, made for `g_tbs` (`OfferStands`); and
everything in the log is the signer's own (`OffersOwn`, `SharesOwn`). Each handler
is shown to leave globals and log that satisfy `SignerInv`, and the precomputation
to preserve it, so the two compose to the action. For RELAY_COMMIT,
`EntryMadeByOwner` shows that an entry which verifies under an honest signer's id
was sent by it in a COMMIT: hence a commitment that is only precomputed is in no
bundle the signer accepts, and every accepted package is authentic.

### Signing as a whole

`ShareCountExact` and its companions are about the coordinator's memory, but the
reason they hold is in the channels: `SIG_SHARE` adds one to `n_shares` without
looking at the slot, so what has to be shown is that a signer that is waited for
has at most one answer to come. The invariant of `RoastSystemProofs` therefore
describes, per connection, which frames may be under way in which phase of the
entry (one request of the coordinator is answered once, and the answer names the
request), ties every share under way or stored to the package of the
session its sender is in, and the package to the signer's own memory, and relates
each live session to the message it was formed for. Each handler of the
coordinator is first described by what it does to one entry and one session
(lemmas on `Fill`, `TryForm`, `Abort`, `Reset` and the session table), then
composed.

`RoastIssuanceProofs` builds on it. `MintInv` counts: certificates written plus
certificates still to be made are `ToMint`, and signing is done when none is left. `SerialInv` says that the serial in hand is
above all used ones unless it has just been used, in which case signing is done
and the loop draws the next before it mints again. `TbsInv` says that every live
session is for the body in hand. `Escrow` says that live sessions have different ids and that
the table files each member of a session that waits for shares under that
session's id; as an entry has one `session_id`, two such sessions share nobody.

`CertificatesFresh` needs none of these, and holds with failing cores too, when a
signer can be in two live sessions and two slots can list the same commitment. Its
reason is again with the signers: a share is made with the nonces in memory, which
are zeroed with it, so the coordinator is sent one share per nonce. `FreshInv` says
that a nonce behind a filed share or a certificate is used up (`Gone`: its owner has
drawn a later one or holds none, and no share made with it is under way) and that no
nonce is filed twice, certified twice, or both. A certificate is only written from a
slot that holds a share for every commitment of its package (`aggregate` wants each
of them, for this package), so its commitments move from filed to certified at once.

`RoastPenaltyProofs` accounts for the penalties. `HonestNeverPenalised` depends on
what is under way when a deadline passes, which `PenaltyInv` describes: until the
certificate is written, every commitment in the table or under way is vouched for by
its owner for this certificate (`Genuine`), and every honest signer is in one of
seven stages, from absent, asked for a commitment, offering one and waiting, to
called into a session, answering and shared (`Orderly`). In each of them at most
one side has something to answer, and the stage fixes the signer's memory, its
entry, its channels and its part in the session. A prompt deadline passes when no
frame is under way, so it meets every honest member of the session with its share
stored; and a share an honest signer stores is valid, so it is never the culprit.

For `SessionBound`, fix `T` of the honest signers. Every other signer has
`MaxStrikes` tokens; its strikes use them up one by one and the blacklist all at
once. `Budget` says that no more sessions have failed than tokens are used: an
expired session struck a member that was silent, an aborted one blacklisted its
culprit, who was not on the blacklist before (`Open`). Sessions that are still live are disjoint by
`Escrow`, so at most one consists of the fixed signers and each other one holds a
member with a token left: an injection from live sessions to unused tokens, but for
one session. Ids in use are therefore at most `MaxStrikes * (N - T) + 1`. That a
deadline finds a member to strike, and that `Escrow` holds although dropouts
reconnect, is `Steady`: only a dropout's process ends, and it never
commits, so every member of a live session is connected. TLC checked `Steady` and
the budget on the instance of `RoastFaults` and on one with a dropout
that reconnects before they were proved.

### Registration

`RegistrationInv` adds to `TypeOK` what makes the refinement go through: a staged
connection that is alive leads to a client that waits, and no client has two; a
listed client holds the certificate of the id it announced, and that id is one of
the group; no id is listed twice. The code counts the list by its length, `Roll` by
its members: that the two agree is the last part. `RegistrationImplementsRoll` takes
the actions one by one: connect, flush, drop and crash stutter, a refused HELLO
stutters or fixes the size of the group, a promotion is `Roll`'s `Join` (which starts
the ceremony exactly when the roll is full), a removal its `Leave`.

### Key ceremonies

`SameSharing` speaks of files only, and says nothing of the packages from which the
next share will be computed. `SharingInv` does. A signer's polynomial of the run
*stands* (`Fixed`) once START can no longer reach the signer: START goes out once in a
run, to those who are listed then, and a process that comes back is not started
again (`StartOnce`). From then on the number of polynomials the signer ever drew
does not change within the run. Every round-1 package under way, noted by the coordinator or
kept by a signer is the polynomial of its sender that stands, and every secret is the signer's
own (`SignerFits`, `UpFits`, `DownFits`, `EntryFits`); hence what part 3 or
`refresh_shares` adds up is one polynomial of every signer, and the same for all
(`ContributionsFit`). A share, in memory or on disk, therefore holds all polynomials of a run or none
(`ShareFits`), and any two shares agree (`Agree`). Round-2 packages need no clause: part 3
accepts them only where they match the round-1 packages. What is proved of START
is needed: a signer that drew again after its first package was relayed would leave
two polynomials in circulation.

The other invariants of a ceremony are about order, and `SharingInv` says nothing of
it: the coordinator counts reports without looking at their sender, announces the end
of round 2 by flags the signers set, and relays packages it does not keep. That the
flags and the count mean what they should depends on every frame that is still under
way. `OrderInv` of `KeyCeremonyOrderProofs` adds to `SharingInv`:

* `FrameInv`: a stream holds frames of the mode at hand, and round-2 packages only of
  its sender, or only for its recipient;
* `PhaseInv`: round 2 begins when everybody has begun, packages of round 1 are
  relayed once, and whoever has done part 2 has all of them;
* `PlaceInv`: the round-2 package of `e` for `d` is unsent, on its way up, on its way
  down or with `d`, and in one of these places only. A process that comes back has
  no polynomial, so it never sends a second one;
* `ReportInv`: a signer reports once, and after the save; the coordinator has counted no
  more reports than there are signers with a *spent* report, one that was sent, is no
  longer under way, and (in a refresh) stands for a share on disk or, where the disk
  may fail, for a file without one (`Settled`); and when the
  ceremony is confirmed every signer's is spent. In a DKG the report and
  R2_COMPLETE follow the save in one step of the signer, in a refresh the report
  follows REFRESH_FINALIZE, which goes out once (`Few(toS[s], Final)`);
* `DeliveryInv`: while `d` takes part in a refresh, the package of `e` has reached `d`'s
  stream, or else precedes, in the stream of `e`, the notice that `e` is done. So
  when the coordinator reads the notice, it has already passed the package on.

TLC checked each of these on the instance of the run `KeyCeremony` before it was proved.
Each step of the two programs is first described in these terms (`SignerStepActs`,
`CoordinatorStepDoes`, `ConnectActs`...: which kinds of frames it reads and adds, what
happens to the packages, the key and the file), then each part of the invariant is
shown to be preserved by these descriptions. `AnnouncedMeansSaved` then follows from
`ReportInv` (a confirmed refresh has n reports, and those of n different signers). It
says what the code does keep to in spite of its unchecked writes: a signer whose disk works has
its share, and after a confirmed refresh no signer is left with an old one. What the
repository says of the announcements is more, and not true of a signer whose disk fails.
`NoWayBack` follows from `ReportInv` and `DeliveryInv` (a share of the run on disk means that
REFRESH_FINALIZE went out, hence that all notices had been read), and `TypeOK` from
`ReportInv` and the absence of duplicates in the list.

### Frames

The receiver finds the end of a frame by its length, dispatches it and throws the
buffer away. Three facts make that safe, for every size of a byte, a signature, a
payload and a record. First, lemma `Decoding`: a prefix of an encoded frame passes
for a whole frame exactly when it is all of it, and then yields the frame that was
encoded, also for the coordinator, which goes by `FROST_FRAME_SIG_SIZE` where the header would
say; the 16-bit lengths are read back as they were written because every payload is
within `FROST_MAX_PAYLOAD`. Second, lemma `RecordIsPiece`: a record is the next bytes
of the frame at the head, and of no other. Third, the invariant `StreamInv`: in each
direction there are, for every record under way and for the queue behind them, a
frame number and an offset such that the receiver's buffer is the beginning of the
first frame not yet dispatched, the first record goes on where the buffer ends, each
record where the one before it ends, and the queue where the last one ends (`Lane`).
The frame numbers and offsets are existentially quantified: the program keeps none
of them. A record that arrives therefore extends the buffer to a longer prefix of the same
frame, so it fits in the buffer (`NothingHeldBack`), and a complete frame is the
next one of the channel. `ToSigner!Safety` and `ToCoord!Safety` follow step by step:
queueing is `Send`, a read that completes a frame is `Deliver`, the rest stutters.

### Model-checked only

* Liveness (`Issues`, `Ends`, `Completes`, `Settles`, `Forms`, the liveness part of
  the `FifoChannel` refinement), which the proof system does not cover.
* `BundlesSurvive`: what the bundle codec computes is a recursion over its entries,
  so that it holds of every bundle is an induction over data.

## Plan

1. Done: signer, coordinator, issuance, registration, both ceremonies, frames, and
   their compositions, checked; proofs about the signer, signing, issuance,
   registration, the sharing a ceremony makes, and the frame layer.
2. Done: the order of a ceremony (`TypeOK`, `AnnouncedMeansSaved` and `NoWayBack` of
   `KeyCeremony`) for every group.
3. Done: `HonestNeverPenalised`, `SessionBound` and `CertificatesFresh` for every group. Every other
   invariant a run checks is proved too, except `BundlesSurvive`, which stays with
   TLC together with liveness.

## Not modelled

TLS itself beyond records, order and loss at a crash; Ed25519 and RSA arithmetic
(symbolic here); the pipes, hex and temporary files of the Rust binding, which
carry no protocol state (a subcommand is its result or a failure); FINAL_SIG,
which no coordinator sends; profiling (`checkpoint.c`), log analysis and the
certificate scripts, on which no protocol state depends.
