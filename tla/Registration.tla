---------------------------- MODULE Registration ----------------------------
(***************************************************************************)
(* How connections become registered signers: the signer's start-up checks *)
(* (main of frost_signer.c), the coordinator's accept, the staged          *)
(* connections, the HELLO checks in the order the code makes them, the     *)
(* ERROR that is flushed before the connection is closed, and promotion    *)
(* (event loop of frost_coordinator.c), in DKG and REFRESH mode.           *)
(***************************************************************************)
EXTENDS Naturals, Sequences, FiniteSets

CONSTANTS
  Client,       \* programs that may be started, any number of times
  Cert,         \* Cert[c]: whose certificate c presents; 0: not of this CA
  Hello,        \* Hello[c] = <<id, n, t>>, what c announces
  Greets,       \* clients whose first frame is a HELLO
  Options,      \* values of (--n, --t); 0 stands for an absent option
  HeldCerts,    \* ids whose certificates the coordinator has in certs/
  MaxSigners,   \* FROST_MAX_SIGNERS
  MaxCrashes    \* bound on the crashes of clients

ASSUME RegistrationAssumption ==
  /\ Cert \in [Client -> Nat] /\ Hello \in [Client -> Nat \X Nat \X Nat]
  /\ Greets \subseteq Client /\ Options \subseteq Nat \X Nat
  /\ HeldCerts \subseteq Nat /\ MaxSigners \in Nat /\ MaxCrashes \in Nat

VARIABLES
  group,     \* <<g_n, g_t>>
  options,   \* what the command line said
  client,    \* client[c]: "down", "waiting" (HELLO sent) or "in" (HELLO_ACK read)
  staged,    \* staged connections: set of [by, alive, refused]
  list,      \* registered signers, newest first: sequence of [by, alive]
  started,   \* has START_DKG or START_REFRESH been broadcast?
  crashes    \* crashes so far

vars == <<group, options, client, staged, list, started, crashes>>

Id(c) == Hello[c][1]

\* Who is registered, and under which ids.
Members == {list[i].by : i \in DOMAIN list}
Taken == {Id(c) : c \in Members}

Init ==
  /\ options \in Options /\ group = options
  /\ client = [c \in Client |-> "down"]
  /\ staged = {} /\ list = <<>> /\ started = FALSE /\ crashes = 0

-----------------------------------------------------------------------------
(* The signer's side.                                                      *)

\* main refuses arguments out of range.
ArgsInRange(c) ==
  LET id == Hello[c][1]  n == Hello[c][2]  t == Hello[c][3]
  IN  id \in 1..MaxSigners /\ n \in 2..MaxSigners /\ t \in 1..n /\ id <= n

\* The coordinator's handshake only lets certificates of this CA through.
HandshakeAccepts(c) == Cert[c] # 0

\* The program is started, connects and sends its HELLO; the connection is
\* staged.  The certificate is the one its own certs/ keeps for its id;
\* whether the coordinator keeps the same is not known here.
Connect(c) ==
  /\ client[c] = "down" /\ HandshakeAccepts(c)
  /\ c \in Greets => ArgsInRange(c)
  /\ client' = [client EXCEPT ![c] = "waiting"]
  /\ staged' = staged \cup {[by |-> c, alive |-> TRUE, refused |-> FALSE]}
  /\ UNCHANGED <<group, options, list, started, crashes>>

\* The program dies; the coordinator still has the connection.
Crash(c) ==
  /\ crashes < MaxCrashes /\ client[c] # "down"
  /\ crashes' = crashes + 1
  /\ client' = [client EXCEPT ![c] = "down"]
  /\ staged' = {IF q.by = c THEN [q EXCEPT !.alive = FALSE] ELSE q : q \in staged}
  /\ list' = [i \in DOMAIN list |->
                IF list[i].by = c THEN [list[i] EXCEPT !.alive = FALSE] ELSE list[i]]
  /\ UNCHANGED <<group, options, started>>

-----------------------------------------------------------------------------
(* The coordinator's side.                                                 *)

\* The group a HELLO is held against: the first one in range sets it.
GroupAfter(c) == IF group[1] = 0 THEN <<Hello[c][2], Hello[c][3]>> ELSE group

GroupFits(c) == GroupAfter(c) = <<Hello[c][2], Hello[c][3]>>

\* ensure_signer_pubkey_cached: the coordinator has the certificate of the id.
EnsureSignerPubkeyCached(c) == Id(c) \in HeldCerts

\* Mutant: any certificate of this CA will do.
VerifyAnyCert(c) == TRUE

\* verify_peer_tls_identity
VerifyPeerTlsIdentity(c) == Cert[c] = Id(c)

IdFree(c) == Id(c) \notin Taken

Welcome(c) ==
  /\ ArgsInRange(c) /\ GroupFits(c)
  /\ EnsureSignerPubkeyCached(c) /\ VerifyPeerTlsIdentity(c)
  /\ IdFree(c)

\* A connection whose first frame is no HELLO is closed without an answer.
NoHello(q) ==
  /\ q.alive /\ ~q.refused /\ q.by \notin Greets
  /\ staged' = staged \ {q}
  /\ client' = [client EXCEPT ![q.by] = "down"]
  /\ UNCHANGED <<group, options, list, started, crashes>>

\* Mutant: the handler returns without an ERROR.
RefuseSilently(q) ==
  /\ ~q.refused /\ q.by \in Greets /\ ~Welcome(q.by)
  /\ group' = IF ArgsInRange(q.by) THEN GroupAfter(q.by) ELSE group
  /\ UNCHANGED <<options, client, staged, list, started, crashes>>

\* A HELLO that fails a check: ERROR is queued.  The group has been set by
\* then, unless the numbers were out of range.
Refuse(q) ==
  /\ ~q.refused /\ q.by \in Greets /\ ~Welcome(q.by)
  /\ group' = IF ArgsInRange(q.by) THEN GroupAfter(q.by) ELSE group
  /\ staged' = (staged \ {q}) \cup {[q EXCEPT !.refused = TRUE]}
  /\ UNCHANGED <<options, client, list, started, crashes>>

\* Mutant: off by one.
EnoughNever(n) == Len(list) + 1 > n

\* maybe_start_dkg, maybe_start_refresh: the new signer makes it n.
Enough(n) == Len(list) + 1 >= n

\* A HELLO that passes: the connection moves to the list, HELLO_ACK goes out,
\* and START once the list is long enough.
Promote(q) ==
  /\ ~q.refused /\ q.by \in Greets /\ Welcome(q.by)
  /\ group' = GroupAfter(q.by)
  /\ staged' = staged \ {q}
  /\ list' = <<[by |-> q.by, alive |-> q.alive]>> \o list
  /\ client' = IF q.alive THEN [client EXCEPT ![q.by] = "in"] ELSE client
  /\ started' = (started \/ Enough(group'[1]))
  /\ UNCHANGED <<options, crashes>>

\* The ERROR is flushed and the connection closed (or it was lost): the
\* signer reports the rejection and exits.
Flush(q) ==
  /\ q.refused
  /\ staged' = staged \ {q}
  /\ client' = IF q.alive THEN [client EXCEPT ![q.by] = "down"] ELSE client
  /\ UNCHANGED <<group, options, list, started, crashes>>

\* remove_staged: the connection went down before its HELLO was read.
DropStaged(q) ==
  /\ ~q.alive
  /\ staged' = staged \ {q}
  /\ UNCHANGED <<group, options, client, list, started, crashes>>

\* Mutant: the oldest entry is removed, not the one that closed.
RemoveSignerOldest(i) ==
  /\ ~list[i].alive
  /\ list' = SubSeq(list, 1, Len(list) - 1)
  /\ UNCHANGED <<group, options, client, staged, started, crashes>>

\* remove_signer: a registered signer's connection is found down.
RemoveSigner(i) ==
  /\ ~list[i].alive
  /\ list' = [j \in 1..(Len(list) - 1) |-> IF j < i THEN list[j] ELSE list[j + 1]]
  /\ UNCHANGED <<group, options, client, staged, started, crashes>>

Next ==
  \/ \E c \in Client : Connect(c) \/ Crash(c)
  \/ \E q \in staged : NoHello(q) \/ Refuse(q) \/ Promote(q) \/ Flush(q) \/ DropStaged(q)
  \/ \E i \in DOMAIN list : RemoveSigner(i)

-----------------------------------------------------------------------------
(* Fairness: the event loop serves every connection, and whoever starts    *)
(* the signers tries again when one is turned away.                        *)

Conn(c) == {q \in staged : q.by = c}

Serve(c) == \E q \in Conn(c) : NoHello(q) \/ Refuse(q) \/ Promote(q) \/ Flush(q) \/ DropStaged(q)

Fairness ==
  /\ \A c \in Client : WF_vars(Connect(c)) /\ WF_vars(Serve(c))
  /\ WF_vars(\E i \in DOMAIN list : RemoveSigner(i))

Spec == Init /\ [][Next]_vars /\ Fairness

-----------------------------------------------------------------------------
(* Properties.                                                             *)

\* Every variable has the shape of the structure it stands for; no client has
\* two connections the coordinator takes for alive.
TypeOK ==
  /\ group \in Nat \X Nat /\ options \in Options
  /\ client \in [Client -> {"down", "waiting", "in"}]
  /\ staged \subseteq [by : Client, alive : BOOLEAN, refused : BOOLEAN]
  /\ list \in Seq([by : Client, alive : BOOLEAN])
  /\ \A c \in Client :
       client[c] = "in" <=> \E i \in DOMAIN list : list[i].by = c /\ list[i].alive

R == INSTANCE Roll WITH size <- group[1], roll <- {Cert[c] : c \in Members}

\* Registration implements Roll: identities are those of the certificates, no
\* two connections share one, and the ceremony starts only when all 1..n are
\* there at once, however connections arrive, lie, die and come back.
ImplementsRoll == R!Spec

\* Started programs do not hang on the coordinator: each is registered or has
\* exited again.
Settles == \A c \in Client : client[c] = "waiting" ~> client[c] \in {"down", "in"}

\* With n and t on the command line and a correct signer for every id that is
\* started again when it ends, the ceremony starts, whatever else connects.
Forms == options[1] # 0 /\ options[2] # 0 ~> started
=============================================================================
