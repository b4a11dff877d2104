------------------------ MODULE RegistrationProofs ------------------------
(***************************************************************************)
(* Proofs that Registration implements Roll, for every set of clients,     *)
(* certificates, announcements, options and crashes.                       *)
(***************************************************************************)
EXTENDS Registration, TLAPS, FiniteSetTheorems

\* The identities on the roll, and those of a list.
Registered == {Cert[c] : c \in Members}

\* A connection the coordinator takes for alive leads to a client that waits
\* for its answer, and no client has two of them.
StagedWait ==
  /\ \A q \in staged : q.alive => client[q.by] = "waiting"
  /\ \A q, r \in staged : q.alive /\ r.alive /\ q.by = r.by => q = r

\* A registered client has the certificate of the id it announced, and that id
\* is one of the group.
ListedAuthentic ==
  \A c \in Members : Cert[c] = Id(c) /\ Id(c) \in 1..group[1]

ListedOnce ==
  \A i, j \in DOMAIN list : i # j => Cert[list[i].by] # Cert[list[j].by]

\* What makes TypeOK and the refinement inductive.  The list is counted by
\* its length, the roll by its members.
RegistrationInv ==
  /\ TypeOK
  /\ StagedWait
  /\ ListedAuthentic
  /\ ListedOnce
  /\ Cardinality(Registered) = Len(list)

-----------------------------------------------------------------------------

LEMMA InitInv == Init => RegistrationInv
  <1> SUFFICES ASSUME Init PROVE RegistrationInv
    OBVIOUS
  <1>1. Members = {} /\ Registered = {} /\ Len(list) = 0 /\ DOMAIN list = {}
    BY DEF Init, Members, Registered
  <1>2. TypeOK
    BY <1>1, RegistrationAssumption DEF Init, TypeOK
  <1>3. StagedWait /\ ListedAuthentic /\ ListedOnce
    BY <1>1 DEF Init, StagedWait, ListedAuthentic, ListedOnce
  <1> QED
    BY <1>1, <1>2, <1>3, FS_EmptySet DEF RegistrationInv

\* The roll is finite.
LEMMA RollFinite ==
  ASSUME RegistrationInv
  PROVE  /\ Registered \in SUBSET (1..group[1])
         /\ IsFiniteSet(Registered)
         /\ group[1] \in Nat /\ Len(list) \in Nat
  <1>1. Registered \in SUBSET (1..group[1])
    BY DEF RegistrationInv, ListedAuthentic, Registered
  <1>2. group[1] \in Nat /\ Len(list) \in Nat
    BY DEF RegistrationInv, TypeOK
  <1>3. IsFiniteSet(1..group[1])
    BY <1>2, FS_Interval, SMTT(30)
  <1> QED
    BY <1>1, <1>2, <1>3, FS_Subset

-----------------------------------------------------------------------------
(* Steps that leave the list alone.                                        *)

LEMMA SameListInv ==
  ASSUME RegistrationInv, TypeOK', StagedWait', UNCHANGED list,
         group' = group \/ group[1] = 0
  PROVE  RegistrationInv'
  <1>1. Members' = Members /\ Registered' = Registered
    BY DEF Members, Registered
  <1>2. ListedOnce'
    BY DEF RegistrationInv, ListedOnce
  <1>3. ListedAuthentic'
    <2>1. CASE group' = group
      BY <1>1, <2>1 DEF RegistrationInv, ListedAuthentic
    <2>2. CASE group[1] = 0
      <3>1. Members = {}
        BY <2>2 DEF RegistrationInv, ListedAuthentic
      <3> QED
        BY <1>1, <3>1 DEF ListedAuthentic
    <2> QED
      BY <2>1, <2>2
  <1> QED
    BY <1>1, <1>2, <1>3 DEF RegistrationInv

LEMMA ConnectInv ==
  ASSUME RegistrationInv, NEW c \in Client, Connect(c)
  PROVE  RegistrationInv'
  <1> DEFINE new == [by |-> c, alive |-> TRUE, refused |-> FALSE]
  <1>0. /\ new \in [by : Client, alive : BOOLEAN, refused : BOOLEAN]
        /\ new.by = c /\ new.alive
        /\ staged' = staged \cup {new}
    BY DEF Connect
  <1> HIDE DEF new
  <1>1. TypeOK'
    <2>1. \A x \in Client : client'[x] = "in" <=> client[x] = "in"
      BY DEF RegistrationInv, TypeOK, Connect
    <2> QED
      BY <1>0, <2>1 DEF RegistrationInv, TypeOK, Connect
  <1>2. StagedWait'
    <2>1. \A q \in staged : q.alive => q.by # c /\ client'[q.by] = "waiting"
      BY DEF RegistrationInv, TypeOK, StagedWait, Connect
    <2>2. client'[c] = "waiting"
      BY DEF RegistrationInv, TypeOK, Connect
    <2>3. \A q, r \in staged' : q.alive /\ r.alive /\ q.by = r.by => q = r
      BY <1>0, <2>1, Zenon DEF RegistrationInv, StagedWait
    <2> QED
      BY <1>0, <2>1, <2>2, <2>3, Zenon DEF StagedWait
  <1> QED
    BY <1>1, <1>2, SameListInv DEF Connect

LEMMA NoHelloInv ==
  ASSUME RegistrationInv, NEW q \in staged, NoHello(q)
  PROVE  RegistrationInv'
  <1>0. q.by \in Client /\ client[q.by] = "waiting"
    BY DEF RegistrationInv, TypeOK, StagedWait, NoHello
  <1>1. TypeOK'
    BY <1>0 DEF RegistrationInv, TypeOK, NoHello
  <1>2. StagedWait'
    <2>1. \A r \in staged : r.alive /\ r # q => r.by # q.by /\ r.by \in Client
      BY DEF RegistrationInv, TypeOK, StagedWait, NoHello
    <2> QED
      BY <2>1 DEF RegistrationInv, TypeOK, StagedWait, NoHello
  <1> QED
    BY <1>1, <1>2, SameListInv DEF NoHello

LEMMA FlushInv ==
  ASSUME RegistrationInv, NEW q \in staged, Flush(q)
  PROVE  RegistrationInv'
  <1>0. q.by \in Client /\ (q.alive => client[q.by] = "waiting")
    BY DEF RegistrationInv, TypeOK, StagedWait
  <1>1. TypeOK'
    BY <1>0 DEF RegistrationInv, TypeOK, Flush
  <1>2. StagedWait'
    <2>1. q.alive => \A r \in staged : r.alive /\ r # q => r.by # q.by /\ r.by \in Client
      BY DEF RegistrationInv, TypeOK, StagedWait
    <2> QED
      BY <2>1 DEF RegistrationInv, TypeOK, StagedWait, Flush
  <1> QED
    BY <1>1, <1>2, SameListInv DEF Flush

LEMMA DropStagedInv ==
  ASSUME RegistrationInv, NEW q \in staged, DropStaged(q)
  PROVE  RegistrationInv'
  <1>1. TypeOK'
    BY DEF RegistrationInv, TypeOK, DropStaged
  <1>2. StagedWait'
    BY DEF RegistrationInv, StagedWait, DropStaged
  <1> QED
    BY <1>1, <1>2, SameListInv DEF DropStaged

\* The group is set once.
LEMMA GroupFixed ==
  ASSUME RegistrationInv, NEW c \in Client, ArgsInRange(c)
  PROVE  /\ GroupAfter(c) \in Nat \X Nat
         /\ GroupAfter(c) = group \/ group[1] = 0
         /\ group[1] = 0 => GroupAfter(c)[1] \in Nat \ {0}
  <1>1. Hello[c] \in Nat \X Nat \X Nat /\ Hello[c][2] \in Nat /\ Hello[c][3] \in Nat
    BY RegistrationAssumption
  <1>2. Hello[c][2] # 0
    BY <1>1 DEF ArgsInRange
  <1> QED
    BY <1>1, <1>2 DEF RegistrationInv, TypeOK, GroupAfter

LEMMA RefuseInv ==
  ASSUME RegistrationInv, NEW q \in staged, Refuse(q)
  PROVE  RegistrationInv'
  <1>0. q.by \in Client
    BY DEF RegistrationInv, TypeOK
  <1>1. /\ group' \in Nat \X Nat
        /\ group' = group \/ group[1] = 0
    BY <1>0, GroupFixed DEF RegistrationInv, TypeOK, Refuse
  <1> DEFINE r == [q EXCEPT !.refused = TRUE]
  <1>2. /\ r \in [by : Client, alive : BOOLEAN, refused : BOOLEAN]
        /\ r.by = q.by /\ r.alive = q.alive
        /\ staged' = (staged \ {q}) \cup {r} /\ client' = client
    BY DEF RegistrationInv, TypeOK, Refuse
  <1> HIDE DEF r
  <1>3. TypeOK'
    BY <1>1, <1>2 DEF RegistrationInv, TypeOK, Refuse
  <1>4. StagedWait'
    <2>1. \A x \in staged' : x.alive => client'[x.by] = "waiting"
      BY <1>2, Zenon DEF RegistrationInv, StagedWait
    <2>0. \A y \in staged \ {q} : y.alive /\ r.alive => y.by # r.by
      BY <1>2, Zenon DEF RegistrationInv, StagedWait
    <2>2. \A x, y \in staged' : x.alive /\ y.alive /\ x.by = y.by => x = y
      BY <1>2, <2>0, Zenon DEF RegistrationInv, StagedWait
    <2> QED
      BY <2>1, <2>2 DEF StagedWait
  <1> QED
    BY <1>1, <1>3, <1>4, SameListInv DEF Refuse

\* A process that dies takes its connections' liveness with it.
LEMMA CrashInv ==
  ASSUME RegistrationInv, NEW c \in Client, Crash(c)
  PROVE  RegistrationInv'
  <1> DEFINE Item == [by : Client, alive : BOOLEAN]
             Conns == [by : Client, alive : BOOLEAN, refused : BOOLEAN]
  <1>0. /\ \A e \in Item : /\ [e EXCEPT !.alive = FALSE] \in Item
                          /\ [e EXCEPT !.alive = FALSE].by = e.by
                          /\ [e EXCEPT !.alive = FALSE].alive = FALSE
        /\ \A q \in Conns : /\ [q EXCEPT !.alive = FALSE] \in Conns
                           /\ [q EXCEPT !.alive = FALSE].alive = FALSE
    OBVIOUS
  <1>1. /\ DOMAIN list' = DOMAIN list
        /\ list' \in Seq(Item) /\ Len(list') = Len(list)
        /\ \A i \in DOMAIN list : /\ list'[i].by = list[i].by
                                  /\ list'[i].alive <=> list[i].alive /\ list[i].by # c
    <2>1. list \in Seq(Item) /\ DOMAIN list = 1..Len(list) /\ Len(list) \in Nat
      BY DEF RegistrationInv, TypeOK
    <2>2. list' = [i \in 1..Len(list) |->
                     IF list[i].by = c THEN [list[i] EXCEPT !.alive = FALSE] ELSE list[i]]
      BY <2>1 DEF Crash
    <2> HIDE DEF Item
    <2>3. \A i \in 1..Len(list) : list[i] \in Item
      BY <2>1
    <2>4. \A i \in 1..Len(list) : list'[i] \in Item
      BY <1>0, <2>2, <2>3
    <2>5. list' \in Seq(Item) /\ Len(list') = Len(list) /\ DOMAIN list' = 1..Len(list)
      BY <2>1, <2>2, <2>4
    <2>6. \A i \in 1..Len(list) : /\ list'[i].by = list[i].by
                                  /\ list'[i].alive <=> list[i].alive /\ list[i].by # c
      BY <1>0, <2>2, <2>3
    <2> QED
      BY <2>1, <2>5, <2>6
  <1>2. /\ staged' \subseteq Conns
        /\ \A x \in staged' : x.alive => x \in staged /\ x.by # c
    <2>1. /\ staged \subseteq Conns
          /\ staged' = {IF q.by = c THEN [q EXCEPT !.alive = FALSE] ELSE q : q \in staged}
      BY DEF RegistrationInv, TypeOK, Crash
    <2> HIDE DEF Conns
    <2>2. ASSUME NEW x \in staged'
          PROVE  x \in Conns /\ (x.alive => x \in staged /\ x.by # c)
      <3>1. PICK q \in staged : x = IF q.by = c THEN [q EXCEPT !.alive = FALSE] ELSE q
        BY <2>1
      <3> QED
        BY <1>0, <2>1, <3>1
    <2> QED
      BY <2>2
  <1>3. /\ client' \in [Client -> {"down", "waiting", "in"}]
        /\ \A x \in Client : client'[x] = IF x = c THEN "down" ELSE client[x]
    BY DEF RegistrationInv, TypeOK, Crash
  <1>4. TypeOK'
    <2>1. \A x \in Client :
             client'[x] = "in" <=> \E i \in DOMAIN list' : list'[i].by = x /\ list'[i].alive
      <3>1. \A x \in Client :
               client[x] = "in" <=> \E i \in DOMAIN list : list[i].by = x /\ list[i].alive
        BY DEF RegistrationInv, TypeOK
      <3>2. \A x \in Client : x # c =>
               ((\E i \in DOMAIN list : list[i].by = x /\ list[i].alive)
                  <=> \E i \in DOMAIN list' : list'[i].by = x /\ list'[i].alive)
        BY <1>1, Zenon
      <3>3. ~ \E i \in DOMAIN list' : list'[i].by = c /\ list'[i].alive
        BY <1>1, Zenon
      <3> QED
        BY <1>3, <3>1, <3>2, <3>3
    <2> QED
      BY <1>1, <1>2, <1>3, <2>1 DEF RegistrationInv, TypeOK, Crash
  <1>5. StagedWait'
    BY <1>2, <1>3 DEF RegistrationInv, TypeOK, StagedWait
  <1>6. Members' = Members /\ Registered' = Registered /\ group' = group
    BY <1>1 DEF Members, Registered, Crash
  <1>7. ListedAuthentic' /\ ListedOnce'
    BY <1>1, <1>6 DEF RegistrationInv, ListedAuthentic, ListedOnce
  <1> QED
    BY <1>1, <1>4, <1>5, <1>6, <1>7 DEF RegistrationInv

-----------------------------------------------------------------------------
(* Steps that change the list, with the step of Roll they implement.       *)

\* What the checks of a HELLO establish.
LEMMA WelcomeFacts ==
  ASSUME RegistrationInv, NEW c \in Client, Welcome(c)
  PROVE  /\ Cert[c] = Id(c) /\ Id(c) \in 1..GroupAfter(c)[1]
         /\ Cert[c] \notin Registered /\ c \notin Members
         /\ GroupAfter(c) \in Nat \X Nat
         /\ GroupAfter(c) = group \/ group[1] = 0
         /\ group[1] = 0 => GroupAfter(c)[1] \in Nat \ {0}
  <1>1. ArgsInRange(c) /\ GroupFits(c) /\ VerifyPeerTlsIdentity(c) /\ IdFree(c)
    BY DEF Welcome
  <1>2. Cert[c] = Id(c) /\ Id(c) \notin Taken
    BY <1>1 DEF VerifyPeerTlsIdentity, IdFree
  <1>3. Cert[c] \notin Registered /\ c \notin Members
    BY <1>2 DEF RegistrationInv, ListedAuthentic, Registered, Taken
  <1>4. /\ Id(c) \in Nat /\ 1 <= Id(c) /\ Id(c) <= Hello[c][2]
        /\ Hello[c][2] \in Nat
    BY <1>1, RegistrationAssumption DEF ArgsInRange, Id
  <1>5. GroupAfter(c)[1] = Hello[c][2]
    BY <1>1 DEF GroupFits
  <1> QED
    BY <1>1, <1>2, <1>3, <1>4, <1>5, GroupFixed

\* The list after a promotion.
LEMMA PromoteList ==
  ASSUME RegistrationInv, NEW q \in staged, Promote(q)
  PROVE  /\ list' \in Seq([by : Client, alive : BOOLEAN])
         /\ Len(list') = Len(list) + 1 /\ DOMAIN list' = 1..(Len(list) + 1)
         /\ DOMAIN list = 1..Len(list) /\ Len(list) \in Nat
         /\ list'[1].by = q.by /\ list'[1].alive = q.alive
         /\ \A i \in 1..Len(list) : list'[i + 1] = list[i]
         /\ \A i \in 2..(Len(list) + 1) : list'[i] = list[i - 1]
         /\ Members' = Members \cup {q.by}
         /\ Registered' = Registered \cup {Cert[q.by]}
  <1> DEFINE e == [by |-> q.by, alive |-> q.alive]
             Item == [by : Client, alive : BOOLEAN]
  <1>1. /\ e \in Item /\ e.by = q.by /\ e.alive = q.alive
        /\ list \in Seq(Item) /\ list' = <<e>> \o list
    BY DEF RegistrationInv, TypeOK, Promote
  <1> HIDE DEF e, Item
  <1>2. /\ list' \in Seq(Item)
        /\ Len(list') = Len(list) + 1 /\ DOMAIN list' = 1..(Len(list) + 1)
        /\ DOMAIN list = 1..Len(list) /\ Len(list) \in Nat
        /\ list'[1] = e
        /\ \A i \in 1..Len(list) : list'[i + 1] = list[i]
        /\ \A i \in 2..(Len(list) + 1) : list'[i] = list[i - 1]
    BY <1>1
  <1>3. Members' = Members \cup {q.by}
    <2>1. ASSUME NEW x \in Members' PROVE x \in Members \cup {q.by}
      <3>1. PICK i \in 1..(Len(list) + 1) : x = list'[i].by
        BY <1>2 DEF Members
      <3>2. CASE i = 1
        BY <1>1, <1>2, <3>1, <3>2
      <3>3. CASE i # 1
        <4>1. i \in 2..(Len(list) + 1) /\ i - 1 \in 1..Len(list)
          BY <1>2, <3>3
        <4> QED
          BY <1>2, <3>1, <4>1 DEF Members
      <3> QED
        BY <3>2, <3>3
    <2>2. ASSUME NEW x \in Members PROVE x \in Members'
      <3>1. PICK i \in 1..Len(list) : x = list[i].by
        BY <1>2 DEF Members
      <3>2. i + 1 \in 1..(Len(list) + 1) /\ list'[i + 1] = list[i]
        BY <1>2
      <3> QED
        BY <1>2, <3>1, <3>2 DEF Members
    <2>3. q.by \in Members'
      BY <1>1, <1>2 DEF Members
    <2> QED
      BY <2>1, <2>2, <2>3
  <1>4. Registered' = Registered \cup {Cert[q.by]}
    BY <1>3 DEF Registered
  <1> QED
    BY <1>1, <1>2, <1>3, <1>4 DEF Item

LEMMA PromoteInv ==
  ASSUME RegistrationInv, NEW q \in staged, Promote(q)
  PROVE  RegistrationInv'
  <1>1. /\ q.by \in Client /\ q.alive \in BOOLEAN /\ Welcome(q.by)
        /\ group' = GroupAfter(q.by)
        /\ staged' = staged \ {q}
        /\ client' = IF q.alive THEN [client EXCEPT ![q.by] = "in"] ELSE client
        /\ options' = options
    BY DEF RegistrationInv, TypeOK, Promote
  <1>2. /\ Cert[q.by] = Id(q.by) /\ Id(q.by) \in 1..group'[1]
        /\ Cert[q.by] \notin Registered /\ q.by \notin Members
        /\ group' \in Nat \X Nat
        /\ group' = group \/ group[1] = 0
    BY <1>1, WelcomeFacts
  <1>3. /\ Len(list') = Len(list) + 1 /\ DOMAIN list' = 1..(Len(list) + 1)
        /\ DOMAIN list = 1..Len(list) /\ Len(list) \in Nat
        /\ list'[1].by = q.by /\ list'[1].alive = q.alive
        /\ \A i \in 1..Len(list) : list'[i + 1] = list[i]
        /\ \A i \in 2..(Len(list) + 1) : list'[i] = list[i - 1]
        /\ Members' = Members \cup {q.by}
        /\ Registered' = Registered \cup {Cert[q.by]}
    BY PromoteList
  <1>4. TypeOK'
    <2>1. list' \in Seq([by : Client, alive : BOOLEAN])
      BY PromoteList
    <2>2. ASSUME NEW x \in Client
          PROVE  client'[x] = "in" <=> \E i \in DOMAIN list' : list'[i].by = x /\ list'[i].alive
      <3> DEFINE Had == \E i \in DOMAIN list : list[i].by = x /\ list[i].alive
                 Has == \E i \in DOMAIN list' : list'[i].by = x /\ list'[i].alive
      <3>1. client[x] = "in" <=> Had
        BY DEF RegistrationInv, TypeOK
      <3>2. CASE x # q.by
        <4>1. Had => Has
          <5>1. ASSUME NEW i \in DOMAIN list, list[i].by = x /\ list[i].alive PROVE Has
            <6>1. i + 1 \in DOMAIN list' /\ list'[i + 1] = list[i]
              BY <1>3
            <6> QED
              BY <5>1, <6>1
          <5> QED
            BY <5>1
        <4>2. Has => Had
          <5>1. ASSUME NEW i \in DOMAIN list', list'[i].by = x /\ list'[i].alive PROVE Had
            <6>1. i - 1 \in DOMAIN list /\ list'[i] = list[i - 1]
              BY <1>3, <3>2, <5>1
            <6> QED
              BY <5>1, <6>1
          <5> QED
            BY <5>1
        <4>3. client'[x] = client[x]
          BY <1>1, <3>2 DEF RegistrationInv, TypeOK
        <4> QED
          BY <3>1, <4>1, <4>2, <4>3
      <3>3. CASE x = q.by
        <4>1. ~Had /\ client[x] # "in"
          BY <1>2, <3>1, <3>3 DEF Members
        <4>2. client'[x] = "in" <=> q.alive
          BY <1>1, <3>3, <4>1 DEF RegistrationInv, TypeOK
        <4>3. q.alive => Has
          <5>1. 1 \in DOMAIN list'
            BY <1>3
          <5> QED
            BY <1>3, <3>3, <5>1
        <4>4. Has => q.alive
          <5>1. ASSUME NEW i \in DOMAIN list', list'[i].by = x /\ list'[i].alive PROVE q.alive
            <6>1. CASE i = 1
              BY <1>3, <5>1, <6>1
            <6>2. CASE i # 1
              <7>1. i - 1 \in DOMAIN list /\ list'[i] = list[i - 1]
                BY <1>3, <6>2
              <7> QED
                BY <1>2, <3>3, <5>1, <7>1 DEF Members
            <6> QED
              BY <6>1, <6>2
          <5> QED
            BY <5>1
        <4> QED
          BY <4>2, <4>3, <4>4
      <3> QED
        BY <3>2, <3>3
    <2>3. /\ client' \in [Client -> {"down", "waiting", "in"}]
          /\ staged' \subseteq [by : Client, alive : BOOLEAN, refused : BOOLEAN]
      BY <1>1 DEF RegistrationInv, TypeOK
    <2> QED
      BY <1>1, <1>2, <2>1, <2>2, <2>3 DEF RegistrationInv, TypeOK
  <1>5. StagedWait'
    <2>1. q.alive => \A r \in staged : r.alive /\ r # q => r.by # q.by /\ r.by \in Client
      BY DEF RegistrationInv, TypeOK, StagedWait
    <2> QED
      BY <1>1, <2>1 DEF RegistrationInv, TypeOK, StagedWait
  <1>6. ListedAuthentic'
    <2>1. CASE group' = group
      BY <1>2, <1>3, <2>1 DEF RegistrationInv, ListedAuthentic
    <2>2. CASE group[1] = 0
      <3>1. Members = {}
        BY <2>2 DEF RegistrationInv, ListedAuthentic
      <3> QED
        BY <1>2, <1>3, <3>1 DEF ListedAuthentic
    <2> QED
      BY <1>2, <2>1, <2>2
  <1>7. ListedOnce'
    <2>0. \A i \in 2..(Len(list) + 1) :
             i - 1 \in DOMAIN list /\ list'[i].by = list[i - 1].by /\ Cert[list'[i].by] \in Registered
      BY <1>3 DEF Members, Registered
    <2> SUFFICES ASSUME NEW i \in 1..(Len(list) + 1), NEW j \in 1..(Len(list) + 1), i # j
                 PROVE  Cert[list'[i].by] # Cert[list'[j].by]
      BY <1>3 DEF ListedOnce
    <2>1. CASE i = 1
      <3>1. j \in 2..(Len(list) + 1)
        BY <1>3, <2>1
      <3> QED
        BY <1>2, <1>3, <2>0, <2>1, <3>1
    <2>2. CASE j = 1
      <3>1. i \in 2..(Len(list) + 1)
        BY <1>3, <2>2
      <3> QED
        BY <1>2, <1>3, <2>0, <2>2, <3>1
    <2>3. CASE i # 1 /\ j # 1
      <3>1. i \in 2..(Len(list) + 1) /\ j \in 2..(Len(list) + 1) /\ i - 1 # j - 1
        BY <1>3, <2>3
      <3> QED
        BY <2>0, <3>1 DEF RegistrationInv, ListedOnce
    <2> QED
      BY <2>1, <2>2, <2>3
  <1>8. Cardinality(Registered') = Len(list')
    <2>1. IsFiniteSet(Registered) /\ Cardinality(Registered) = Len(list)
      BY RollFinite DEF RegistrationInv
    <2>2. Cardinality(Registered \cup {Cert[q.by]}) = Cardinality(Registered) + 1
      BY <1>2, <2>1, FS_AddElement
    <2> QED
      BY <1>3, <2>1, <2>2
  <1> QED
    BY <1>4, <1>5, <1>6, <1>7, <1>8 DEF RegistrationInv

\* The list after the removal of position k.
LEMMA RemoveList ==
  ASSUME RegistrationInv, NEW k \in DOMAIN list, RemoveSigner(k)
  PROVE  /\ list' \in Seq([by : Client, alive : BOOLEAN])
         /\ Len(list') = Len(list) - 1 /\ DOMAIN list' = 1..(Len(list) - 1)
         /\ DOMAIN list = 1..Len(list) /\ Len(list) \in Nat /\ k \in 1..Len(list)
         /\ \A i \in DOMAIN list' : list'[i] = IF i < k THEN list[i] ELSE list[i + 1]
         /\ Registered' = Registered \ {Cert[list[k].by]}
         /\ Members' \subseteq Members
  <1> DEFINE Item == [by : Client, alive : BOOLEAN]
  <1>1. /\ list \in Seq(Item)
        /\ list' = [i \in 1..(Len(list) - 1) |-> IF i < k THEN list[i] ELSE list[i + 1]]
    BY DEF RegistrationInv, TypeOK, RemoveSigner
  <1> HIDE DEF Item
  <1>2. /\ DOMAIN list = 1..Len(list) /\ Len(list) \in Nat
        /\ k \in 1..Len(list) /\ Len(list) - 1 \in Nat
        /\ \A i \in 1..Len(list) : list[i] \in Item
    BY <1>1
  <1>3. \A i \in 1..(Len(list) - 1) :
           /\ list'[i] = IF i < k THEN list[i] ELSE list[i + 1]
           /\ list'[i] \in Item
           /\ IF i < k THEN i \in DOMAIN list ELSE i + 1 \in DOMAIN list
    BY <1>1, <1>2
  <1>4. /\ list' \in Seq(Item) /\ Len(list') = Len(list) - 1
        /\ DOMAIN list' = 1..(Len(list) - 1)
    BY <1>1, <1>2, <1>3
  <1>5. Members' \subseteq Members
    BY <1>3, <1>4 DEF Members
  <1>6. Registered' = Registered \ {Cert[list[k].by]}
    <2>1. ASSUME NEW x \in Registered' PROVE x \in Registered /\ x # Cert[list[k].by]
      <3>1. PICK i \in DOMAIN list' : x = Cert[list'[i].by]
        BY DEF Registered, Members
      <3>2. PICK j \in DOMAIN list : j # k /\ list'[i] = list[j]
        BY <1>2, <1>3, <1>4
      <3> QED
        BY <3>1, <3>2 DEF RegistrationInv, ListedOnce, Registered, Members
    <2>2. ASSUME NEW x \in Registered, x # Cert[list[k].by] PROVE x \in Registered'
      <3>1. PICK j \in 1..Len(list) : x = Cert[list[j].by] /\ j # k
        BY <1>2, <2>2 DEF Registered, Members
      <3>2. PICK i \in DOMAIN list' : list'[i] = list[j]
        <4>1. CASE j < k
          <5>1. j \in DOMAIN list' /\ list'[j] = list[j]
            BY <1>2, <1>3, <1>4, <4>1
          <5> QED
            BY <5>1
        <4>2. CASE ~(j < k)
          <5>1. j - 1 \in DOMAIN list' /\ ~(j - 1 < k) /\ j - 1 + 1 = j
            BY <1>2, <1>4, <3>1, <4>2
          <5>2. list'[j - 1] = list[j]
            BY <1>3, <1>4, <5>1
          <5> QED
            BY <5>1, <5>2
        <4> QED
          BY <4>1, <4>2
      <3> QED
        BY <3>1, <3>2 DEF Registered, Members
    <2> QED
      BY <2>1, <2>2
  <1> QED
    BY <1>2, <1>3, <1>4, <1>5, <1>6 DEF Item

LEMMA RemoveSignerInv ==
  ASSUME RegistrationInv, NEW k \in DOMAIN list, RemoveSigner(k)
  PROVE  RegistrationInv'
  <1>1. /\ Len(list') = Len(list) - 1 /\ DOMAIN list' = 1..(Len(list) - 1)
        /\ DOMAIN list = 1..Len(list) /\ Len(list) \in Nat /\ k \in 1..Len(list)
        /\ \A i \in DOMAIN list' : list'[i] = IF i < k THEN list[i] ELSE list[i + 1]
        /\ Registered' = Registered \ {Cert[list[k].by]}
        /\ Members' \subseteq Members
    BY RemoveList
  <1>2. /\ ~list[k].alive
        /\ UNCHANGED <<group, options, client, staged>>
    BY DEF RemoveSigner
  <1>3. TypeOK'
    <2>1. list' \in Seq([by : Client, alive : BOOLEAN])
      BY RemoveList
    <2>2. ASSUME NEW x \in Client
          PROVE  (\E i \in DOMAIN list : list[i].by = x /\ list[i].alive)
                   <=> \E i \in DOMAIN list' : list'[i].by = x /\ list'[i].alive
      <3>1. ASSUME NEW i \in DOMAIN list, list[i].by = x, list[i].alive
            PROVE  \E j \in DOMAIN list' : list'[j].by = x /\ list'[j].alive
        <4>1. i # k
          BY <1>2, <3>1
        <4>2. CASE i < k
          <5>1. i \in DOMAIN list' /\ list'[i] = list[i]
            BY <1>1, <4>2
          <5> QED
            BY <3>1, <5>1
        <4>3. CASE ~(i < k)
          <5>1. i - 1 \in DOMAIN list' /\ ~(i - 1 < k) /\ i - 1 + 1 = i
            BY <1>1, <4>1, <4>3
          <5>2. list'[i - 1] = list[i]
            BY <1>1, <5>1
          <5> QED
            BY <3>1, <5>1, <5>2
        <4> QED
          BY <4>2, <4>3
      <3>2. ASSUME NEW i \in DOMAIN list', list'[i].by = x, list'[i].alive
            PROVE  \E j \in DOMAIN list : list[j].by = x /\ list[j].alive
        <4>1. PICK j \in DOMAIN list : list'[i] = list[j]
          BY <1>1
        <4> QED
          BY <3>2, <4>1
      <3> QED
        BY <3>1, <3>2
    <2> QED
      BY <1>2, <2>1, <2>2 DEF RegistrationInv, TypeOK
  <1>4. StagedWait'
    BY <1>2 DEF RegistrationInv, StagedWait
  <1>5. ListedAuthentic'
    BY <1>1, <1>2 DEF RegistrationInv, ListedAuthentic
  <1>6. ListedOnce'
    <2> SUFFICES ASSUME NEW i \in DOMAIN list', NEW j \in DOMAIN list', i # j
                 PROVE  Cert[list'[i].by] # Cert[list'[j].by]
      BY DEF ListedOnce
    <2>1. PICK a \in DOMAIN list, b \in DOMAIN list :
             a # b /\ list'[i] = list[a] /\ list'[j] = list[b]
      <3> DEFINE a == IF i < k THEN i ELSE i + 1
                 b == IF j < k THEN j ELSE j + 1
      <3>1. a \in DOMAIN list /\ b \in DOMAIN list /\ a # b
        BY <1>1
      <3>2. list'[i] = list[a] /\ list'[j] = list[b]
        BY <1>1
      <3> QED
        BY <3>1, <3>2
    <2> QED
      BY <2>1 DEF RegistrationInv, ListedOnce
  <1>7. Cardinality(Registered') = Len(list')
    <2>1. IsFiniteSet(Registered) /\ Cardinality(Registered) = Len(list)
      BY RollFinite DEF RegistrationInv
    <2>2. Cert[list[k].by] \in Registered
      BY DEF Registered, Members
    <2>3. Cardinality(Registered \ {Cert[list[k].by]}) = Cardinality(Registered) - 1
      BY <2>1, <2>2, FS_RemoveElement
    <2> QED
      BY <1>1, <2>1, <2>3
  <1> QED
    BY <1>3, <1>4, <1>5, <1>6, <1>7 DEF RegistrationInv

-----------------------------------------------------------------------------
(* The theorems.                                                           *)

LEMMA NextInv == RegistrationInv /\ [Next]_vars => RegistrationInv'
  <1> SUFFICES ASSUME RegistrationInv, [Next]_vars PROVE RegistrationInv'
    OBVIOUS
  <1>1. CASE UNCHANGED vars
    BY <1>1 DEF vars, RegistrationInv, TypeOK, StagedWait, ListedAuthentic, ListedOnce,
                Registered, Members
  <1>2. ASSUME NEW c \in Client, Connect(c) \/ Crash(c)
        PROVE  RegistrationInv'
    BY <1>2, ConnectInv, CrashInv
  <1>3. ASSUME NEW q \in staged,
               NoHello(q) \/ Refuse(q) \/ Promote(q) \/ Flush(q) \/ DropStaged(q)
        PROVE  RegistrationInv'
    BY <1>3, NoHelloInv, RefuseInv, PromoteInv, FlushInv, DropStagedInv
  <1>4. ASSUME NEW i \in DOMAIN list, RemoveSigner(i)
        PROVE  RegistrationInv'
    BY <1>4, RemoveSignerInv
  <1> QED
    BY <1>1, <1>2, <1>3, <1>4 DEF Next

\* What the accept handler, the staged and the listed connections keep true of
\* each other, whatever the clients send and whenever their programs die: every
\* listed connection passed the checks of HELLO, and no id is listed twice.
THEOREM RegistrationInvariant == Spec => []RegistrationInv
  BY InitInv, NextInv, PTL DEF Spec

\* The staged and the listed connections, the group fixed by the first HELLO
\* and the programs of the clients are well formed in every reachable state.
THEOREM RegistrationTypeOK == Spec => []TypeOK
  <1>1. RegistrationInv => TypeOK
    BY DEF RegistrationInv
  <1> QED
    BY <1>1, RegistrationInvariant, PTL

-----------------------------------------------------------------------------
(* The refinement.                                                         *)

\* A roll of the group is full when it has as many members as the group.
LEMMA FullRoll ==
  ASSUME NEW n \in Nat, NEW S \in SUBSET (1..n)
  PROVE  S = 1..n <=> Cardinality(S) >= n
  <1>1. IsFiniteSet(1..n) /\ Cardinality(1..n) = n
    BY FS_Interval
  <1>2. /\ IsFiniteSet(S) /\ Cardinality(S) <= n
        /\ n = Cardinality(S) => 1..n = S
    BY <1>1, FS_Subset
  <1>3. Cardinality(S) \in Nat
    BY <1>2, FS_CardinalityType
  <1>4. S = 1..n => Cardinality(S) = n
    BY <1>1
  <1> QED
    BY <1>2, <1>3, <1>4

\* A promotion is a Join, and it starts the ceremony exactly when the roll is
\* full: the list is then as long as the group is large.
LEMMA PromoteJoins ==
  ASSUME RegistrationInv, NEW q \in staged, Promote(q)
  PROVE  R!Next
  <1>1. /\ q.by \in Client /\ Welcome(q.by) /\ group' = GroupAfter(q.by)
        /\ started' = (started \/ Enough(group'[1]))
    BY DEF RegistrationInv, TypeOK, Promote
  <1>2. /\ Cert[q.by] = Id(q.by) /\ Id(q.by) \in 1..group'[1]
        /\ Cert[q.by] \notin Registered
        /\ group' \in Nat \X Nat
        /\ group' = group \/ group[1] = 0
        /\ group[1] = 0 => group'[1] \in Nat \ {0}
    BY <1>1, WelcomeFacts
  <1>3. Registered' = Registered \cup {Cert[q.by]} /\ Len(list') = Len(list) + 1
    BY PromoteList
  <1>4. Enough(group'[1]) <=> Registered' = 1..group'[1]
    <2>1. RegistrationInv'
      BY PromoteInv
    <2>2. /\ Registered' \in SUBSET (1..group'[1])
          /\ group'[1] \in Nat
          /\ Cardinality(Registered') = Len(list')
      BY <2>1, RollFinite, <1>2 DEF RegistrationInv, ListedAuthentic, Registered
    <2>3. Registered' = 1..group'[1] <=> Cardinality(Registered') >= group'[1]
      BY <2>2, FullRoll
    <2>4. Len(list) \in Nat
      BY RollFinite
    <2> QED
      BY <1>3, <2>2, <2>3, <2>4 DEF Enough
  <1>5. R!Join(Cert[q.by])
    BY <1>1, <1>2, <1>3, <1>4 DEF R!Join, Registered
  <1> QED
    BY <1>2, <1>5 DEF R!Next

\* The removal of a connection is a Leave.
LEMMA RemoveLeaves ==
  ASSUME RegistrationInv, NEW k \in DOMAIN list, RemoveSigner(k)
  PROVE  R!Next
  <1>1. Registered' = Registered \ {Cert[list[k].by]} /\ group' = group /\ started' = started
    BY RemoveList DEF RemoveSigner
  <1>2. Cert[list[k].by] \in Registered /\ Cert[list[k].by] \in 1..group'[1]
    BY <1>1 DEF RegistrationInv, ListedAuthentic, Registered, Members
  <1>3. PICK s : s = Cert[list[k].by]
    OBVIOUS
  <1>4. s \in Registered /\ Registered' = Registered \ {s} /\ s \in 1..group'[1]
    BY <1>1, <1>2, <1>3
  <1>5. R!Leave(s)
    BY <1>1, <1>4 DEF R!Leave, Registered
  <1> QED
    BY <1>4, <1>5 DEF R!Next

\* A refused HELLO may be the one that fixes the size of the group.
LEMMA RefuseFixes ==
  ASSUME RegistrationInv, NEW q \in staged, Refuse(q)
  PROVE  [R!Next]_(R!vars)
  <1>1. q.by \in Client /\ UNCHANGED <<list, started>>
    BY DEF RegistrationInv, TypeOK, Refuse
  <1>2. Registered' = Registered
    BY <1>1 DEF Registered, Members
  <1>3. CASE group' = group
    BY <1>1, <1>2, <1>3 DEF R!vars, Registered
  <1>4. CASE group' # group
    <2>1. ArgsInRange(q.by) /\ group' = GroupAfter(q.by)
      BY <1>4 DEF Refuse
    <2>2. group[1] = 0 /\ group'[1] \in Nat \ {0}
      BY <1>1, <1>4, <2>1, GroupFixed
    <2>3. R!FixSize
      BY <1>1, <1>2, <2>2 DEF R!FixSize, Registered
    <2> QED
      BY <2>3 DEF R!Next
  <1> QED
    BY <1>3, <1>4

\* All other steps leave the roll as it is.
LEMMA OthersStutter ==
  ASSUME UNCHANGED <<group, started>>, Members' = Members
  PROVE  UNCHANGED R!vars
  BY DEF R!vars

LEMMA CrashKeepsMembers ==
  ASSUME RegistrationInv, NEW c \in Client, Crash(c)
  PROVE  Members' = Members
  <1>1. list \in Seq([by : Client, alive : BOOLEAN])
    BY DEF RegistrationInv, TypeOK
  <1>2. /\ DOMAIN list' = DOMAIN list
        /\ \A i \in DOMAIN list : list'[i].by = list[i].by
    BY <1>1 DEF Crash
  <1> QED
    BY <1>2 DEF Members

LEMMA NextSimulates ==
  ASSUME RegistrationInv, [Next]_vars
  PROVE  [R!Next]_(R!vars)
  <1>1. CASE UNCHANGED vars
    BY <1>1, OthersStutter DEF vars, Members
  <1>2. ASSUME NEW c \in Client, Connect(c)
        PROVE  UNCHANGED R!vars
    BY <1>2, OthersStutter DEF Connect, Members
  <1>3. ASSUME NEW c \in Client, Crash(c)
        PROVE  UNCHANGED R!vars
    BY <1>3, CrashKeepsMembers, OthersStutter DEF Crash
  <1>4. ASSUME NEW q \in staged, NoHello(q) \/ Flush(q) \/ DropStaged(q)
        PROVE  UNCHANGED R!vars
    BY <1>4, OthersStutter DEF NoHello, Flush, DropStaged, Members
  <1>5. ASSUME NEW q \in staged, Refuse(q) \/ Promote(q)
        PROVE  [R!Next]_(R!vars)
    BY <1>5, RefuseFixes, PromoteJoins
  <1>6. ASSUME NEW i \in DOMAIN list, RemoveSigner(i)
        PROVE  R!Next
    BY <1>6, RemoveLeaves
  <1> QED
    BY <1>1, <1>2, <1>3, <1>4, <1>5, <1>6 DEF Next

\* Registration implements Roll: whoever connects, with whatever certificate
\* and announcement, the coordinator's list is a roll of authenticated signers
\* that each are on it once, and START goes out exactly when the roll is full.
THEOREM RegistrationImplementsRoll == Spec => ImplementsRoll
  <1>1. Init => R!Init
    BY RegistrationAssumption DEF Init, R!Init, Members
  <1>2. RegistrationInv /\ [Next]_vars => [R!Next]_(R!vars)
    BY NextSimulates
  <1> QED
    BY <1>1, <1>2, RegistrationInvariant, PTL DEF Spec, ImplementsRoll, R!Spec
=============================================================================
