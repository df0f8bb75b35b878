------------------------ MODULE ClientRegistryProofs ------------------------
(***************************************************************************)
(* Theorems about ClientRegistry, for any number of reporters, connections *)
(* and commands.                                                           *)
(***************************************************************************)
EXTENDS ClientRegistry, TLAPS, FiniteSetTheorems, WellFoundedInduction

-----------------------------------------------------------------------------
(* What removeClient() leaves in the list *)

Distinct(q) == \A i, j \in DOMAIN q : q[i] = q[j] => i = j

\* A set of natural numbers that is not empty has a least element. Facts about
\* the loops below are shown by the least index that would contradict them.
LEMMA LeastElement ==
    ASSUME NEW T, T \subseteq Nat, T # {}
    PROVE  \E x \in T : \A y \in T : x <= y
<1>1. PICK x \in T : \A y \in T : <<y, x>> \notin OpToRel(<, Nat)
      BY NatLessThanWellFounded, WFMin
<1>2. \A y \in T : ~(y < x)
      BY <1>1 DEF OpToRel
<1> QED BY <1>2

\* One round of the loop, as a function of the rounds before it.
Round(list, id, f, n) ==
    IF n = 0 THEN <<>>
    ELSE IF computer_[list[n]] = id THEN f[n - 1]
    ELSE Append(f[n - 1], list[n])

\* The loop can be run to its end: there is a function that follows its rounds.
LEMMA LoopRuns ==
    ASSUME NEW list \in Seq(Conns), NEW id
    PROVE  \A m \in 0..Len(list) : \E f : f = [n \in 0..m |-> Round(list, id, f, n)]
<1> DEFINE Runs(m) == \E f : f = [n \in 0..m |-> Round(list, id, f, n)]
           T == {m \in 0..Len(list) : ~Runs(m)}
<1>1. SUFFICES ASSUME T # {} PROVE FALSE
      BY <1>1
<1>2. PICK m \in T : \A y \in T : m <= y
  <2>1. T \subseteq Nat
        OBVIOUS
  <2> HIDE DEF T
  <2> QED BY <1>1, <2>1, LeastElement
<1>3. m \in 0..Len(list) /\ ~Runs(m)
      OBVIOUS
<1>4. CASE m = 0
  <2> DEFINE g == [n \in 0..0 |-> <<>>]
  <2>1. g = [n \in 0..0 |-> Round(list, id, g, n)]
        BY DEF Round
  <2> QED BY <1>3, <1>4, <2>1
<1>5. CASE m # 0
  <2>1. m - 1 \in 0..Len(list) /\ m - 1 \notin T
        BY <1>2, <1>3, <1>5
  <2>2. PICK f : f = [n \in 0..(m - 1) |-> Round(list, id, f, n)]
        BY <2>1
  <2> DEFINE g == [n \in 0..m |-> IF n = m THEN Round(list, id, f, m) ELSE f[n]]
  <2>3. \A n \in 0..m : Round(list, id, g, n) = Round(list, id, f, n)
        BY <1>3, <1>5 DEF Round
  <2>4. \A n \in 0..m : g[n] = Round(list, id, g, n)
    <3>1. \A n \in 0..m : n # m => n \in 0..(m - 1)
          BY <1>3
    <3>2. \A n \in 0..(m - 1) : f[n] = Round(list, id, f, n)
          BY <2>2
    <3> QED BY <2>3, <3>1, <3>2
  <2>5. g = [n \in 0..m |-> Round(list, id, g, n)]
        BY <2>4
  <2> QED BY <1>3, <2>5
<1> QED BY <1>4, <1>5

\* The list after n rounds.
After(list, id, f, n) ==
    /\ f[n] \in Seq(Conns)
    /\ \A i \in DOMAIN f[n] : \E j \in 1..n : f[n][i] = list[j] /\ computer_[list[j]] # id
    /\ Distinct(list) => Distinct(f[n])

\* removeClient() leaves clients that were in the list, none of them with the
\* identifier and none twice if there was none twice.
LEMMA RemoveClientLeaves ==
    ASSUME NEW list \in Seq(Conns), NEW id
    PROVE  /\ RemoveClient(list, id) \in Seq(Conns)
           /\ \A i \in DOMAIN RemoveClient(list, id) :
                 \E j \in DOMAIN list : /\ RemoveClient(list, id)[i] = list[j]
                                        /\ computer_[list[j]] # id
           /\ Distinct(list) => Distinct(RemoveClient(list, id))
<1> DEFINE Loop(f) == f = [n \in 0..Len(list) |-> Round(list, id, f, n)]
           kept == CHOOSE f : Loop(f)
<1>1. RemoveClient(list, id) = kept[Len(list)]
      BY DEF RemoveClient, Round
<1>2. Len(list) \in Nat /\ DOMAIN list = 1..Len(list)
      OBVIOUS
<1>3. Loop(kept)
  <2>1. \E f : Loop(f)
        BY <1>2, LoopRuns
  <2> QED BY <2>1
<1>4. \A n \in 0..Len(list) : kept[n] = Round(list, id, kept, n)
      BY <1>3
<1> HIDE DEF kept, Loop
<1> DEFINE T == {n \in 0..Len(list) : ~After(list, id, kept, n)}
<1>5. ASSUME T # {} PROVE FALSE
  <2>1. PICK n \in T : \A y \in T : n <= y
    <3>1. T \subseteq Nat
          BY <1>2
    <3> HIDE DEF T
    <3> QED BY <1>5, <3>1, LeastElement
  <2>2. n \in 0..Len(list) /\ ~After(list, id, kept, n)
        OBVIOUS
  <2>3. n # 0
    <3>1. kept[0] = <<>>
          BY <1>2, <1>4 DEF Round
    <3>2. <<>> \in Seq(Conns) /\ DOMAIN <<>> = {}
          OBVIOUS
    <3>3. After(list, id, kept, 0)
          BY <3>1, <3>2 DEF After, Distinct
    <3> QED BY <2>2, <3>3
  <2>4. n - 1 \in 0..Len(list) /\ After(list, id, kept, n - 1)
        BY <1>2, <2>1, <2>2, <2>3
  <2>5. \A j \in 1..(n - 1) : j \in 1..n /\ j # n
        BY <1>2, <2>2
  <2>6. CASE computer_[list[n]] = id
    <3>1. kept[n] = kept[n - 1]
          BY <1>4, <2>2, <2>3, <2>6 DEF Round
    <3> QED BY <2>2, <2>4, <2>5, <3>1 DEF After
  <2>7. CASE computer_[list[n]] # id
    <3> DEFINE q == kept[n - 1]
    <3>1. kept[n] = Append(q, list[n])
          BY <1>4, <2>2, <2>3, <2>7 DEF Round
    <3>2. q \in Seq(Conns) /\ list[n] \in Conns /\ n \in 1..n /\ n \in DOMAIN list
          BY <1>2, <2>2, <2>3, <2>4 DEF After
    <3>3. /\ kept[n] \in Seq(Conns)
          /\ DOMAIN kept[n] = 1..(Len(q) + 1) /\ DOMAIN q = 1..Len(q)
          /\ kept[n][Len(q) + 1] = list[n]
          /\ \A i \in 1..Len(q) : kept[n][i] = q[i]
          BY <3>1, <3>2
    <3>4. \A i \in 1..(Len(q) + 1) : i \in 1..Len(q) \/ i = Len(q) + 1
          BY <3>2
    <3>5. \A i \in 1..Len(q) : \E j \in 1..(n - 1) : q[i] = list[j] /\ computer_[list[j]] # id
          BY <2>4, <3>3 DEF After
    <3>6. \A i \in DOMAIN kept[n] : \E j \in 1..n : kept[n][i] = list[j] /\ computer_[list[j]] # id
          BY <2>5, <2>7, <3>2, <3>3, <3>4, <3>5
    <3>7. ASSUME Distinct(list) PROVE Distinct(kept[n])
      <4>1. \A j \in 1..(n - 1) : j \in DOMAIN list
            BY <1>2, <2>2
      <4>2. \A i \in 1..Len(q) : q[i] # list[n]
            BY <2>5, <3>2, <3>5, <3>7, <4>1 DEF Distinct
      <4>3. Distinct(q)
            BY <2>4, <3>7 DEF After
      <4> HIDE DEF q
      <4> QED BY <3>3, <3>4, <4>2, <4>3 DEF Distinct
    <3> QED BY <2>2, <3>3, <3>6, <3>7 DEF After
  <2> QED BY <2>6, <2>7
<1>6. After(list, id, kept, Len(list))
      BY <1>2, <1>5
<1> QED BY <1>1, <1>2, <1>6 DEF After
\* An element of p \o q is one of p, at its place, or one of q, after them.
LEMMA ConcatElements ==
    ASSUME NEW S, NEW p \in Seq(S), NEW q \in Seq(S)
    PROVE  \A i \in DOMAIN (p \o q) :
              \/ i \in DOMAIN p /\ (p \o q)[i] = p[i]
              \/ i - Len(p) \in DOMAIN q /\ (p \o q)[i] = q[i - Len(p)] /\ i \notin DOMAIN p
<1>1. /\ DOMAIN p = 1..Len(p) /\ DOMAIN q = 1..Len(q)
      /\ Len(p) \in Nat /\ Len(q) \in Nat
      OBVIOUS
<1>2. /\ DOMAIN (p \o q) = 1..(Len(p) + Len(q))
      /\ \A i \in 1..(Len(p) + Len(q)) :
            (p \o q)[i] = IF i <= Len(p) THEN p[i] ELSE q[i - Len(p)]
      OBVIOUS
<1> QED BY <1>1, <1>2

-----------------------------------------------------------------------------
(* The inductive invariant *)

\* What a client has at each stage of its thread: an owner while it exists, a
\* computer from its handshake on, an answer only while it reports, and nothing
\* queued before or after its life.
Stages ==
    \A c \in Conns :
        /\ hpc[c] \notin {"unused", "deleted"} => owner[c] \in Reporters
        /\ hpc[c] \in {"unused", "deleted"} => owner[c] = NULL /\ response_queue_[c] = <<>>
        /\ computer_[c] = NULL <=> hpc[c] \in {"unused", "accepted", "deleted"}
        /\ hpc[c] # "report" => res[c] = <<>>
        /\ up[c] => hpc[c] \notin {"unused", "removed", "deleted"}

\* The terminal has a client while it handles a command, one that did its
\* handshake, and, unless the client is gone, has the identifier typed.
TerminalFound ==
    /\ tpc \in {"found", "insert", "add"} =>
          /\ tclient \in Conns
          /\ hpc[tclient] # "deleted" => computer_[tclient] # NULL
          /\ hpc[tclient] # "deleted" /\ tid # -1 => computer_[tclient] = tid
          /\ hpc[tclient] # "unused"
    /\ tpc \in {"insert", "add"} => issued < MaxCommands

\* The connections whose handshake came to its end, each with one INSERT at most.
Settled == {c \in Conns : hpc[c] \in {"serving", "report", "removed", "deleted"}}
IdsCounted == next_id <= Cardinality(Settled) + 1

\* A reporter has one connection that is up, and its identifier is that of the
\* connection's computer.
OneUp == \A c, d \in Conns : up[c] /\ up[d] /\ owner[c] = owner[d] => c = d
SameIdentifier ==
    \A c \in Conns : up[c] /\ hpc[c] # "accepted" => rid[owner[c]] = computer_[c]

\* What is queued or being returned is for the computer of its connection.
Addressed(q, id) == \A i \in DOMAIN q : q[i].to # -1 => q[i].to = id
QueuesAddressed ==
    \A c \in Conns : /\ Addressed(response_queue_[c], computer_[c])
                      /\ Addressed(res[c], computer_[c])

\* Responses are numbered as they are queued. Below(p, q): all of p come first.
Increasing(q) == \A i, j \in DOMAIN q : i < j => q[i].n < q[j].n
Below(p, q) == \A i \in DOMAIN p, j \in DOMAIN q : p[i].n < q[j].n
UpTo(q, k) == \A i \in DOMAIN q : q[i].n <= k
QueuesOrdered ==
    /\ \A c \in Conns :
          /\ Increasing(response_queue_[c]) /\ Increasing(res[c])
          /\ Below(res[c], response_queue_[c])
          /\ UpTo(response_queue_[c], issued) /\ UpTo(res[c], issued)
          /\ up[c] => /\ Below(delivered[owner[c]], res[c])
                      /\ Below(delivered[owner[c]], response_queue_[c])
    /\ \A r \in Reporters : UpTo(delivered[r], issued)
-----------------------------------------------------------------------------
(* Type correctness *)

TypeInv == TypeOK /\ Stages /\ TerminalFound /\ IdsCounted

\* No more identifiers are given than there are connections.
LEMMA SettledCounts ==
    /\ Cardinality(Conns) \in Nat /\ Cardinality(Settled) \in Nat
    /\ Cardinality(Settled) <= Cardinality(Conns)
    /\ \A c \in Conns \ Settled :
          /\ Cardinality(Settled) < Cardinality(Conns)
          /\ Cardinality(Settled \cup {c}) = Cardinality(Settled) + 1
<1>1. IsFiniteSet(Conns) /\ Settled \subseteq Conns
      BY RegistryAssumption DEF Settled
<1>2. IsFiniteSet(Settled) /\ Cardinality(Settled) <= Cardinality(Conns)
      BY <1>1, FS_Subset
<1>3. Cardinality(Conns) \in Nat /\ Cardinality(Settled) \in Nat
      BY <1>1, <1>2, FS_CardinalityType
<1>4. ASSUME NEW c \in Conns \ Settled
      PROVE  /\ Cardinality(Settled) < Cardinality(Conns)
             /\ Cardinality(Settled \cup {c}) = Cardinality(Settled) + 1
  <2>1. Cardinality(Settled \cup {c}) = Cardinality(Settled) + 1
        BY <1>2, FS_AddElement
  <2>2. Cardinality(Settled \cup {c}) <= Cardinality(Conns)
        BY <1>1, FS_Subset
  <2> QED BY <1>3, <2>1, <2>2
<1> QED BY <1>2, <1>3, <1>4

LEMMA TypeInvInit == Init => TypeInv
<1> SUFFICES ASSUME Init PROVE TypeInv
    OBVIOUS
<1>1. TypeOK
  <2>1. next_id \in 1..(Cardinality(Conns) + 1) /\ issued \in 0..MaxCommands
        BY SettledCounts, RegistryAssumption DEF Init
  <2>2. <<>> \in Seq(Conns) /\ <<>> \in Seq(Response)
        OBVIOUS
  <2> QED BY <2>1, <2>2 DEF Init, TypeOK, ThreadStates
<1>2. Stages /\ TerminalFound
      BY RegistryAssumption DEF Init, Stages, TerminalFound
<1>3. IdsCounted
      BY SettledCounts DEF Init, IdsCounted
<1> QED BY <1>1, <1>2, <1>3 DEF TypeInv

\* What the terminal finds: a client of the list with the identifier typed.
LEMMA ClientFound ==
    ASSUME TypeOK, Stages, NEW id \in Ids \cup {-1}, GetClient(id)
    PROVE  /\ tclient' \in Conns /\ computer_[tclient'] = id
           /\ hpc[tclient'] \notin {"unused", "deleted"}
<1>1. Hits(id) # {} /\ Hits(id) \subseteq DOMAIN clients_ /\ DOMAIN clients_ \subseteq Nat
  <2>1. clients_ \in Seq(Conns)
        BY DEF TypeOK
  <2>2. DOMAIN clients_ = 1..Len(clients_) /\ Len(clients_) \in Nat
        BY <2>1
  <2> QED BY <2>2 DEF GetClient, Hits
<1>2. \E i \in Hits(id) : \A j \in Hits(id) : i <= j
      BY <1>1, LeastElement
<1>3. PICK i \in Hits(id) : tclient' = clients_[i]
      BY <1>2 DEF GetClient
<1>4. tclient' \in Conns /\ computer_[tclient'] = id
      BY <1>1, <1>3 DEF Hits, TypeOK
<1>5. id # NULL
      BY RegistryAssumption DEF Ids
<1> QED BY <1>4, <1>5 DEF Stages

\* The end of a handshake: the connection counts as settled, and the identifier
\* it may take is one of those there are.
LEMMA SettleCounts ==
    ASSUME TypeInv, NEW c \in Conns, NEW id \in Ids \cup {-1, next_id}, Settle(c, id)
    PROVE  /\ id \in Ids \cup {-1}
           /\ next_id' \in 1..(Cardinality(Conns) + 1)
           /\ IdsCounted'
<1>1. c \notin Settled /\ Settled' = Settled \cup {c}
      BY DEF TypeInv, TypeOK, Settle, Settled
<1>2. /\ next_id \in Nat \ {0} /\ next_id <= Cardinality(Settled) + 1
      BY SettledCounts DEF TypeInv, TypeOK, IdsCounted
<1>3. next_id \in Ids
      BY <1>1, <1>2, SettledCounts DEF Ids
<1>4. next_id' \in {next_id, next_id + 1}
      BY DEF Settle
<1>5. Cardinality(Settled') = Cardinality(Settled) + 1
      BY <1>1, SettledCounts
<1> QED BY <1>2, <1>3, <1>4, <1>5, SettledCounts DEF Ids, IdsCounted
\* Every step of a connection's thread, of the network and of the terminal.
LEMMA TypeInvStep == TypeInv /\ [Next]_vars => TypeInv'
<1> SUFFICES ASSUME TypeInv, [Next]_vars PROVE TypeInv'
    OBVIOUS
<1> USE DEF queueVars, linkVars, reporterVars, connVars, termVars, serverVars, restVars
<1>a. TypeOK /\ Stages /\ TerminalFound /\ IdsCounted /\ NULL \notin Reporters
      BY RegistryAssumption DEF TypeInv
<1>b. ASSUME hpc' = hpc, next_id' = next_id PROVE IdsCounted'
      BY <1>a, <1>b DEF IdsCounted, Settled
<1>c. ASSUME NEW c \in Conns, NEW l, hpc' = [hpc EXCEPT ![c] = l], next_id' = next_id,
             l \in {"serving", "report", "removed", "deleted"} <=> c \in Settled
      PROVE  IdsCounted'
  <2>1. Settled' = Settled
        BY <1>a, <1>c DEF Settled, TypeOK
  <2> QED BY <1>a, <1>c, <2>1 DEF IdsCounted
<1>d. ASSUME UNCHANGED <<connVars, termVars>>,
             running' \in {"yes", "stopping", "over"},
             ub' \in {"none", "nullComputer", "deletedClient", "listChanged"}
      PROVE  TypeInv'
  <2>1. TypeOK'
        BY <1>a, <1>d DEF TypeOK
  <2> QED BY <1>a, <1>b, <1>d, <2>1 DEF TypeInv, Stages, TerminalFound
<1>e. ListRace \in {"none", "nullComputer", "deletedClient", "listChanged"}
      BY <1>a DEF TypeOK, ListRace
<1>1. ASSUME NEW r \in Reporters, NEW c \in Conns, GetHandler(r, c) PROVE TypeInv'
  <2>1. TypeOK'
        BY <1>1, <1>a, <1>e DEF GetHandler, TypeOK, ThreadStates
  <2>2. Stages' /\ TerminalFound'
        BY <1>1, <1>a DEF GetHandler, TypeOK, Stages, TerminalFound
  <2>3. IdsCounted'
        BY <1>1, <1>a, <1>c DEF GetHandler, Settled
  <2> QED BY <2>1, <2>2, <2>3 DEF TypeInv
<1>2. ASSUME NEW c \in Conns, HandshakeBegin(c) PROVE TypeInv'
  <2>1. rid[owner[c]] \in Ids \cup {-1} /\ rid[owner[c]] # NULL
        BY <1>2, <1>a, RegistryAssumption DEF HandshakeBegin, TypeOK, Stages, Ids
  <2>2. TypeOK'
        BY <1>2, <1>a, <2>1 DEF HandshakeBegin, TypeOK, ThreadStates
  <2>3. Stages' /\ TerminalFound'
        BY <1>2, <1>a, <2>1 DEF HandshakeBegin, TypeOK, Stages, TerminalFound
  <2>4. IdsCounted'
        BY <1>2, <1>a, <1>c DEF HandshakeBegin, Settled
  <2> QED BY <2>2, <2>3, <2>4 DEF TypeInv
<1>3. ASSUME NEW c \in Conns, NEW id \in Ids \cup {-1, next_id}, Settle(c, id),
             computer_[c] # -1 => id = computer_[c]
      PROVE  TypeInv'
  <2>1. id \in Ids \cup {-1} /\ next_id' \in 1..(Cardinality(Conns) + 1) /\ IdsCounted'
        BY <1>3, SettleCounts
  <2>2. id # NULL /\ owner[c] \in Reporters
        BY <1>3, <1>a, <2>1, RegistryAssumption DEF Ids, Stages, Settle
  <2>3. TypeOK'
        BY <1>3, <1>a, <2>1, <2>2 DEF Settle, TypeOK, ThreadStates
  <2>4. Stages' /\ TerminalFound'
        BY <1>3, <1>a, <2>2 DEF Settle, TypeOK, Stages, TerminalFound
  <2> QED BY <2>1, <2>3, <2>4 DEF TypeInv
<1>4. ASSUME NEW c \in Conns, HandshakeEnd(c) \/ HandshakeFails(c) PROVE TypeInv'
  <2>1. computer_[c] \in Ids \cup {-1}
        BY <1>4, <1>a DEF HandshakeEnd, HandshakeFails, Settle, TypeOK, Stages
  <2> QED BY <1>4, <1>3, <2>1 DEF HandshakeEnd, HandshakeFails
<1>5. ASSUME NEW c \in Conns, Report(c) PROVE TypeInv'
  <2>1. TypeOK'
        BY <1>5, <1>a DEF Report, TypeOK, ThreadStates
  <2>2. Stages' /\ TerminalFound'
        BY <1>5, <1>a DEF Report, TypeOK, Stages, TerminalFound
  <2>3. IdsCounted'
        BY <1>5, <1>a, <1>c DEF Report, Settled
  <2> QED BY <2>1, <2>2, <2>3 DEF TypeInv
<1>6. ASSUME NEW c \in Conns, ReportReturns(c) PROVE TypeInv'
  <2>1. owner[c] \in Reporters
        BY <1>6, <1>a DEF ReportReturns, Stages
  <2>2. delivered' \in [Reporters -> Seq(Response)]
        BY <1>6, <1>a, <2>1 DEF ReportReturns, TypeOK
  <2>3. TypeOK'
        BY <1>6, <1>a, <2>2 DEF ReportReturns, TypeOK, ThreadStates
  <2>4. Stages' /\ TerminalFound'
        BY <1>6, <1>a DEF ReportReturns, TypeOK, Stages, TerminalFound
  <2>5. IdsCounted'
        BY <1>6, <1>a, <1>c DEF ReportReturns, Settled
  <2> QED BY <2>3, <2>4, <2>5 DEF TypeInv
<1>7. ASSUME NEW c \in Conns, Disconnect(c) PROVE TypeInv'
  <2>1. TypeOK'
        BY <1>7, <1>a DEF Disconnect, TypeOK
  <2>2. Stages' /\ TerminalFound'
        BY <1>7, <1>a DEF Disconnect, TypeOK, Stages, TerminalFound
  <2>3. IdsCounted'
        BY <1>7, <1>b DEF Disconnect
  <2> QED BY <2>1, <2>2, <2>3 DEF TypeInv
<1>8. ASSUME NEW c \in Conns, ReleaseHandler(c) PROVE TypeInv'
  <2>1. clients_' \in Seq(Conns)
        BY <1>8, <1>a, RemoveClientLeaves DEF ReleaseHandler, TypeOK
  <2>2. hpc[c] = "serving" /\ ~up[c]
        BY <1>8, <1>a DEF ReleaseHandler, Ended, Unknown, Stages
  <2>3. TypeOK'
        BY <1>8, <1>a, <1>e, <2>1 DEF ReleaseHandler, TypeOK, ThreadStates
  <2>4. Stages' /\ TerminalFound'
        BY <1>8, <1>a, <2>2 DEF ReleaseHandler, TypeOK, Stages, TerminalFound
  <2>5. IdsCounted'
        BY <1>8, <1>a, <1>c, <2>2 DEF ReleaseHandler, Settled
  <2> QED BY <2>3, <2>4, <2>5 DEF TypeInv
<1>9. ASSUME NEW c \in Conns, DeleteClient(c) PROVE TypeInv'
  <2>1. TypeOK'
        BY <1>9, <1>a DEF DeleteClient, TypeOK, ThreadStates
  <2>2. Stages' /\ TerminalFound'
        BY <1>9, <1>a DEF DeleteClient, TypeOK, Stages, TerminalFound
  <2>3. IdsCounted'
        BY <1>9, <1>a, <1>c DEF DeleteClient, Settled
  <2> QED BY <2>1, <2>2, <2>3 DEF TypeInv
<1>10. ASSUME NEW c \in Conns, ReleaseHandlerCrashes(c) PROVE TypeInv'
      BY <1>10, <1>a, <1>d DEF ReleaseHandlerCrashes, UndefinedBehaviour, TypeOK
<1>11. ASSUME NEW id \in Ids \cup {-1}, GetClient(id) PROVE TypeInv'
  <2>1. /\ tclient' \in Conns /\ computer_[tclient'] = id
        /\ hpc[tclient'] \notin {"unused", "deleted"}
        BY <1>11, <1>a, ClientFound
  <2>2. TypeOK'
        BY <1>11, <1>a, <2>1 DEF GetClient, TypeOK
  <2>3. Stages' /\ TerminalFound'
    <3>1. id # NULL
          BY RegistryAssumption DEF Ids
    <3>2. UNCHANGED connVars /\ tpc' = "found" /\ tid' = id
          BY <1>11 DEF GetClient
    <3>3. Stages'
          BY <1>a, <3>2 DEF Stages
    <3>4. TerminalFound'
          BY <2>1, <3>1, <3>2 DEF TerminalFound
    <3> QED BY <3>3, <3>4
  <2>4. IdsCounted'
        BY <1>11, <1>b DEF GetClient
  <2> QED BY <2>2, <2>3, <2>4 DEF TypeInv
<1>12. ASSUME NEW id \in Ids \cup {-1}, GetClientCrashes(id) PROVE TypeInv'
      BY <1>12, <1>a, <1>d DEF GetClientCrashes, UndefinedBehaviour, TypeOK
<1>13. CASE UseDeleted \/ PrintCrashes
      BY <1>13, <1>a, <1>d DEF UseDeleted, PrintCrashes, UndefinedBehaviour, TypeOK
<1>14. ASSUME UNCHANGED <<connVars, issued, serverVars>>,
              Prompt \/ /\ tpc' \in {"prompt", "found", "insert", "add", "print"}
                        /\ UNCHANGED <<tid, tclient>>,
              tpc' \in {"insert", "add"} => tpc \in {"found", "insert", "add"} /\ issued < MaxCommands,
              tpc' # "found"
       PROVE  TypeInv'
  <2>1. TypeOK'
        BY <1>14, <1>a DEF TypeOK, Prompt
  <2>2. Stages' /\ TerminalFound'
        BY <1>14, <1>a DEF Stages, TerminalFound, Prompt
  <2> QED BY <1>14, <1>b, <2>1, <2>2 DEF TypeInv
<1>15. CASE ChooseCommand \/ InsertExecutor \/ PrintBegin \/ PrintEnd
      BY <1>15, <1>14, <1>a
      DEF ChooseCommand, InsertExecutor, PrintBegin, PrintEnd, Prompt, TerminalFound
<1>16. CASE AddResponse
  <2>1. [n |-> issued + 1, to |-> tid] \in Response /\ issued + 1 \in 0..MaxCommands
        BY <1>16, <1>a, RegistryAssumption DEF AddResponse, TypeOK, TerminalFound, Response
  <2>2. tclient \in Conns /\ hpc[tclient] \notin {"unused", "deleted"}
        BY <1>16, <1>a DEF AddResponse, TerminalFound, Deleted
  <2>a. response_queue_' \in [Conns -> Seq(Response)]
        BY <1>16, <1>a, <2>1, <2>2 DEF AddResponse, TypeOK
  <2>b. /\ issued' = issued + 1 /\ Prompt
        /\ UNCHANGED <<clients_, computer_, res, hpc, linkVars, reporterVars, serverVars>>
        BY <1>16 DEF AddResponse
  <2>3. TypeOK'
        BY <1>a, <2>1, <2>a, <2>b DEF TypeOK, Prompt
  <2>4. Stages' /\ TerminalFound'
        BY <1>16, <1>a, <2>2 DEF AddResponse, TypeOK, Stages, TerminalFound, Prompt
  <2>5. IdsCounted'
        BY <1>16, <1>b DEF AddResponse
  <2> QED BY <2>3, <2>4, <2>5 DEF TypeInv
<1>17. CASE Exit
  <2>1. TypeOK'
        BY <1>17, <1>a DEF Exit, TypeOK
  <2>2. Stages' /\ TerminalFound'
        BY <1>17, <1>a DEF Exit, Stages, TerminalFound
  <2>3. IdsCounted'
        BY <1>17, <1>b DEF Exit
  <2> QED BY <2>1, <2>2, <2>3 DEF TypeInv
<1>18. CASE ExitReturns
      BY <1>18, <1>a, <1>d DEF ExitReturns, TypeOK
<1>19. CASE UNCHANGED vars
      BY <1>19, <1>a, <1>d DEF vars, TypeOK
<1> QED BY <1>1, <1>2, <1>4, <1>5, <1>6, <1>7, <1>8, <1>9, <1>10, <1>11, <1>12,
           <1>13, <1>15, <1>16, <1>17, <1>18, <1>19
        DEF Next, Running, Over, Handler, Command

\* The server's connections, queues and terminal keep their types: in particular
\* there are never more identifiers than connections were made.
THEOREM RegistryTypes == Spec => []TypeOK
<1>1. TypeInv => TypeOK
      BY DEF TypeInv
<1> QED BY <1>1, TypeInvInit, TypeInvStep, PTL DEF Spec
-----------------------------------------------------------------------------
(* The list *)

\* A client leaves the list before it is deleted and joins it once.
LEMMA ListStep == TypeInv /\ ListedAlive /\ [Next]_vars => ListedAlive'
<1> SUFFICES ASSUME TypeInv, ListedAlive, [Next]_vars PROVE ListedAlive'
    OBVIOUS
<1> USE DEF queueVars, linkVars, reporterVars, connVars, termVars, serverVars, restVars
<1>a. clients_ \in Seq(Conns) /\ hpc \in [Conns -> ThreadStates]
      /\ DOMAIN clients_ = 1..Len(clients_)
      BY DEF TypeInv, TypeOK
<1>b. /\ \A i \in DOMAIN clients_ : hpc[clients_[i]] \notin {"unused", "removed", "deleted"}
      /\ Distinct(clients_)
      BY DEF ListedAlive, Listed, Distinct
<1>c. ASSUME \A i \in DOMAIN clients_' : hpc'[clients_'[i]] \notin {"unused", "removed", "deleted"},
             Distinct(clients_')
      PROVE  ListedAlive'
      BY <1>c DEF ListedAlive, Listed, Distinct
<1>d. ASSUME UNCHANGED <<clients_, hpc>> PROVE ListedAlive'
      BY <1>b, <1>c, <1>d
<1>e. ASSUME NEW c \in Conns, NEW l \in {"handshake", "serving", "report"}, UNCHANGED clients_,
             hpc' = [hpc EXCEPT ![c] = l]
      PROVE  ListedAlive'
      BY <1>a, <1>b, <1>c, <1>e
<1>1. ASSUME NEW r \in Reporters, NEW c \in Conns, GetHandler(r, c) PROVE ListedAlive'
  <2>1. /\ clients_' = Append(clients_, c) /\ hpc' = [hpc EXCEPT ![c] = "accepted"]
        /\ hpc[c] = "unused"
        BY <1>1 DEF GetHandler
  <2>2. \A i \in DOMAIN clients_ : clients_[i] # c
        BY <1>b, <2>1
  <2>3. \A i \in DOMAIN clients_' : \/ i \in DOMAIN clients_ /\ clients_'[i] = clients_[i]
                                    \/ i = Len(clients_) + 1 /\ clients_'[i] = c
        BY <1>a, <2>1
  <2>4. Distinct(clients_')
        BY <1>b, <2>2, <2>3 DEF Distinct
  <2>5. \A i \in DOMAIN clients_' : hpc'[clients_'[i]] \notin {"unused", "removed", "deleted"}
        BY <1>a, <1>b, <2>1, <2>2, <2>3
  <2> QED BY <1>c, <2>4, <2>5
<1>2. ASSUME NEW c \in Conns, HandshakeBegin(c) PROVE ListedAlive'
      BY <1>2, <1>e DEF HandshakeBegin
<1>3. ASSUME NEW c \in Conns, HandshakeEnd(c) \/ HandshakeFails(c) PROVE ListedAlive'
      BY <1>3, <1>e DEF HandshakeEnd, HandshakeFails, Settle
<1>4. ASSUME NEW c \in Conns, Report(c) \/ ReportReturns(c) PROVE ListedAlive'
      BY <1>4, <1>e DEF Report, ReportReturns
<1>5. ASSUME NEW c \in Conns, ReleaseHandler(c) PROVE ListedAlive'
  <2>1. /\ clients_' = RemoveClient(clients_, computer_[c])
        /\ hpc' = [hpc EXCEPT ![c] = "removed"]
        BY <1>5 DEF ReleaseHandler
  <2>2. Distinct(clients_')
        BY <1>a, <1>b, <2>1, RemoveClientLeaves
  <2>3. \A i \in DOMAIN clients_' : \E j \in DOMAIN clients_ :
           clients_'[i] = clients_[j] /\ clients_[j] # c
    <3>1. \A i \in DOMAIN clients_' : \E j \in DOMAIN clients_ :
             clients_'[i] = clients_[j] /\ computer_[clients_[j]] # computer_[c]
          BY <1>a, <2>1, RemoveClientLeaves
    <3> QED BY <3>1
  <2>4. \A i \in DOMAIN clients_' : hpc'[clients_'[i]] \notin {"unused", "removed", "deleted"}
        BY <1>a, <1>b, <2>1, <2>3
  <2> QED BY <1>c, <2>2, <2>4
<1>6. ASSUME NEW c \in Conns, DeleteClient(c) PROVE ListedAlive'
  <2>1. /\ hpc[c] = "removed" /\ hpc' = [hpc EXCEPT ![c] = "deleted"] /\ clients_' = clients_
        BY <1>6 DEF DeleteClient
  <2>2. \A i \in DOMAIN clients_ : clients_[i] # c
        BY <1>b, <2>1
  <2> QED BY <1>a, <1>b, <1>c, <2>1, <2>2
<1>7. ASSUME NEW c \in Conns, Disconnect(c) \/ ReleaseHandlerCrashes(c) PROVE ListedAlive'
      BY <1>7, <1>d DEF Disconnect, ReleaseHandlerCrashes, UndefinedBehaviour
<1>8. ASSUME NEW id \in Ids \cup {-1}, GetClient(id) \/ GetClientCrashes(id) PROVE ListedAlive'
      BY <1>8, <1>d DEF GetClient, GetClientCrashes, UndefinedBehaviour
<1>9. CASE Command \/ PrintBegin \/ Exit \/ ExitReturns \/ UNCHANGED vars
      BY <1>9, <1>d
      DEF Command, ChooseCommand, InsertExecutor, AddResponse, UseDeleted, PrintEnd,
          PrintCrashes, PrintBegin, Exit, ExitReturns, UndefinedBehaviour, vars
<1> QED BY <1>1, <1>2, <1>3, <1>4, <1>5, <1>6, <1>7, <1>8, <1>9
        DEF Next, Running, Over, Handler

\* clients_ holds no client twice and none that was or is being deleted, over any
\* order of connections and releases: what getClient() returns was alive.
THEOREM ListHoldsLive == Spec => []ListedAlive
<1>1. Init => ListedAlive
      BY DEF Init, ListedAlive, Listed
<1> QED BY <1>1, TypeInvInit, TypeInvStep, ListStep, PTL DEF Spec

-----------------------------------------------------------------------------
(* Responses reach the reporter asked for *)

AddressInv == OneUp /\ SameIdentifier /\ QueuesAddressed /\ RightReporter

\* A reporter's identifier is settled once, by its only live connection, and a
\* response is queued on a client that has the identifier typed.
LEMMA AddressStep == TypeInv /\ TypeInv' /\ AddressInv /\ [Next]_vars => AddressInv'
<1> SUFFICES ASSUME TypeInv, TypeInv', AddressInv, [Next]_vars PROVE AddressInv'
    OBVIOUS
<1> USE DEF queueVars, linkVars, reporterVars, connVars, termVars, serverVars, restVars
<1>a. /\ TypeOK /\ Stages /\ TerminalFound /\ NULL \notin Reporters
      /\ OneUp /\ SameIdentifier /\ QueuesAddressed /\ RightReporter
      BY RegistryAssumption DEF TypeInv, AddressInv
<1>b. \A c \in Conns : up[c] => owner[c] \in Reporters
      BY <1>a DEF Stages
<1>c. ASSUME UNCHANGED <<computer_, response_queue_, res, owner, rid, delivered>>,
             \A c \in Conns : up'[c] => up[c] /\ (hpc'[c] # "accepted" => hpc[c] # "accepted")
      PROVE  AddressInv'
  <2>1. OneUp' /\ SameIdentifier'
        BY <1>a, <1>c DEF OneUp, SameIdentifier
  <2>2. QueuesAddressed' /\ RightReporter'
        BY <1>a, <1>c DEF QueuesAddressed, RightReporter
  <2> QED BY <2>1, <2>2 DEF AddressInv
<1>d. \A id : Addressed(<<>>, id)
      BY DEF Addressed
<1>1. ASSUME NEW r \in Reporters, NEW c \in Conns, GetHandler(r, c) PROVE AddressInv'
  <2>1. /\ \A d \in Conns : owner[d] = r => ~up[d]
        /\ up' = [up EXCEPT ![c] = TRUE] /\ owner' = [owner EXCEPT ![c] = r]
        /\ hpc' = [hpc EXCEPT ![c] = "accepted"]
        /\ UNCHANGED <<computer_, response_queue_, res, rid, delivered>>
        BY <1>1 DEF GetHandler
  <2>2. OneUp'
        BY <1>a, <2>1 DEF OneUp, TypeOK
  <2>3. SameIdentifier'
        BY <1>a, <2>1 DEF SameIdentifier, TypeOK
  <2>4. QueuesAddressed' /\ RightReporter'
        BY <1>a, <2>1 DEF QueuesAddressed, RightReporter
  <2> QED BY <2>2, <2>3, <2>4 DEF AddressInv
<1>2. ASSUME NEW c \in Conns, HandshakeBegin(c) PROVE AddressInv'
  <2>1. /\ hpc[c] = "accepted" /\ hpc' = [hpc EXCEPT ![c] = "handshake"]
        /\ computer_' = [computer_ EXCEPT ![c] = rid[owner[c]]]
        /\ UNCHANGED <<response_queue_, res, up, owner, rid, delivered>>
        BY <1>2 DEF HandshakeBegin
  <2>2. computer_[c] = NULL
        BY <1>a, <2>1 DEF Stages
  <2>3. OneUp' /\ SameIdentifier' /\ RightReporter'
        BY <1>a, <2>1 DEF OneUp, SameIdentifier, RightReporter, TypeOK
  <2>a. response_queue_[c] \in Seq(Response) /\ res[c] \in Seq(Response)
        BY <1>a DEF TypeOK
  <2>b. \A x \in Response : x.to \in Ids \cup {-1}
        BY DEF Response
  <2>4. \A i \in DOMAIN response_queue_[c] : response_queue_[c][i].to \in Ids \cup {-1}
        BY <2>a, <2>b
  <2>5. \A i \in DOMAIN res[c] : res[c][i].to \in Ids \cup {-1}
        BY <2>a, <2>b
  <2>6. NULL \notin Ids
        BY RegistryAssumption DEF Ids
  <2>7. \A d : Addressed(response_queue_[c], d) /\ Addressed(res[c], d)
        BY <1>a, <2>2, <2>4, <2>5, <2>6 DEF QueuesAddressed, Addressed
  <2>8. QueuesAddressed'
        BY <1>a, <2>1, <2>7 DEF QueuesAddressed, TypeOK
  <2> QED BY <2>3, <2>8 DEF AddressInv
<1>3. ASSUME NEW c \in Conns, NEW id, Settle(c, id), computer_[c] # -1 => id = computer_[c]
      PROVE  AddressInv'
  <2>1. /\ hpc[c] = "handshake" /\ hpc' = [hpc EXCEPT ![c] = "serving"]
        /\ computer_' = [computer_ EXCEPT ![c] = id]
        /\ rid' = IF up[c] THEN [rid EXCEPT ![owner[c]] = id] ELSE rid
        /\ UNCHANGED <<response_queue_, res, up, owner, delivered>>
        BY <1>3 DEF Settle
  <2>2. OneUp'
        BY <1>a, <2>1 DEF OneUp
  <2>3. SameIdentifier'
        BY <1>a, <1>b, <2>1 DEF OneUp, SameIdentifier, TypeOK
  <2>4. \A q : Addressed(q, computer_[c]) => Addressed(q, id)
        BY <1>3 DEF Addressed
  <2>5. QueuesAddressed'
        BY <1>a, <2>1, <2>4 DEF QueuesAddressed, TypeOK
  <2>6. \A r \in Reporters : rid[r] # -1 => rid'[r] = rid[r]
        BY <1>3, <1>a, <1>b, <2>1 DEF SameIdentifier, TypeOK
  <2>7. RightReporter'
        BY <1>a, <2>1, <2>6 DEF RightReporter
  <2> QED BY <2>2, <2>3, <2>5, <2>7 DEF AddressInv
<1>4. ASSUME NEW c \in Conns, HandshakeEnd(c) \/ HandshakeFails(c) PROVE AddressInv'
      BY <1>4, <1>3 DEF HandshakeEnd, HandshakeFails
<1>5. ASSUME NEW c \in Conns, Report(c) PROVE AddressInv'
  <2>1. /\ hpc[c] = "serving" /\ hpc' = [hpc EXCEPT ![c] = "report"]
        /\ res' = [res EXCEPT ![c] = response_queue_[c]]
        /\ response_queue_' = [response_queue_ EXCEPT ![c] = <<>>]
        /\ UNCHANGED <<computer_, up, owner, rid, delivered>>
        BY <1>5 DEF Report
  <2>2. OneUp' /\ SameIdentifier' /\ RightReporter'
        BY <1>a, <2>1 DEF OneUp, SameIdentifier, RightReporter, TypeOK
  <2>3. QueuesAddressed'
        BY <1>a, <1>d, <2>1 DEF QueuesAddressed, TypeOK
  <2> QED BY <2>2, <2>3 DEF AddressInv
<1>6. ASSUME NEW c \in Conns, ReportReturns(c) PROVE AddressInv'
  <2>1. /\ hpc[c] = "report" /\ hpc' = [hpc EXCEPT ![c] = "serving"]
        /\ res' = [res EXCEPT ![c] = <<>>]
        /\ delivered' = IF up[c] THEN [delivered EXCEPT ![owner[c]] = @ \o res[c]] ELSE delivered
        /\ UNCHANGED <<computer_, response_queue_, up, owner, rid>>
        BY <1>6 DEF ReportReturns
  <2>2. OneUp' /\ SameIdentifier'
        BY <1>a, <2>1 DEF OneUp, SameIdentifier, TypeOK
  <2>3. QueuesAddressed'
        BY <1>a, <1>d, <2>1 DEF QueuesAddressed, TypeOK
  <2>4. CASE up[c]
    <3> DEFINE r == owner[c]
               p == delivered[r]
               q == res[c]
    <3>1. r \in Reporters /\ rid[r] = computer_[c]
          BY <1>a, <1>b, <2>1, <2>4 DEF SameIdentifier
    <3>2. delivered' = [delivered EXCEPT ![r] = p \o q]
          BY <2>1, <2>4
    <3>3. /\ p \in Seq(Response) /\ q \in Seq(Response)
          /\ delivered \in [Reporters -> Seq(Response)]
          BY <1>a, <3>1 DEF TypeOK
    <3>4. Addressed(p, rid[r]) /\ Addressed(q, rid[r])
          BY <1>a, <3>1 DEF QueuesAddressed, RightReporter, Addressed
    <3> HIDE DEF p, q, r
    <3>5. \A i \in DOMAIN (p \o q) :
             \/ i \in DOMAIN p /\ (p \o q)[i] = p[i]
             \/ i - Len(p) \in DOMAIN q /\ (p \o q)[i] = q[i - Len(p)] /\ i \notin DOMAIN p
          BY <3>3, ConcatElements
    <3>6. Addressed(p \o q, rid[r])
          BY <3>4, <3>5 DEF Addressed
    <3>7. \A s \in Reporters : delivered'[s] = IF s = r THEN p \o q ELSE delivered[s]
          BY <3>2, <3>3
    <3>8. \A s \in Reporters : Addressed(delivered'[s], rid[s])
      <4>1. \A s \in Reporters : Addressed(delivered[s], rid[s])
            BY <1>a DEF RightReporter, Addressed
      <4> QED BY <3>6, <3>7, <4>1
    <3>9. RightReporter'
          BY <2>1, <3>8 DEF RightReporter, Addressed
    <3> QED BY <2>2, <2>3, <3>9 DEF AddressInv
  <2>5. CASE ~up[c]
    <3>1. RightReporter'
          BY <1>a, <2>1, <2>5 DEF RightReporter
    <3> QED BY <2>2, <2>3, <3>1 DEF AddressInv
  <2> QED BY <2>4, <2>5
<1>7. ASSUME NEW c \in Conns, Disconnect(c) PROVE AddressInv'
      BY <1>7, <1>a, <1>c DEF Disconnect, TypeOK
<1>8. ASSUME NEW c \in Conns, ReleaseHandler(c) \/ ReleaseHandlerCrashes(c) PROVE AddressInv'
      BY <1>8, <1>a, <1>c
      DEF ReleaseHandler, Ended, ReleaseHandlerCrashes, UndefinedBehaviour, TypeOK
<1>9. ASSUME NEW c \in Conns, DeleteClient(c) PROVE AddressInv'
  <2>1. /\ hpc[c] = "removed" /\ hpc' = [hpc EXCEPT ![c] = "deleted"]
        /\ computer_' = [computer_ EXCEPT ![c] = NULL]
        /\ response_queue_' = [response_queue_ EXCEPT ![c] = <<>>]
        /\ owner' = [owner EXCEPT ![c] = NULL]
        /\ UNCHANGED <<res, up, rid, delivered>>
        BY <1>9 DEF DeleteClient
  <2>2. res[c] = <<>> /\ ~up[c]
        BY <1>a, <2>1 DEF Stages
  <2>3. OneUp' /\ SameIdentifier' /\ RightReporter'
        BY <1>a, <2>1, <2>2 DEF OneUp, SameIdentifier, RightReporter, TypeOK
  <2>4. QueuesAddressed'
        BY <1>a, <1>d, <2>1, <2>2 DEF QueuesAddressed, TypeOK
  <2> QED BY <2>3, <2>4 DEF AddressInv
<1>10. ASSUME NEW id \in Ids \cup {-1}, GetClient(id) \/ GetClientCrashes(id) PROVE AddressInv'
      BY <1>10, <1>c DEF GetClient, GetClientCrashes, UndefinedBehaviour
<1>11. CASE AddResponse
  <2> DEFINE x == [n |-> issued + 1, to |-> tid]
             q == response_queue_[tclient]
  <2>1. /\ response_queue_' = [response_queue_ EXCEPT ![tclient] = Append(q, x)]
        /\ tpc = "add" /\ ~Deleted
        /\ UNCHANGED <<computer_, res, hpc, up, owner, rid, delivered>>
        BY <1>11 DEF AddResponse
  <2>2. tclient \in Conns /\ (tid # -1 => computer_[tclient] = tid)
        BY <1>a, <2>1 DEF TerminalFound, Deleted
  <2>3. q \in Seq(Response) /\ Addressed(q, computer_[tclient])
        BY <1>a, <2>2 DEF TypeOK, QueuesAddressed
  <2>4. Addressed(Append(q, x), computer_[tclient])
    <3>1. \A i \in DOMAIN Append(q, x) : \/ i \in DOMAIN q /\ Append(q, x)[i] = q[i]
                                         \/ Append(q, x)[i] = x
          BY <2>3
    <3>2. x.to = tid
          OBVIOUS
    <3> QED BY <2>2, <2>3, <3>1, <3>2 DEF Addressed
  <2>5. OneUp' /\ SameIdentifier' /\ RightReporter'
        BY <1>a, <2>1 DEF OneUp, SameIdentifier, RightReporter
  <2> HIDE DEF q, x
  <2>6. QueuesAddressed'
        BY <1>a, <2>1, <2>2, <2>4 DEF QueuesAddressed, TypeOK
  <2> QED BY <2>5, <2>6 DEF AddressInv
<1>12. CASE Exit
      BY <1>12, <1>c DEF Exit
<1>13. CASE \/ ChooseCommand \/ InsertExecutor \/ UseDeleted \/ PrintEnd \/ PrintCrashes
            \/ PrintBegin \/ ExitReturns \/ UNCHANGED vars
      BY <1>13, <1>c
      DEF ChooseCommand, InsertExecutor, UseDeleted, PrintEnd, PrintCrashes, PrintBegin,
          ExitReturns, UndefinedBehaviour, vars
<1> QED BY <1>1, <1>2, <1>4, <1>5, <1>6, <1>7, <1>8, <1>9, <1>10, <1>11, <1>12, <1>13
        DEF Next, Running, Over, Handler, Command

\* A response that the operator queued for an identifier reaches only the reporter
\* that has this identifier, over reconnections and releases.
THEOREM ReachesRightReporter == Spec => []RightReporter
<1>1. Init => AddressInv
      BY DEF Init, AddressInv, OneUp, SameIdentifier, QueuesAddressed, Addressed, RightReporter
<1>2. AddressInv => RightReporter
      BY DEF AddressInv
<1> QED BY <1>1, <1>2, TypeInvInit, TypeInvStep, AddressStep, PTL DEF Spec
-----------------------------------------------------------------------------
(* Responses arrive once and in order *)

OrderInv == OneUp /\ QueuesOrdered /\ OnceInOrder

\* The numbers of a queue are natural ones.
LEMMA Numbered ==
    ASSUME NEW q \in Seq(Response)
    PROVE  \A i \in DOMAIN q : q[i].n \in Nat /\ i \in Nat
<1>1. \A x \in Response : x.n \in Nat
      BY RegistryAssumption DEF Response
<1>2. \A i \in DOMAIN q : q[i] \in Response /\ i \in Nat
      OBVIOUS
<1> QED BY <1>1, <1>2

\* A response with a new number keeps a queue in order, after what was before it.
LEMMA AppendOrdered ==
    ASSUME NEW q \in Seq(Response), NEW x \in Response, NEW k \in Nat, x.n = k + 1, UpTo(q, k)
    PROVE  /\ Increasing(q) => Increasing(Append(q, x))
           /\ UpTo(Append(q, x), k + 1)
           /\ \A p \in Seq(Response) : Below(p, q) /\ UpTo(p, k) => Below(p, Append(q, x))
<1>1. /\ DOMAIN Append(q, x) = 1..(Len(q) + 1) /\ DOMAIN q = 1..Len(q) /\ Len(q) \in Nat
      /\ Append(q, x)[Len(q) + 1] = x /\ \A i \in 1..Len(q) : Append(q, x)[i] = q[i]
      OBVIOUS
<1>2. \A i \in 1..(Len(q) + 1) : i \in 1..Len(q) \/ i = Len(q) + 1
      BY <1>1
<1>3. \A i \in 1..Len(q) : q[i].n \in Nat /\ q[i].n <= k
      BY <1>1, Numbered DEF UpTo
<1>4. Increasing(q) => Increasing(Append(q, x))
      BY <1>1, <1>2, <1>3 DEF Increasing
<1>5. UpTo(Append(q, x), k + 1)
      BY <1>1, <1>2, <1>3 DEF UpTo
<1>6. ASSUME NEW p \in Seq(Response), Below(p, q), UpTo(p, k) PROVE Below(p, Append(q, x))
  <2>1. \A i \in DOMAIN p : p[i].n \in Nat /\ p[i].n <= k
        BY <1>6, Numbered DEF UpTo
  <2> QED BY <1>1, <1>2, <1>6, <2>1 DEF Below
<1> QED BY <1>4, <1>5, <1>6

\* One queue after another keeps the order when all of the first come first.
LEMMA ConcatOrdered ==
    ASSUME NEW p \in Seq(Response), NEW q \in Seq(Response)
    PROVE  /\ Increasing(p) /\ Increasing(q) /\ Below(p, q) => Increasing(p \o q)
           /\ \A k : UpTo(p, k) /\ UpTo(q, k) => UpTo(p \o q, k)
           /\ \A t : Below(p, t) /\ Below(q, t) => Below(p \o q, t)
<1>1. \A i \in DOMAIN (p \o q) :
         \/ i \in DOMAIN p /\ (p \o q)[i] = p[i]
         \/ i - Len(p) \in DOMAIN q /\ (p \o q)[i] = q[i - Len(p)] /\ i \notin DOMAIN p
      BY ConcatElements
<1>2. /\ DOMAIN p = 1..Len(p) /\ Len(p) \in Nat /\ Len(q) \in Nat
      /\ DOMAIN (p \o q) = 1..(Len(p) + Len(q)) /\ DOMAIN q = 1..Len(q)
      OBVIOUS
<1>3. ASSUME Increasing(p), Increasing(q), Below(p, q) PROVE Increasing(p \o q)
  <2> SUFFICES ASSUME NEW i \in DOMAIN (p \o q), NEW j \in DOMAIN (p \o q), i < j
               PROVE  (p \o q)[i].n < (p \o q)[j].n
      BY DEF Increasing
  <2>1. CASE i \in DOMAIN p /\ j \in DOMAIN p
        BY <1>1, <1>2, <1>3, <2>1 DEF Increasing
  <2>2. CASE i \in DOMAIN p /\ j \notin DOMAIN p
        BY <1>1, <1>2, <1>3, <2>2 DEF Below
  <2>3. CASE i \notin DOMAIN p
    <3>1. j \notin DOMAIN p
          BY <1>2, <2>3
    <3>2. i - Len(p) < j - Len(p)
          BY <1>2
    <3> QED BY <1>1, <1>3, <2>3, <3>1, <3>2 DEF Increasing
  <2> QED BY <2>1, <2>2, <2>3
<1>4. \A k : UpTo(p, k) /\ UpTo(q, k) => UpTo(p \o q, k)
      BY <1>1 DEF UpTo
<1>5. \A t : Below(p, t) /\ Below(q, t) => Below(p \o q, t)
      BY <1>1 DEF Below
<1> QED BY <1>3, <1>4, <1>5

\* Numbers only grow, an answer takes the whole queue, and only the one live
\* connection of a reporter delivers: each keeps the order.
LEMMA OrderStep == TypeInv /\ TypeInv' /\ OrderInv /\ OneUp' /\ [Next]_vars => OrderInv'
<1> SUFFICES ASSUME TypeInv, TypeInv', OrderInv, OneUp', [Next]_vars PROVE OrderInv'
    OBVIOUS
<1> USE DEF queueVars, linkVars, reporterVars, connVars, termVars, serverVars, restVars
<1>a. /\ TypeOK /\ Stages /\ TerminalFound /\ NULL \notin Reporters
      /\ OneUp /\ QueuesOrdered /\ OnceInOrder
      BY RegistryAssumption DEF TypeInv, OrderInv
<1>b. /\ \A c \in Conns : up[c] => owner[c] \in Reporters
      /\ \A c \in Conns : response_queue_[c] \in Seq(Response) /\ res[c] \in Seq(Response)
      /\ \A r \in Reporters : delivered[r] \in Seq(Response)
      /\ issued \in Nat
      BY <1>a DEF Stages, TypeOK
<1>c. \A q, k : Increasing(<<>>) /\ UpTo(<<>>, k) /\ Below(<<>>, q) /\ Below(q, <<>>)
      BY DEF Increasing, UpTo, Below
<1>d. ASSUME UNCHANGED <<response_queue_, res, owner, delivered, issued>>,
             \A c \in Conns : up'[c] => up[c]
      PROVE  OrderInv'
  <2>1. QueuesOrdered' /\ OnceInOrder'
        BY <1>a, <1>d DEF QueuesOrdered, OnceInOrder
  <2> QED BY <2>1 DEF OrderInv
<1>1. ASSUME NEW r \in Reporters, NEW c \in Conns, GetHandler(r, c) PROVE OrderInv'
  <2>1. /\ hpc[c] = "unused" /\ up' = [up EXCEPT ![c] = TRUE] /\ owner' = [owner EXCEPT ![c] = r]
        /\ UNCHANGED <<response_queue_, res, delivered, issued>>
        BY <1>1 DEF GetHandler
  <2>2. response_queue_[c] = <<>> /\ res[c] = <<>>
        BY <1>a, <2>1 DEF Stages
  <2>3. QueuesOrdered'
        BY <1>a, <1>c, <2>1, <2>2 DEF QueuesOrdered, TypeOK
  <2>4. OnceInOrder'
        BY <1>a, <2>1 DEF OnceInOrder
  <2> QED BY <2>3, <2>4 DEF OrderInv
<1>2. ASSUME NEW c \in Conns, HandshakeBegin(c) \/ HandshakeEnd(c) \/ HandshakeFails(c)
      PROVE  OrderInv'
      BY <1>2, <1>d DEF HandshakeBegin, HandshakeEnd, HandshakeFails, Settle
<1>3. ASSUME NEW c \in Conns, Report(c) PROVE OrderInv'
  <2>1. /\ hpc[c] = "serving" /\ res' = [res EXCEPT ![c] = response_queue_[c]]
        /\ response_queue_' = [response_queue_ EXCEPT ![c] = <<>>]
        /\ UNCHANGED <<up, owner, delivered, issued>>
        BY <1>3 DEF Report
  <2>2. QueuesOrdered'
        BY <1>a, <1>c, <2>1 DEF QueuesOrdered, TypeOK
  <2>3. OnceInOrder'
        BY <1>a, <2>1 DEF OnceInOrder
  <2> QED BY <2>2, <2>3 DEF OrderInv
<1>4. ASSUME NEW c \in Conns, ReportReturns(c) PROVE OrderInv'
  <2>1. /\ res' = [res EXCEPT ![c] = <<>>]
        /\ delivered' = IF up[c] THEN [delivered EXCEPT ![owner[c]] = @ \o res[c]] ELSE delivered
        /\ UNCHANGED <<response_queue_, up, owner, issued>>
        BY <1>4 DEF ReportReturns
  <2>2. CASE up[c]
    <3> DEFINE r == owner[c]
               p == delivered[r]
               q == res[c]
    <3>1. r \in Reporters /\ p \in Seq(Response) /\ q \in Seq(Response)
          BY <1>b, <2>2
    <3>2. \A s \in Reporters : delivered'[s] = IF s = r THEN p \o q ELSE delivered[s]
          BY <1>a, <2>1, <2>2, <3>1 DEF TypeOK
    <3>3. /\ \A d \in Conns : res'[d] = IF d = c THEN <<>> ELSE res[d]
          /\ \A d \in Conns : up[d] /\ owner[d] = r => d = c
          BY <1>a, <2>1, <2>2 DEF TypeOK, OneUp
    <3>4. /\ Increasing(p) /\ Increasing(q) /\ Below(p, q)
          /\ Below(p, response_queue_[c]) /\ Below(q, response_queue_[c])
          /\ UpTo(p, issued) /\ UpTo(q, issued)
          BY <1>a, <2>2, <3>1 DEF QueuesOrdered, OnceInOrder, Increasing
    <3> HIDE DEF p, q
    <3>5. /\ Increasing(p \o q) /\ UpTo(p \o q, issued) /\ Below(p \o q, response_queue_[c])
          BY <3>1, <3>4, ConcatOrdered
    <3>6. \A s \in Reporters : Increasing(delivered'[s]) /\ UpTo(delivered'[s], issued)
          BY <1>a, <3>2, <3>5 DEF QueuesOrdered, OnceInOrder, Increasing
    <3>7. OnceInOrder'
          BY <3>6 DEF OnceInOrder, Increasing
    <3>8. \A d \in Conns : up[d] => /\ Below(delivered'[owner[d]], res'[d])
                                   /\ Below(delivered'[owner[d]], response_queue_[d])
      <4>1. SUFFICES ASSUME NEW d \in Conns, up[d]
                     PROVE  /\ Below(delivered'[owner[d]], res'[d])
                            /\ Below(delivered'[owner[d]], response_queue_[d])
            OBVIOUS
      <4>2. CASE d = c
            BY <1>c, <3>1, <3>2, <3>3, <3>5, <4>2
      <4>3. CASE d # c
        <5>1. delivered'[owner[d]] = delivered[owner[d]] /\ res'[d] = res[d]
              BY <1>b, <3>2, <3>3, <4>1, <4>3
        <5> QED BY <1>a, <4>1, <5>1 DEF QueuesOrdered
      <4> QED BY <4>2, <4>3
    <3>9. \A d \in Conns :
             /\ Increasing(response_queue_[d]) /\ Increasing(res'[d])
             /\ Below(res'[d], response_queue_[d])
             /\ UpTo(response_queue_[d], issued) /\ UpTo(res'[d], issued)
          BY <1>a, <1>c, <3>3 DEF QueuesOrdered
    <3>10. QueuesOrdered'
          BY <2>1, <3>6, <3>8, <3>9 DEF QueuesOrdered
    <3> QED BY <3>7, <3>10 DEF OrderInv
  <2>3. CASE ~up[c]
    <3>1. QueuesOrdered' /\ OnceInOrder'
          BY <1>a, <1>c, <2>1, <2>3 DEF QueuesOrdered, OnceInOrder, TypeOK
    <3> QED BY <3>1 DEF OrderInv
  <2> QED BY <2>2, <2>3
<1>5. ASSUME NEW c \in Conns, Disconnect(c) PROVE OrderInv'
      BY <1>5, <1>a, <1>d DEF Disconnect, TypeOK
<1>6. ASSUME NEW c \in Conns, ReleaseHandler(c) \/ ReleaseHandlerCrashes(c) PROVE OrderInv'
      BY <1>6, <1>d DEF ReleaseHandler, ReleaseHandlerCrashes, UndefinedBehaviour
<1>7. ASSUME NEW c \in Conns, DeleteClient(c) PROVE OrderInv'
  <2>1. /\ hpc[c] = "removed"
        /\ response_queue_' = [response_queue_ EXCEPT ![c] = <<>>]
        /\ owner' = [owner EXCEPT ![c] = NULL]
        /\ UNCHANGED <<res, up, delivered, issued>>
        BY <1>7 DEF DeleteClient
  <2>2. ~up[c]
        BY <1>a, <2>1 DEF Stages
  <2>3. QueuesOrdered'
        BY <1>a, <1>c, <2>1, <2>2 DEF QueuesOrdered, TypeOK
  <2>4. OnceInOrder'
        BY <1>a, <2>1 DEF OnceInOrder
  <2> QED BY <2>3, <2>4 DEF OrderInv
<1>8. ASSUME NEW id \in Ids \cup {-1}, GetClient(id) \/ GetClientCrashes(id) PROVE OrderInv'
      BY <1>8, <1>d DEF GetClient, GetClientCrashes, UndefinedBehaviour
<1>9. CASE AddResponse
  <2> DEFINE x == [n |-> issued + 1, to |-> tid]
             q == response_queue_[tclient]
  <2>1. /\ response_queue_' = [response_queue_ EXCEPT ![tclient] = Append(q, x)]
        /\ issued' = issued + 1
        /\ UNCHANGED <<res, up, owner, delivered>>
        BY <1>9 DEF AddResponse
  <2>2. tclient \in Conns /\ x \in Response
        BY <1>9, <1>a, RegistryAssumption DEF AddResponse, TerminalFound, TypeOK, Response
  <2>3. q \in Seq(Response) /\ Increasing(q) /\ UpTo(q, issued)
        BY <1>a, <1>b, <2>2 DEF QueuesOrdered
  <2>4. x.n = issued + 1
        OBVIOUS
  <2> HIDE DEF q, x
  <2>5. /\ Increasing(Append(q, x)) /\ UpTo(Append(q, x), issued + 1)
        /\ \A p \in Seq(Response) : Below(p, q) /\ UpTo(p, issued) => Below(p, Append(q, x))
        BY <1>b, <2>2, <2>3, <2>4, AppendOrdered
  <2>6. \A p \in Seq(Response) : UpTo(p, issued) => UpTo(p, issued + 1)
        BY <1>b, Numbered DEF UpTo
  <2>7. /\ response_queue_'[tclient] = Append(q, x)
        /\ \A d \in Conns : d # tclient => response_queue_'[d] = response_queue_[d]
        BY <1>a, <2>1, <2>2 DEF TypeOK
  <2>8. QueuesOrdered'
    <3>1. \A r \in Reporters : UpTo(delivered[r], issued + 1)
          BY <1>a, <1>b, <2>6 DEF QueuesOrdered
    <3>2. \A d \in Conns : UpTo(response_queue_'[d], issued + 1) /\ UpTo(res[d], issued + 1)
          BY <1>a, <1>b, <2>5, <2>6, <2>7 DEF QueuesOrdered
    <3>3. \A d \in Conns : Increasing(response_queue_'[d]) /\ Increasing(res[d])
          BY <1>a, <2>5, <2>7 DEF QueuesOrdered
    <3>4. \A d \in Conns, p \in Seq(Response) :
             Below(p, response_queue_[d]) /\ UpTo(p, issued) => Below(p, response_queue_'[d])
          BY <2>5, <2>7 DEF q
    <3>5. \A d \in Conns : /\ Below(res[d], response_queue_'[d])
                           /\ up[d] => /\ Below(delivered[owner[d]], res[d])
                                       /\ Below(delivered[owner[d]], response_queue_'[d])
          BY <1>a, <1>b, <3>4 DEF QueuesOrdered
    <3> QED BY <2>1, <3>1, <3>2, <3>3, <3>5 DEF QueuesOrdered
  <2>9. OnceInOrder'
        BY <1>a, <2>1 DEF OnceInOrder
  <2> QED BY <2>8, <2>9 DEF OrderInv
<1>10. CASE Exit
      BY <1>10, <1>d DEF Exit
<1>11. CASE \/ ChooseCommand \/ InsertExecutor \/ UseDeleted \/ PrintEnd \/ PrintCrashes
            \/ PrintBegin \/ ExitReturns \/ UNCHANGED vars
      BY <1>11, <1>d
      DEF ChooseCommand, InsertExecutor, UseDeleted, PrintEnd, PrintCrashes, PrintBegin,
          ExitReturns, UndefinedBehaviour, vars
<1> QED BY <1>1, <1>2, <1>3, <1>4, <1>5, <1>6, <1>7, <1>8, <1>9, <1>10, <1>11
        DEF Next, Running, Over, Handler, Command

\* A reporter gets what the terminal queued for it in the order it was queued, and
\* each response at most once, across all of its connections.
THEOREM DeliversOnceInOrder == Spec => []OnceInOrder
<1>1. Init => AddressInv /\ OrderInv
      BY DEF Init, AddressInv, OneUp, SameIdentifier, QueuesAddressed, Addressed,
             RightReporter, OrderInv, QueuesOrdered, Increasing, Below, UpTo, OnceInOrder
<1>2. AddressInv => OneUp
      BY DEF AddressInv
<1>3. OrderInv => OnceInOrder
      BY DEF OrderInv
<1> QED BY <1>1, <1>2, <1>3, TypeInvInit, TypeInvStep, AddressStep, OrderStep, PTL DEF Spec
=============================================================================
