-------------------------- MODULE TcpServerRefinement --------------------------
(***************************************************************************)
(* TcpServer implements ClientTable: read as a list, the entries in use of *)
(* each port change by the steps of ClientTable only.                      *)
(***************************************************************************)
EXTENDS TcpServerTableProofs

\* The entry a receiver is about to replace has the address of the connection it
\* has accepted, or has been marked since.
FoundInv ==
  \A p \in Ports : pc[p] = "dup" =>
    /\ conn[p].fd \in Fds /\ conn[p].ip \in Addr /\ conn[p].slot \in Slots \ {0}
    /\ cliIpAddress[p][conn[p].slot] \in {conn[p].ip, Marked}

-----------------------------------------------------------------------------
LEMMA FoundMark ==
  ASSUME TypeInv, FoundInv, NEW c \in Callers, SendFinishes(c)
  PROVE  FoundInv'
<1>1. cliIpAddress \in [Ports -> [Slots -> Addr \cup {NoAddr, Marked}]]
  BY DEF TypeInv, TypeOK
<1>2. \A p \in Ports, i \in Slots : cliIpAddress'[p][i] \in {cliIpAddress[p][i], Marked}
  BY <1>1 DEF SendFinishes
<1>3. UNCHANGED <<pc, conn>>
  BY DEF SendFinishes, thread
<1> QED BY <1>2, <1>3 DEF FoundInv

LEMMA FoundDuplicate ==
  ASSUME TypeInv, FoundInv, NEW p \in Ports, NEW f \in Fds, AcceptDuplicate(p, f)
  PROVE  FoundInv'
<1> DEFINE a == Head(pending[p])
<1>t. conn \in [Ports -> Connection] /\ pc \in [Ports -> PcValues]
  BY DEF TypeInv, TypeOK
<1>1. a \in Addr
  BY DEF AcceptDuplicate, Accepting, TypeInv, TypeOK
<1>2. PICK k \in Slots :
        /\ IsFirst(p, a, 1, k)
        /\ conn' = [conn EXCEPT ![p] = [fd |-> f, ip |-> a, slot |-> k]]
  BY DEF AcceptDuplicate
<1>3. UNCHANGED cliIpAddress /\ pc' = [pc EXCEPT ![p] = "dup"]
  BY DEF AcceptDuplicate, tables
<1>4. k # 0 /\ cliIpAddress[p][k] = a
  BY <1>2 DEF IsFirst
<1> HIDE DEF a
<1> QED BY <1>1, <1>2, <1>3, <1>4, <1>t DEF FoundInv

\* No other step brings a receiver to a replacement, and the tables of one that is
\* there are changed by others only.
LEMMA FoundRest ==
  ASSUME TypeInv, FoundInv, [Next]_vars,
         ~\E p \in Ports, f \in Fds : AcceptDuplicate(p, f),
         ~\E c \in Callers : SendFinishes(c)
  PROVE  FoundInv'
<1>t. /\ pc \in [Ports -> PcValues] /\ conn \in [Ports -> Connection]
      /\ cliIpAddress \in [Ports -> [Slots -> Addr \cup {NoAddr, Marked}]]
  BY DEF TypeInv, TypeOK
<1>1. ASSUME NEW p \in Ports, Removal(p) PROVE FoundInv'
  <2>1. /\ Drop(p) /\ UNCHANGED conn
        /\ \E at \in {"poll", "scan", "rewait"} : pc' = [pc EXCEPT ![p] = at]
    BY <1>1, RemovalDrops
  <2>2. ASSUME NEW q \in Ports, pc'[q] = "dup"
        PROVE  q # p /\ pc[q] = "dup" /\ conn'[q] = conn[q]
    BY <2>1, <2>2, <1>t
  <2>3. ASSUME NEW q \in Ports, q # p, NEW i \in Slots \ {0}
        PROVE  cliIpAddress'[q][i] = cliIpAddress[q][i]
    BY <2>1, <2>3, DropOtherPort
  <2> QED BY <2>2, <2>3 DEF FoundInv
<1>2. ASSUME NEW p \in Ports, DupReplace(p) PROVE FoundInv'
  <2>1. /\ pc' = [pc EXCEPT ![p] = "poll"] /\ conn' = [conn EXCEPT ![p] = NoConn]
        /\ \A q \in Ports : q # p => cliIpAddress'[q] = cliIpAddress[q]
    BY <1>2, <1>t DEF DupReplace
  <2> QED BY <2>1, <1>t DEF FoundInv
<1>3. ASSUME NEW p \in Ports, NEW f \in Fds, AcceptNew(p, f) PROVE FoundInv'
  <2>1. /\ pc[p] = "poll" /\ UNCHANGED <<pc, conn>>
        /\ \A q \in Ports : q # p => cliIpAddress'[q] = cliIpAddress[q]
    BY <1>3, <1>t DEF AcceptNew, Accepting, thread
  <2> QED BY <2>1 DEF FoundInv
<1>4. CASE ~\E p \in Ports : \/ Removal(p) \/ DupReplace(p)
                             \/ \E f \in Fds : AcceptNew(p, f)
  <2>1. UNCHANGED cliIpAddress
    BY <1>4, TablesKept
  <2>2. ASSUME NEW q \in Ports, pc'[q] = "dup"
        PROVE  pc[q] = "dup" /\ conn'[q] = conn[q]
    <3> USE DEF thread
    <3>1. CASE UNCHANGED vars
      BY <3>1, <2>2 DEF vars
    <3>2. CASE Environment
      BY <3>2, <2>2 DEF Environment, Connect, PeerSends, PeerCloses, PeerResets, AppSends
    <3>3. ASSUME NEW c \in Callers, CallStep(c)
          PROVE  pc[q] = "dup" /\ conn'[q] = conn[q]
      BY <3>3, <2>2 DEF CallStep, SendFinds, SendReads, SendMisses, SendSucceeds, SendFails, SendKilled
    <3>4. ASSUME NEW p \in Ports, Receiver(p)
          PROVE  pc[q] = "dup" /\ conn'[q] = conn[q]
      <4>1. UNCHANGED conn
        BY <3>4, <1>4 DEF Receiver, Removal, AcceptFull, PollScan, ScanEnds,
           ScanFindsMarked, ScanSkips, RecvData, RecvEnds, RecvFails, EchoCalls,
           EchoReturns, SweepWaits, Goes
      <4>2. \/ UNCHANGED pc
            \/ \E at \in PcValues \ {"dup"} : pc' = [pc EXCEPT ![p] = at]
        BY <3>4, <1>4 DEF Receiver, Removal, AcceptFull, PollScan, ScanEnds, EndPass,
           ScanFindsMarked, ScanSkips, RecvData, RecvEnds, RecvFails, EchoCalls,
           EchoReturns, SweepWaits, Goes, PcValues
      <4> QED BY <1>t, <2>2, <4>1, <4>2
    <3> QED BY <3>1, <3>2, <3>3, <3>4 DEF Next
  <2> QED BY <2>1, <2>2 DEF FoundInv
<1> QED BY <1>1, <1>2, <1>3, <1>4

LEMMA FoundStep == TypeInv /\ FoundInv /\ [Next]_vars => FoundInv'
BY FoundMark, FoundDuplicate, FoundRest

-----------------------------------------------------------------------------
(* Each step that touches a table is a step of the list, or changes nothing *)
(* that is in use.                                                          *)

ListStep == [Table!Next]_(Table!list)

\* One port's list becomes L, the others stay.
LEMMA OnePort ==
  ASSUME NEW p \in Ports, NEW L, Clients(p)' = L,
         \A q \in Ports : q # p => Clients(q)' = Clients(q)
  PROVE  [q \in Ports |-> Clients(q)]' = [[q \in Ports |-> Clients(q)] EXCEPT ![p] = L]
OBVIOUS

\* What is in use keeps its place: nothing happens to the list.
LEMMA SameList ==
  ASSUME UNCHANGED sockCnt,
         \A p \in Ports : \A k \in Active(p) :
           cliFd'[p][k] = cliFd[p][k] /\ cliIpAddress'[p][k] = cliIpAddress[p][k]
  PROVE  ListStep
<1>1. \A p \in Ports : Clients(p)' = Clients(p)
  BY DEF Clients, Active
<1> QED BY <1>1 DEF ListStep, Table!list

\* A new client's entry is the first one not in use.
LEMMA JoinStep ==
  ASSUME TypeInv, NEW p \in Ports, NEW f \in Fds, AcceptNew(p, f)
  PROVE  ListStep
<1>0. PICK a \in Addr : a = Head(pending[p])
  BY DEF AcceptNew, Accepting, TypeInv, TypeOK
<1> DEFINE n == sockCnt[p]
           c == [fd |-> f, addr |-> a]
           L == [k \in 1..n |-> IF k <= n - 1 THEN Clients(p)[k] ELSE c]
<1>t. /\ cliFd \in [Ports -> [Slots -> Fds \cup {0, NoFd}]]
      /\ cliIpAddress \in [Ports -> [Slots -> Addr \cup {NoAddr, Marked}]]
      /\ sockCnt \in [Ports -> 1..ClientMax] /\ ClientMax \in Nat
  BY ServerAssumption DEF TypeInv, TypeOK
<1>1. /\ sockCnt' = [sockCnt EXCEPT ![p] = n + 1] /\ n < ClientMax /\ n \in Nat /\ n >= 1
      /\ cliFd' = [cliFd EXCEPT ![p][n] = f]
      /\ cliIpAddress' = [cliIpAddress EXCEPT ![p][n] = a]
      /\ \A k \in Slots : k >= 1 => cliIpAddress[p][k] # a
  BY <1>0, <1>t DEF AcceptNew, HasRoom, IsListed
<1>2. Active(p) = 1..(n - 1) /\ Active(p)' = 1..n /\ Active(p) \subseteq Slots \ {0} /\ n \in Slots
  BY <1>1, <1>t, ActiveSlots DEF Active, Slots
<1> HIDE DEF n
<1>3. Clients(p)' = L
  <2>1. \A k \in 1..n : [fd |-> cliFd'[p][k], addr |-> cliIpAddress'[p][k]] = L[k]
    BY <1>1, <1>2, <1>t DEF Clients
  <2> QED BY <1>2, <2>1 DEF Clients
<1>4. \A q \in Ports : q # p => Clients(q)' = Clients(q)
  BY <1>1, <1>t DEF Clients, Active
<1>5. [q \in Ports |-> Clients(q)]' = [[q \in Ports |-> Clients(q)] EXCEPT ![p] = L]
  <2> HIDE DEF L
  <2> QED BY <1>3, <1>4, OnePort
<1>6. [q \in Ports |-> sockCnt[q] - 1]' = [[q \in Ports |-> sockCnt[q] - 1] EXCEPT ![p] = @ + 1]
  <2>1. \A q \in Ports : sockCnt'[q] - 1 = IF q = p THEN sockCnt[p] - 1 + 1 ELSE sockCnt[q] - 1
    BY <1>1, <1>t DEF n
  <2> QED BY <2>1
<1>7. \A k \in Active(p) : Clients(p)[k].addr # c.addr
  BY <1>1, <1>2 DEF Clients
<1>8. [q \in Ports |-> sockCnt[q] - 1][p] = n - 1 /\ Table!Entries(p) = Active(p)
  BY <1>t DEF Table!Entries, Active, n
<1>9. Table!Join(p, c)
  <2> HIDE DEF c
  <2>1. n - 1 < ClientMax - 1 /\ n - 1 + 1 = n
    BY <1>1, <1>t
  <2>2. \A k \in Table!Entries(p) : [q \in Ports |-> Clients(q)][p][k].addr # c.addr
    BY <1>7, <1>8
  <2>3. L = [k \in 1..([q \in Ports |-> sockCnt[q] - 1][p] + 1) |->
               IF k <= [q \in Ports |-> sockCnt[q] - 1][p]
               THEN [q \in Ports |-> Clients(q)][p][k] ELSE c]
    BY <1>8, <2>1
  <2> HIDE DEF L
  <2>4. [q \in Ports |-> sockCnt[q] - 1][p] < ClientMax - 1
    BY <1>8, <2>1
  <2> QED BY <1>5, <1>6, <2>2, <2>3, <2>4 DEF Table!Join
<1>10. Table!Next
  BY <1>9 DEF Table!Next
<1> QED BY <1>10 DEF ListStep

\* The entry of a client that comes back gets its new connection; one that is not
\* in use is not in the list either.
LEMMA RenewStep ==
  ASSUME TypeInv, DupInv, FoundInv, NEW p \in Ports, DupReplace(p)
  PROVE  ListStep
<1> DEFINE k == conn[p].slot
           c == [fd |-> conn[p].fd, addr |-> conn[p].ip]
           L == [j \in Active(p) |-> IF j = k THEN c ELSE Clients(p)[j]]
<1>t. /\ cliFd \in [Ports -> [Slots -> Fds \cup {0, NoFd}]]
      /\ cliIpAddress \in [Ports -> [Slots -> Addr \cup {NoAddr, Marked}]]
      /\ sockCnt \in [Ports -> 1..ClientMax] /\ ClientMax \in Nat
      /\ \A q \in Ports : Active(q) \subseteq Slots \ {0}
  BY ServerAssumption, ActiveSlots DEF TypeInv, TypeOK
<1>1. /\ UNCHANGED sockCnt
      /\ cliFd' = [cliFd EXCEPT ![p][k] = conn[p].fd]
      /\ cliIpAddress' = [cliIpAddress EXCEPT ![p][k] = conn[p].ip]
      /\ conn[p].fd \in Fds /\ conn[p].ip \in Addr /\ k \in Slots
      /\ cliIpAddress[p][k] \in {conn[p].ip, Marked}
      /\ \A j \in Active(p) : cliIpAddress[p][j] = conn[p].ip => j = k
  BY DEF DupReplace, FoundInv, DupInv
<1>2. CASE k \notin Active(p)
  <2>1. ASSUME NEW q \in Ports, NEW j \in Active(q)
        PROVE  cliFd'[q][j] = cliFd[q][j] /\ cliIpAddress'[q][j] = cliIpAddress[q][j]
    BY <1>1, <1>2, <1>t
  <2> QED BY <1>1, <2>1, SameList
<1>3. CASE k \in Active(p)
  <2> HIDE DEF k
  <2>1. Clients(p)' = L
    <3>1. \A j \in Active(p) : [fd |-> cliFd'[p][j], addr |-> cliIpAddress'[p][j]] = L[j]
      BY <1>1, <1>t DEF Clients
    <3> QED BY <1>1, <3>1 DEF Clients, Active
  <2>2. \A q \in Ports : q # p => Clients(q)' = Clients(q)
    BY <1>1, <1>t DEF Clients, Active
  <2>3. [q \in Ports |-> Clients(q)]' = [[q \in Ports |-> Clients(q)] EXCEPT ![p] = L]
    <3> HIDE DEF L
    <3> QED BY <2>1, <2>2, OnePort
  <2>4. \A j \in Active(p) : Clients(p)[j].addr = cliIpAddress[p][j]
    BY DEF Clients
  <2>5. Table!Entries(p) = Active(p)
    BY DEF Table!Entries, Active
  <2>6. Table!Renew(p, k, c)
    BY <1>1, <1>3, <2>3, <2>4, <2>5 DEF Table!Renew
  <2> QED BY <1>1, <1>3, <2>5, <2>6 DEF ListStep, Table!Next
<1> QED BY <1>2, <1>3

\* A failed send marks one entry in use, or one that is not.
LEMMA MarkStep ==
  ASSUME TypeInv, NEW x \in Callers, SendFinishes(x)
  PROVE  ListStep
<1>0. PICK p \in Ports, k \in Slots : p = PortOf(x) /\ k = call[x].slot
  BY DEF TypeInv, TypeOK, Call, PortOf, Ports
<1> DEFINE L == [j \in Active(p) |-> IF j = k THEN [fd |-> Clients(p)[k].fd, addr |-> Marked]
                                     ELSE Clients(p)[j]]
<1>t. /\ cliIpAddress \in [Ports -> [Slots -> Addr \cup {NoAddr, Marked}]]
      /\ \A q \in Ports : Active(q) \subseteq Slots \ {0}
  BY ActiveSlots DEF TypeInv, TypeOK
<1>1. /\ UNCHANGED <<sockCnt, cliFd>>
      /\ \/ UNCHANGED cliIpAddress
         \/ cliIpAddress' = [cliIpAddress EXCEPT ![p][k] = Marked]
  BY <1>0 DEF SendFinishes
<1>2. CASE UNCHANGED cliIpAddress \/ k \notin Active(p)
  <2>1. ASSUME NEW q \in Ports, NEW j \in Active(q)
        PROVE  cliFd'[q][j] = cliFd[q][j] /\ cliIpAddress'[q][j] = cliIpAddress[q][j]
    BY <1>1, <1>2, <1>t
  <2> QED BY <1>1, <2>1, SameList
<1>3. CASE k \in Active(p) /\ cliIpAddress' = [cliIpAddress EXCEPT ![p][k] = Marked]
  <2>1. Clients(p)' = L
    <3>1. \A j \in Active(p) : [fd |-> cliFd'[p][j], addr |-> cliIpAddress'[p][j]] = L[j]
      BY <1>1, <1>3, <1>t DEF Clients
    <3> QED BY <1>1, <3>1 DEF Clients, Active
  <2>2. \A q \in Ports : q # p => Clients(q)' = Clients(q)
    BY <1>1, <1>3, <1>t DEF Clients, Active
  <2>3. [q \in Ports |-> Clients(q)]' = [[q \in Ports |-> Clients(q)] EXCEPT ![p] = L]
    <3> HIDE DEF L
    <3> QED BY <1>t, <2>1, <2>2, OnePort
  <2>4. Table!Entries(p) = Active(p)
    BY <1>t DEF Table!Entries, Active
  <2>5. Table!Mark(p, k)
    BY <1>1, <1>3, <1>t, <2>3, <2>4 DEF Table!Mark
  <2> QED BY <1>3, <1>t, <2>4, <2>5 DEF ListStep, Table!Next
<1> QED BY <1>1, <1>2, <1>3

\* Each of the three copies of the removal takes the client at loop off the list.
LEMMA LeaveStep ==
  ASSUME TypeInv, NEW p \in Ports, Removal(p)
  PROVE  ListStep
<1>0. PICK k \in Nat : k = loop[p]
  BY DEF TypeInv, TypeOK
<1> DEFINE n == sockCnt[p]
           L == [j \in 1..(n - 2) |-> IF j < k THEN Clients(p)[j] ELSE Clients(p)[j + 1]]
<1>t. /\ sockCnt \in [Ports -> 1..ClientMax] /\ ClientMax \in Nat /\ n \in Nat
      /\ \A q \in Ports : Active(q) \subseteq Slots \ {0}
  BY ServerAssumption, ActiveSlots DEF TypeInv, TypeOK, Slots
<1>1. /\ Drop(p) /\ k < n /\ k >= 1
      /\ sockCnt' = [sockCnt EXCEPT ![p] = @ - 1]
  BY <1>0, RemovalDrops
<1>2. Active(p) = 1..(n - 1) /\ Active(p)' = 1..(n - 2)
  BY <1>1, <1>t DEF Active
<1>3. Clients(p)' = L
  <2>1. ASSUME NEW j \in 1..(n - 2)
        PROVE  [fd |-> cliFd'[p][j], addr |-> cliIpAddress'[p][j]] = L[j]
    <3> DEFINE from == IF j < k THEN j ELSE j + 1
    <3>1. n > 2 /\ from \in 1..(n - 1)
      BY <1>1, <1>t
    <3>2. cliFd'[p][j] = cliFd[p][from] /\ cliIpAddress'[p][j] = cliIpAddress[p][from]
      BY <1>0, <1>1, <3>1, DropEntry
    <3>3. L[j] = Clients(p)[from]
      OBVIOUS
    <3> HIDE DEF from, L
    <3> QED BY <1>2, <3>1, <3>2, <3>3 DEF Clients
  <2> HIDE DEF n
  <2> QED BY <1>2, <2>1 DEF Clients
<1>4. ASSUME NEW q \in Ports, q # p PROVE Clients(q)' = Clients(q)
  <2>1. Active(q)' = Active(q)
    BY <1>1, <1>4, <1>t DEF Active
  <2>2. \A j \in Active(q) : cliFd'[q][j] = cliFd[q][j] /\ cliIpAddress'[q][j] = cliIpAddress[q][j]
    BY <1>1, <1>4, <1>t, DropOtherPort
  <2> QED BY <2>1, <2>2 DEF Clients
<1>5. [q \in Ports |-> Clients(q)]' = [[q \in Ports |-> Clients(q)] EXCEPT ![p] = L]
  <2> HIDE DEF L
  <2> QED BY <1>3, <1>4, OnePort
<1>6. [q \in Ports |-> sockCnt[q] - 1]' = [[q \in Ports |-> sockCnt[q] - 1] EXCEPT ![p] = @ - 1]
  BY <1>1, <1>t
<1>7. Table!Leave(p, k)
  <2>1. [q \in Ports |-> sockCnt[q] - 1][p] - 1 = n - 2
    BY <1>t
  <2> HIDE DEF n
  <2> QED BY <1>5, <1>6, <2>1 DEF Table!Leave
<1>8. Table!Entries(p) = Active(p)
  BY DEF Table!Entries, Active
<1>9. k \in Active(p)
  BY <1>1, <1>2, <1>t
<1>10. Table!Next
  BY <1>7, <1>8, <1>9 DEF Table!Next
<1> QED BY <1>10 DEF ListStep

\* TcpServer's tables implement the list of clients, for every table size of at
\* least 3, whatever clients and senders do.
THEOREM TableRefined == Spec => IsClientTable
<1>1. Init => Table!Init
  <2> SUFFICES ASSUME Init PROVE Table!Init
    OBVIOUS
  <2>1. \A p \in Ports : sockCnt[p] - 1 = 0 /\ Active(p) = 1..0
    BY DEF Init, Active
  <2>2. \A p \in Ports : Clients(p) = [k \in 1..0 |-> [fd |-> 0, addr |-> Marked]]
    BY <2>1 DEF Clients
  <2> QED BY <2>1, <2>2 DEF Table!Init
<1>2. TypeInv /\ UniqueInv /\ FoundInv /\ [Next]_vars => ListStep
  <2> SUFFICES ASSUME TypeInv, UniqueInv, FoundInv, [Next]_vars PROVE ListStep
    OBVIOUS
  <2>1. CASE UNCHANGED <<cliFd, cliIpAddress, pollFd, sockCnt>>
    BY <2>1, SameList
  <2> QED BY <2>1, TablesKept, JoinStep, RenewStep, MarkStep, LeaveStep DEF UniqueInv
<1>3. Init => UniqueInv /\ FoundInv
  BY DEF Init, UniqueInv, OneSlotPerAddress, DupInv, FoundInv, Active
<1> QED BY <1>1, <1>2, <1>3, UniqueStep, FoundStep, TypeInvariant, PTL
        DEF Spec, IsClientTable, ListStep, Table!Spec

=============================================================================
