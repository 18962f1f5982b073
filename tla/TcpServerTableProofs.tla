------------------------ MODULE TcpServerTableProofs ------------------------
(***************************************************************************)
(* The client tables of TcpServer: the two arrays agree, no client has two *)
(* entries in use, and a removal takes out one client only.                *)
(***************************************************************************)
EXTENDS TcpServerProofs

\* A receiver that is about to replace an entry has found the only one in use
\* with that address, if there is one.
DupInv ==
  \A p \in Ports : pc[p] = "dup" =>
    /\ conn[p].ip \in Addr
    /\ \A i \in Active(p) : cliIpAddress[p][i] = conn[p].ip => i = conn[p].slot

-----------------------------------------------------------------------------
(* What a removal does to the entries in use.                               *)

LEMMA ActiveSlots ==
  ASSUME TypeInv, NEW p \in Ports
  PROVE  /\ Active(p) \subseteq Slots \ {0}
         /\ sockCnt[p] \in 1..ClientMax /\ ClientMax \in Nat
<1>1. sockCnt[p] \in 1..ClientMax /\ ClientMax \in Nat
  BY ServerAssumption DEF TypeInv, TypeOK
<1> QED BY <1>1 DEF Active, Slots

\* Entries before the one removed stay, those after it move down by one.
LEMMA DropEntry ==
  ASSUME TypeInv, NEW p \in Ports, Drop(p), loop[p] < sockCnt[p], sockCnt[p] > 2,
         NEW i \in 1..(sockCnt[p] - 2)
  PROVE  LET from == IF i < loop[p] THEN i ELSE i + 1 IN
         /\ cliFd'[p][i] = cliFd[p][from]
         /\ cliIpAddress'[p][i] = cliIpAddress[p][from]
         /\ pollFd'[p][i] = pollFd[p][from]
         /\ ReventsAfterDrop(p)[p][i] = revents[p][from]
<1> DEFINE k == loop[p]
           n == sockCnt[p]
           from == IF i < k THEN i ELSE i + 1
<1>1. n \in 3..ClientMax /\ k \in 1..(n - 1) /\ i \in 0..(n - 2)
  BY ServerAssumption DEF TypeInv, TypeOK
<1>2. ASSUME NEW tbl, NEW last, NEW past
      PROVE  CloseGap(tbl, k, n, last, past)[i] = tbl[from]
  <2> HIDE DEF k, n
  <2>1. CloseGap(tbl, k, n, last, past)[i] = IF i < k THEN tbl[i] ELSE tbl[i + 1]
    BY <1>1, CloseGapEntry
  <2> QED BY <2>1
<1>t. /\ cliFd \in [Ports -> [Slots -> Fds \cup {0, NoFd}]]
      /\ cliIpAddress \in [Ports -> [Slots -> Addr \cup {NoAddr, Marked}]]
      /\ pollFd \in [Ports -> [Slots -> Fds \cup {0, NoFd}]]
      /\ revents \in [Ports -> [Slots -> BOOLEAN]]
  BY DEF TypeInv, TypeOK
<1>3. Port1 # Port2 /\ n # 2
  BY <1>1 DEF Port1, Port2
<1>4. cliFd'[p][i] = cliFd[p][from]
  <2>1. cliFd'[p] = CloseGap(cliFd[p], k, n, NoFd, NoFd)
    BY <1>3, <1>t DEF Drop, FdsAfterDrop
  <2> HIDE DEF k, n, from
  <2> QED BY <2>1, <1>2
<1>5. cliIpAddress'[p][i] = cliIpAddress[p][from]
  <2>1. cliIpAddress'[p] = CloseGap(cliIpAddress[p], k, n, NoAddr, NoAddr)
    BY <1>3, <1>t DEF Drop, AddressesAfterDrop
  <2> HIDE DEF k, n, from
  <2> QED BY <2>1, <1>2
<1>6. pollFd'[p][i] = pollFd[p][from]
  <2>1. pollFd'[p] = CloseGap(pollFd[p], k, n, 0, 0)
    BY <1>3, <1>t DEF Drop, PollFdsAfterDrop
  <2> HIDE DEF k, n, from
  <2> QED BY <2>1, <1>2
<1>7. ReventsAfterDrop(p)[p][i] = revents[p][from]
  <2>1. ReventsAfterDrop(p)[p] = CloseGap(revents[p], k, n, FALSE, FALSE)
    BY <1>t DEF ReventsAfterDrop
  <2> HIDE DEF k, n, from
  <2>2. CloseGap(revents[p], k, n, FALSE, FALSE)[i] = revents[p][from]
    BY <1>2
  <2> QED BY <2>1, <2>2, Zenon
<1> QED BY <1>4, <1>5, <1>6, <1>7

\* The other port keeps every entry but, in an overrun, its listener's.
LEMMA DropOtherPort ==
  ASSUME TypeInv, NEW p \in Ports, Drop(p), NEW q \in Ports, q # p,
         NEW i \in Slots \ {0}
  PROVE  /\ cliFd'[q][i] = cliFd[q][i]
         /\ cliIpAddress'[q][i] = cliIpAddress[q][i]
         /\ pollFd'[q][i] = pollFd[q][i]
<1>t. /\ cliFd \in [Ports -> [Slots -> Fds \cup {0, NoFd}]]
      /\ cliIpAddress \in [Ports -> [Slots -> Addr \cup {NoAddr, Marked}]]
      /\ pollFd \in [Ports -> [Slots -> Fds \cup {0, NoFd}]]
  BY DEF TypeInv, TypeOK
<1>1. cliFd'[q][i] = cliFd[q][i]
  BY <1>t DEF Drop, FdsAfterDrop
<1>2. cliIpAddress'[q][i] = cliIpAddress[q][i]
  BY <1>t DEF Drop, AddressesAfterDrop
<1>3. pollFd'[q][i] = pollFd[q][i]
  BY <1>t DEF Drop, PollFdsAfterDrop
<1> QED BY <1>1, <1>2, <1>3

\* Every removal is a Drop of a client in use.
LEMMA RemovalDrops ==
  ASSUME TypeInv, NEW p \in Ports, Removal(p)
  PROVE  /\ Drop(p) /\ loop[p] < sockCnt[p] /\ loop[p] >= 1
         /\ sockCnt' = [sockCnt EXCEPT ![p] = @ - 1]
         /\ sockCnt[p] > 2 => revents' = ReventsAfterDrop(p)
         /\ \E at \in {"poll", "scan", "rewait"} : pc' = [pc EXCEPT ![p] = at]
         /\ UNCHANGED conn
<1>1. Drop(p) /\ pc[p] \in {"sweep", "rmerr", "rmfin"}
  BY DEF Removal, SweepLast, SweepOne, DropFailedLast, DropFailed,
         DropEndedLast, DropEnded
<1>2. loop[p] < sockCnt[p] /\ loop[p] >= 1
  BY <1>1 DEF TypeInv, CountNeverLost, TypeOK
<1>3. sockCnt' = [sockCnt EXCEPT ![p] = @ - 1]
  BY <1>1, <1>2, DropType
<1>4. sockCnt[p] > 2 => revents' = ReventsAfterDrop(p)
  BY DEF Removal, SweepLast, SweepOne, DropFailedLast, DropFailed,
         DropEndedLast, DropEnded
<1>5. \E at \in {"poll", "scan", "rewait"} : pc' = [pc EXCEPT ![p] = at]
  BY DEF Removal, SweepLast, SweepOne, DropFailedLast, DropFailed,
         DropEndedLast, DropEnded, EndPass
<1> QED BY <1>1, <1>2, <1>3, <1>4, <1>5 DEF Drop

-----------------------------------------------------------------------------
\* The steps that leave all of the tables and the count alone.
LEMMA TablesKept ==
  ASSUME [Next]_vars
  PROVE  \/ UNCHANGED <<cliFd, cliIpAddress, pollFd, sockCnt>>
         \/ \E p \in Ports : Removal(p) \/ DupReplace(p) \/ \E f \in Fds : AcceptNew(p, f)
         \/ \E c \in Callers : SendFinishes(c)
<1> USE DEF tables
<1>1. CASE UNCHANGED vars
  BY <1>1 DEF vars
<1>2. CASE Environment
  BY <1>2 DEF Environment, Connect, PeerSends, PeerCloses, PeerResets, AppSends
<1>3. ASSUME NEW c \in Callers, CallStep(c), ~SendFinishes(c)
      PROVE  UNCHANGED <<cliFd, cliIpAddress, pollFd, sockCnt>>
  BY <1>3 DEF CallStep, SendFinds, SendReads, SendMisses, SendSucceeds, SendFails, SendKilled
<1>4. ASSUME NEW p \in Ports, Receiver(p), ~Removal(p), ~DupReplace(p),
             ~\E f \in Fds : AcceptNew(p, f)
      PROVE  UNCHANGED <<cliFd, cliIpAddress, pollFd, sockCnt>>
  BY <1>4 DEF Receiver, Removal, AcceptDuplicate, AcceptFull, PollScan, ScanEnds,
              ScanFindsMarked, ScanSkips, RecvData, RecvEnds, RecvFails, EchoCalls,
              EchoReturns, SweepWaits
<1> QED BY <1>1, <1>2, <1>3, <1>4 DEF Next

-----------------------------------------------------------------------------
(* The two arrays agree.                                                    *)

LEMMA AgreeStep == TypeInv /\ TablesAgree /\ [Next]_vars => TablesAgree'
<1> SUFFICES ASSUME TypeInv, TablesAgree, [Next]_vars
             PROVE  TablesAgree'
  OBVIOUS
<1>t. /\ cliFd \in [Ports -> [Slots -> Fds \cup {0, NoFd}]]
      /\ pollFd \in [Ports -> [Slots -> Fds \cup {0, NoFd}]]
      /\ sockCnt \in [Ports -> 1..ClientMax] /\ ClientMax \in Nat
  BY ServerAssumption DEF TypeInv, TypeOK
<1>1. CASE UNCHANGED <<cliFd, cliIpAddress, pollFd, sockCnt>>
  BY <1>1 DEF TablesAgree, Active
<1>2. ASSUME NEW c \in Callers, SendFinishes(c) PROVE TablesAgree'
  BY <1>2 DEF SendFinishes, TablesAgree, Active
<1>3. ASSUME NEW p \in Ports, DupReplace(p) PROVE TablesAgree'
  <2> SUFFICES ASSUME NEW q \in Ports, NEW i \in Active(q)
               PROVE  pollFd'[q][i] = cliFd'[q][i]
    BY <1>3 DEF DupReplace, TablesAgree, Active
  <2>1. i \in Slots
    BY ActiveSlots
  <2> QED BY <1>3, <1>t, <2>1 DEF DupReplace, TablesAgree
<1>4. ASSUME NEW p \in Ports, NEW f \in Fds, AcceptNew(p, f) PROVE TablesAgree'
  <2> SUFFICES ASSUME NEW q \in Ports, NEW i \in Active(q)'
               PROVE  pollFd'[q][i] = cliFd'[q][i]
    BY DEF TablesAgree
  <2>1. /\ sockCnt' = [sockCnt EXCEPT ![p] = sockCnt[p] + 1]
        /\ pollFd' = [pollFd EXCEPT ![p][sockCnt[p]] = f]
        /\ cliFd' = [cliFd EXCEPT ![p][sockCnt[p]] = f]
        /\ sockCnt[p] < ClientMax
    BY <1>4 DEF AcceptNew, HasRoom
  <2>2. sockCnt[p] \in Slots
    BY <2>1, <1>t DEF Slots
  <2>3. CASE q = p /\ i = sockCnt[p]
    BY <2>1, <2>2, <2>3, <1>t
  <2>4. CASE ~(q = p /\ i = sockCnt[p])
    <3>1. i \in Active(q)
      <4>1. i \in 1..(sockCnt'[q] - 1)
        BY DEF Active
      <4>2. CASE q = p
        <5>1. sockCnt'[q] = sockCnt[q] + 1
          BY <2>1, <4>2, <1>t
        <5>2. sockCnt[q] \in Nat /\ i # sockCnt[q]
          BY <2>4, <4>2, <1>t
        <5> QED BY <4>1, <5>1, <5>2 DEF Active
      <4>3. CASE q # p
        BY <2>1, <4>1, <4>3, <1>t DEF Active
      <4> QED BY <4>2, <4>3
    <3>2. pollFd'[q][i] = pollFd[q][i] /\ cliFd'[q][i] = cliFd[q][i]
      BY <2>1, <2>4, <1>t
    <3> QED BY <3>1, <3>2 DEF TablesAgree
  <2> QED BY <2>3, <2>4
<1>5. ASSUME NEW p \in Ports, Removal(p) PROVE TablesAgree'
  <2> SUFFICES ASSUME NEW q \in Ports, NEW i \in Active(q)'
               PROVE  pollFd'[q][i] = cliFd'[q][i]
    BY DEF TablesAgree
  <2>1. /\ Drop(p) /\ loop[p] < sockCnt[p]
        /\ sockCnt' = [sockCnt EXCEPT ![p] = @ - 1]
    BY <1>5, RemovalDrops
  <2>2. CASE q = p
    <3>1. sockCnt[p] > 2 /\ i \in 1..(sockCnt[p] - 2)
      BY <2>1, <2>2, <1>t DEF Active
    <3>2. PICK from \in {i, i + 1} :
            cliFd'[p][i] = cliFd[p][from] /\ pollFd'[p][i] = pollFd[p][from]
      BY <2>1, <3>1, DropEntry
    <3>3. from \in Active(p)
      BY <3>1, <1>t DEF Active
    <3> QED BY <2>2, <3>2, <3>3 DEF TablesAgree
  <2>3. CASE q # p
    <3>1. i \in Active(q)
      BY <2>1, <2>3, <1>t DEF Active
    <3>2. i \in Slots \ {0}
      BY <3>1, ActiveSlots
    <3> QED BY <2>1, <2>3, <3>1, <3>2, DropOtherPort DEF TablesAgree
  <2> QED BY <2>2, <2>3
<1> QED BY <1>1, <1>2, <1>3, <1>4, <1>5, TablesKept

\* Whatever senders and removals do, a receiver polls and reads at each entry
\* the descriptor that senders send to and removals close.
THEOREM ArraysAgree == Spec => []TablesAgree
<1>1. Init => TablesAgree
  BY DEF Init, TablesAgree, Active
<1> QED BY <1>1, AgreeStep, TypeInvariant, PTL DEF Spec

-----------------------------------------------------------------------------
(* A removal takes out one client.                                          *)

LEMMA SparesStep ==
  ASSUME TypeInv, [Next]_vars, NEW p \in Ports
  PROVE  SparesOthers(p)
<1> SUFFICES ASSUME sockCnt'[p] < sockCnt[p], NEW k \in Active(p) \ {loop[p]}
             PROVE  \E j \in 1..(sockCnt'[p] - 1) :
                      /\ cliFd'[p][j] = cliFd[p][k]
                      /\ cliIpAddress'[p][j] = cliIpAddress[p][k]
                      /\ pollFd'[p][j] = pollFd[p][k]
                      /\ revents'[p][j] = revents[p][k]
  BY DEF SparesOthers
<1>t. /\ sockCnt \in [Ports -> 1..ClientMax] /\ ClientMax \in Nat
      /\ loop[p] \in 1..ClientMax
  BY ServerAssumption DEF TypeInv, TypeOK
<1>1. Removal(p)
  <2>1. CASE UNCHANGED <<cliFd, cliIpAddress, pollFd, sockCnt>>
    BY <2>1, <1>t
  <2>2. ASSUME NEW c \in Callers, SendFinishes(c) PROVE FALSE
    BY <2>2, <1>t DEF SendFinishes
  <2>3. ASSUME NEW q \in Ports, DupReplace(q) PROVE FALSE
    BY <2>3, <1>t DEF DupReplace
  <2>4. ASSUME NEW q \in Ports, NEW f \in Fds, AcceptNew(q, f) PROVE FALSE
    BY <2>4, <1>t DEF AcceptNew
  <2>5. ASSUME NEW q \in Ports, Removal(q) PROVE q = p
    BY <2>5, <1>t, RemovalDrops
  <2> QED BY <2>1, <2>2, <2>3, <2>4, <2>5, TablesKept
<1>2. /\ Drop(p) /\ loop[p] < sockCnt[p] /\ loop[p] >= 1
      /\ sockCnt' = [sockCnt EXCEPT ![p] = @ - 1]
      /\ sockCnt[p] > 2 => revents' = ReventsAfterDrop(p)
  BY <1>1, RemovalDrops
<1> DEFINE j == IF k < loop[p] THEN k ELSE k - 1
<1>3. /\ sockCnt[p] > 2 /\ j \in 1..(sockCnt[p] - 2)
      /\ k = IF j < loop[p] THEN j ELSE j + 1
  BY <1>2, <1>t DEF Active
<1>4. j \in 1..(sockCnt'[p] - 1)
  BY <1>2, <1>3, <1>t
<1> HIDE DEF j
<1>5. /\ cliFd'[p][j] = cliFd[p][k]
      /\ cliIpAddress'[p][j] = cliIpAddress[p][k]
      /\ pollFd'[p][j] = pollFd[p][k]
      /\ ReventsAfterDrop(p)[p][j] = revents[p][k]
  BY <1>2, <1>3, DropEntry
<1>6. revents' = ReventsAfterDrop(p)
  BY <1>2, <1>3
<1>7. revents'[p][j] = revents[p][k]
  BY <1>5, <1>6, Zenon
<1> QED BY <1>4, <1>5, <1>7

\* When a client is dropped, every other client of the port is still in use
\* afterwards with its descriptor, its address and what poll() said of it.
THEOREM OthersSpared == Spec => RemovalSparesOthers
<1>1. TypeInv /\ [Next]_vars => [\A p \in Ports : SparesOthers(p)]_vars
  BY SparesStep
<1> QED BY <1>1, TypeInvariant, PTL DEF Spec, RemovalSparesOthers

-----------------------------------------------------------------------------
(* A client has one entry in use.                                           *)

UniqueInv == OneSlotPerAddress /\ DupInv

\* Marking an entry takes an address away and adds none.
LEMMA UniqueMark ==
  ASSUME TypeInv, UniqueInv, NEW c \in Callers, SendFinishes(c)
  PROVE  UniqueInv'
<1> USE DEF UniqueInv, Active, thread
<1>1. Marked \notin Addr /\ cliIpAddress \in [Ports -> [Slots -> Addr \cup {NoAddr, Marked}]]
  BY ServerAssumption DEF TypeInv, TypeOK
<1>2. \A p \in Ports, i \in Slots : cliIpAddress'[p][i] \in {cliIpAddress[p][i], Marked}
  BY <1>1 DEF SendFinishes
<1>3. UNCHANGED <<sockCnt, pc, conn>>
  BY DEF SendFinishes
<1>4. \A p \in Ports : Active(p) \subseteq Slots
  BY ActiveSlots
<1>5. OneSlotPerAddress'
  BY <1>2, <1>3, <1>4 DEF OneSlotPerAddress
<1>6. DupInv'
  BY <1>1, <1>2, <1>3, <1>4 DEF DupInv
<1> QED BY <1>5, <1>6

\* The search stops at the entry in use, or at one left over behind the last.
LEMMA UniqueDuplicate ==
  ASSUME TypeInv, UniqueInv, NEW p \in Ports, NEW f \in Fds, AcceptDuplicate(p, f)
  PROVE  UniqueInv'
<1> DEFINE a == Head(pending[p])
<1>t. /\ conn \in [Ports -> Connection] /\ pc \in [Ports -> PcValues]
      /\ sockCnt[p] \in 1..ClientMax /\ ClientMax \in Nat /\ Marked \notin Addr
  BY ServerAssumption DEF TypeInv, TypeOK
<1>1. a \in Addr
  BY DEF AcceptDuplicate, Accepting, TypeInv, TypeOK
<1>2. PICK k \in Slots :
        /\ IsFirst(p, a, 1, k)
        /\ conn' = [conn EXCEPT ![p] = [fd |-> f, ip |-> a, slot |-> k]]
  BY DEF AcceptDuplicate
<1>3. UNCHANGED <<cliIpAddress, sockCnt>> /\ pc' = [pc EXCEPT ![p] = "dup"]
  BY DEF AcceptDuplicate, tables
<1>4. ASSUME NEW i \in Active(p), cliIpAddress[p][i] = a
      PROVE  i = k
  <2>1. i \in Slots /\ i >= 1 /\ i < sockCnt[p] /\ k \in Int /\ k >= 1
    BY <1>2, <1>t, ActiveSlots DEF Active, IsFirst, Slots
  <2>2. ~(i < k)
    BY <1>2, <1>4, <2>1 DEF IsFirst
  <2>3. CASE k < i
    <3>1. k \in Active(p)
      BY <2>1, <2>3, <1>t DEF Active
    <3>2. cliIpAddress[p][k] = a
      BY <1>2 DEF IsFirst
    <3> QED BY <1>1, <1>4, <1>t, <3>1, <3>2 DEF UniqueInv, OneSlotPerAddress
  <2> QED BY <2>1, <2>2, <2>3, <1>t
<1>5. OneSlotPerAddress'
  BY <1>3 DEF UniqueInv, OneSlotPerAddress, Active
<1>6. DupInv'
  <2> SUFFICES ASSUME NEW q \in Ports, pc'[q] = "dup"
               PROVE  /\ conn'[q].ip \in Addr
                      /\ \A i \in Active(q) : cliIpAddress[q][i] = conn'[q].ip
                                                => i = conn'[q].slot
    BY <1>3 DEF DupInv, Active
  <2>1. CASE q = p
    <3>1. conn'[q].ip = a /\ conn'[q].slot = k
      BY <2>1, <1>2, <1>t
    <3> QED BY <2>1, <3>1, <1>1, <1>4
  <2>2. CASE q # p
    <3>1. conn'[q] = conn[q] /\ pc[q] = "dup"
      BY <2>2, <1>2, <1>3, <1>t
    <3> QED BY <3>1 DEF UniqueInv, DupInv
  <2> QED BY <2>1, <2>2
<1> QED BY <1>5, <1>6 DEF UniqueInv

\* Nothing in the table has the address of a client that takes a new entry.
LEMMA UniqueNew ==
  ASSUME TypeInv, UniqueInv, NEW p \in Ports, NEW f \in Fds, AcceptNew(p, f)
  PROVE  UniqueInv'
<1> DEFINE a == Head(pending[p])
           n == sockCnt[p]
<1>t. /\ cliIpAddress \in [Ports -> [Slots -> Addr \cup {NoAddr, Marked}]]
      /\ sockCnt \in [Ports -> 1..ClientMax] /\ ClientMax \in Nat
  BY ServerAssumption DEF TypeInv, TypeOK
<1>1. /\ sockCnt' = [sockCnt EXCEPT ![p] = n + 1] /\ n < ClientMax
      /\ cliIpAddress' = [cliIpAddress EXCEPT ![p][n] = a]
      /\ UNCHANGED <<pc, conn>> /\ pc[p] = "poll"
      /\ \A k \in Slots : k >= 1 => cliIpAddress[p][k] # a
  BY DEF AcceptNew, HasRoom, IsListed, Accepting, thread
<1>2. n \in Slots /\ n \in 1..ClientMax
  BY <1>1, <1>t DEF Slots
<1>3. ASSUME NEW q \in Ports, q # p
      PROVE  cliIpAddress'[q] = cliIpAddress[q] /\ sockCnt'[q] = sockCnt[q]
  BY <1>1, <1>3, <1>t
<1>4. ASSUME NEW i \in 1..n
      PROVE  /\ i \in Slots
             /\ cliIpAddress'[p][i] = IF i = n THEN a ELSE cliIpAddress[p][i]
             /\ i # n => i \in Active(p) /\ cliIpAddress[p][i] # a
  <2>1. i \in Slots
    BY <1>1, <1>2, <1>t DEF Slots
  <2>2. i # n => i \in Active(p)
    BY <1>2 DEF Active
  <2> QED BY <1>1, <1>2, <1>t, <2>1, <2>2
<1>5. OneSlotPerAddress'
  <2> SUFFICES ASSUME NEW q \in Ports, NEW i \in 1..(sockCnt'[q] - 1),
                      NEW j \in 1..(sockCnt'[q] - 1),
                      cliIpAddress'[q][i] = cliIpAddress'[q][j], i # j
               PROVE  cliIpAddress'[q][i] = Marked
    BY DEF OneSlotPerAddress, Active
  <2>1. CASE q = p
    <3>1. i \in 1..n /\ j \in 1..n
      BY <1>1, <1>2, <1>t, <2>1
    <3>2. i # n /\ j # n
      BY <1>4, <2>1, <3>1
    <3>3. /\ i \in Active(p) /\ j \in Active(p)
          /\ cliIpAddress'[p][i] = cliIpAddress[p][i]
          /\ cliIpAddress'[p][j] = cliIpAddress[p][j]
      BY <1>4, <3>1, <3>2
    <3> QED BY <2>1, <3>3 DEF UniqueInv, OneSlotPerAddress
  <2>2. CASE q # p
    BY <1>3, <2>2 DEF UniqueInv, OneSlotPerAddress, Active
  <2> QED BY <2>1, <2>2
<1>6. DupInv'
  BY <1>1, <1>3 DEF UniqueInv, DupInv, Active
<1> QED BY <1>5, <1>6 DEF UniqueInv

\* The entry replaced is the one the address had, or one not in use.
LEMMA UniqueReplace ==
  ASSUME TypeInv, UniqueInv, NEW p \in Ports, DupReplace(p)
  PROVE  UniqueInv'
<1> DEFINE k == conn[p].slot
           a == conn[p].ip
<1>t. /\ cliIpAddress \in [Ports -> [Slots -> Addr \cup {NoAddr, Marked}]]
      /\ conn \in [Ports -> Connection] /\ pc \in [Ports -> PcValues]
      /\ k \in Slots
  BY DEF TypeInv, TypeOK, Connection
<1>1. /\ cliIpAddress' = [cliIpAddress EXCEPT ![p][k] = a]
      /\ pc[p] = "dup" /\ pc' = [pc EXCEPT ![p] = "poll"]
      /\ conn' = [conn EXCEPT ![p] = NoConn]
      /\ UNCHANGED sockCnt
  BY DEF DupReplace
<1>2. \A i \in Active(p) : cliIpAddress[p][i] = a => i = k
  BY <1>1 DEF UniqueInv, DupInv
<1>3. \A i \in Slots : cliIpAddress'[p][i] = IF i = k THEN a ELSE cliIpAddress[p][i]
  BY <1>1, <1>t
<1>4. \A q \in Ports : q # p => cliIpAddress'[q] = cliIpAddress[q]
  BY <1>1, <1>t
<1>5. \A q \in Ports : Active(q) \subseteq Slots /\ Active(q)' = Active(q)
  BY <1>1, ActiveSlots DEF Active
<1>6. OneSlotPerAddress'
  <2> SUFFICES ASSUME NEW q \in Ports, NEW i \in Active(q), NEW j \in Active(q),
                      cliIpAddress'[q][i] = cliIpAddress'[q][j], i # j
               PROVE  cliIpAddress'[q][i] = Marked
    BY <1>5 DEF OneSlotPerAddress
  <2>1. CASE q = p
    <3>1. i # k /\ j # k
      BY <1>2, <1>3, <1>5, <2>1
    <3> QED BY <1>3, <1>5, <2>1, <3>1 DEF UniqueInv, OneSlotPerAddress
  <2>2. CASE q # p
    BY <1>4, <2>2 DEF UniqueInv, OneSlotPerAddress
  <2> QED BY <2>1, <2>2
<1>7. DupInv'
  BY <1>1, <1>4, <1>5, <1>t DEF UniqueInv, DupInv
<1> QED BY <1>6, <1>7 DEF UniqueInv

\* A removal moves entries down; those in use stay apart.
LEMMA UniqueRemoval ==
  ASSUME TypeInv, UniqueInv, NEW p \in Ports, Removal(p)
  PROVE  UniqueInv'
<1>t. /\ sockCnt \in [Ports -> 1..ClientMax] /\ ClientMax \in Nat
      /\ pc \in [Ports -> PcValues]
  BY ServerAssumption DEF TypeInv, TypeOK
<1>1. /\ Drop(p) /\ loop[p] < sockCnt[p] /\ loop[p] >= 1 /\ loop[p] \in Nat
      /\ sockCnt' = [sockCnt EXCEPT ![p] = @ - 1]
      /\ \E at \in {"poll", "scan", "rewait"} : pc' = [pc EXCEPT ![p] = at]
      /\ UNCHANGED conn
  BY RemovalDrops DEF TypeInv, TypeOK
<1>2. ASSUME NEW q \in Ports, q # p
      PROVE  /\ Active(q)' = Active(q)
             /\ \A i \in Active(q) : cliIpAddress'[q][i] = cliIpAddress[q][i]
  <2>1. Active(q)' = Active(q)
    BY <1>1, <1>2, <1>t DEF Active
  <2>2. Active(q) \subseteq Slots \ {0}
    BY ActiveSlots
  <2> QED BY <1>1, <1>2, <2>1, <2>2, DropOtherPort
<1> DEFINE From(i) == IF i < loop[p] THEN i ELSE i + 1
<1>3. ASSUME NEW i \in Active(p)'
      PROVE  From(i) \in Active(p) /\ cliIpAddress'[p][i] = cliIpAddress[p][From(i)]
  <2>1. sockCnt[p] > 2 /\ i \in 1..(sockCnt[p] - 2)
    BY <1>1, <1>t DEF Active
  <2>2. cliIpAddress'[p][i] = cliIpAddress[p][From(i)]
    BY <1>1, <2>1, DropEntry
  <2>3. From(i) \in Active(p)
    BY <2>1, <1>t DEF Active
  <2> QED BY <2>2, <2>3
<1>4. OneSlotPerAddress'
  <2> SUFFICES ASSUME NEW q \in Ports, NEW i \in Active(q)', NEW j \in Active(q)',
                      cliIpAddress'[q][i] = cliIpAddress'[q][j], i # j
               PROVE  cliIpAddress'[q][i] = Marked
    BY DEF OneSlotPerAddress
  <2>1. CASE q = p
    <3>1. From(i) # From(j)
      BY <1>1, <1>t, <2>1 DEF Active
    <3>2. /\ From(i) \in Active(p) /\ From(j) \in Active(p)
          /\ cliIpAddress'[p][i] = cliIpAddress[p][From(i)]
          /\ cliIpAddress'[p][j] = cliIpAddress[p][From(j)]
      BY <1>3, <2>1
    <3> HIDE DEF From
    <3> QED BY <2>1, <3>1, <3>2 DEF UniqueInv, OneSlotPerAddress
  <2>2. CASE q # p
    BY <1>2, <2>2 DEF UniqueInv, OneSlotPerAddress
  <2> QED BY <2>1, <2>2
<1>5. DupInv'
  BY <1>1, <1>2, <1>t DEF UniqueInv, DupInv
<1> QED BY <1>4, <1>5 DEF UniqueInv

\* A receiver about to replace an entry has just found it, or was about to.
LEMMA DupWaits ==
  ASSUME TypeInv, [Next]_vars, NEW q \in Ports, pc'[q] = "dup",
         ~\E f \in Fds : AcceptDuplicate(q, f)
  PROVE  pc[q] = "dup" /\ conn'[q] = conn[q]
<1>t. pc \in [Ports -> PcValues] /\ conn \in [Ports -> Connection]
  BY DEF TypeInv, TypeOK
<1> USE DEF thread
<1>1. CASE UNCHANGED vars
  BY <1>1 DEF vars
<1>2. CASE Environment
  BY <1>2 DEF Environment, Connect, PeerSends, PeerCloses, PeerResets, AppSends
<1>3. ASSUME NEW c \in Callers, CallStep(c)
      PROVE  pc[q] = "dup" /\ conn'[q] = conn[q]
  BY <1>3 DEF CallStep, SendFinds, SendReads, SendMisses, SendSucceeds, SendFails, SendKilled,
              SendFinishes
<1>4. ASSUME NEW p \in Ports, NEW f \in Fds, AcceptDuplicate(p, f)
      PROVE  pc[q] = "dup" /\ conn'[q] = conn[q]
  <2>1. p # q
    BY <1>4
  <2>2. pc' = [pc EXCEPT ![p] = "dup"] /\ \E x : conn' = [conn EXCEPT ![p] = x]
    BY <1>4 DEF AcceptDuplicate
  <2> QED BY <1>t, <2>1, <2>2
<1>5. ASSUME NEW p \in Ports, DupReplace(p)
      PROVE  pc[q] = "dup" /\ conn'[q] = conn[q]
  <2>1. pc' = [pc EXCEPT ![p] = "poll"] /\ conn' = [conn EXCEPT ![p] = NoConn]
    BY <1>5 DEF DupReplace
  <2> QED BY <1>t, <2>1
<1>6. ASSUME NEW p \in Ports, Removal(p)
      PROVE  pc[q] = "dup" /\ conn'[q] = conn[q]
  BY <1>6, <1>t, RemovalDrops
<1>7. ASSUME NEW p \in Ports, Receiver(p), ~Removal(p), ~DupReplace(p),
             ~\E f \in Fds : AcceptDuplicate(p, f)
      PROVE  pc[q] = "dup" /\ conn'[q] = conn[q]
  <2>1. UNCHANGED conn
    BY <1>7 DEF Receiver, Removal, AcceptNew, AcceptFull, PollScan, ScanEnds,
       ScanFindsMarked, ScanSkips, RecvData, RecvEnds, RecvFails, EchoCalls,
       EchoReturns, SweepWaits, Goes
  <2>2. \/ UNCHANGED pc
        \/ \E at \in PcValues \ {"dup"} : pc' = [pc EXCEPT ![p] = at]
    BY <1>7 DEF Receiver, Removal, AcceptNew, AcceptFull, PollScan, ScanEnds, EndPass,
       ScanFindsMarked, ScanSkips, RecvData, RecvEnds, RecvFails, EchoCalls,
       EchoReturns, SweepWaits, Goes, PcValues
  <2> QED BY <1>t, <2>1, <2>2
<1> QED BY <1>1, <1>2, <1>3, <1>4, <1>5, <1>6, <1>7 DEF Next

\* Every other step leaves the addresses and the count alone, and comes to no
\* replacement that was not already found.
LEMMA UniqueRest ==
  ASSUME TypeInv, UniqueInv, [Next]_vars,
         ~\E p \in Ports : \/ Removal(p) \/ DupReplace(p)
                           \/ \E f \in Fds : AcceptNew(p, f) \/ AcceptDuplicate(p, f),
         ~\E c \in Callers : SendFinishes(c)
  PROVE  UniqueInv'
<1>1. UNCHANGED <<cliIpAddress, sockCnt>>
  BY TablesKept
<1>2. \A p \in Ports : pc'[p] = "dup" => pc[p] = "dup" /\ conn'[p] = conn[p]
  BY DupWaits
<1>3. OneSlotPerAddress'
  BY <1>1 DEF UniqueInv, OneSlotPerAddress, Active
<1>4. DupInv'
  BY <1>1, <1>2 DEF UniqueInv, DupInv, Active
<1> QED BY <1>3, <1>4 DEF UniqueInv

LEMMA UniqueStep == TypeInv /\ UniqueInv /\ [Next]_vars => UniqueInv'
BY UniqueMark, UniqueDuplicate, UniqueNew, UniqueReplace, UniqueRemoval, UniqueRest

LEMMA UniqueInvariant == Spec => []UniqueInv
<1>1. Init => UniqueInv
  <2>1. Init => OneSlotPerAddress
    BY DEF Init, OneSlotPerAddress, Active
  <2>2. Init => DupInv
    BY DEF Init, DupInv
  <2> QED BY <2>1, <2>2 DEF UniqueInv
<1> QED BY <1>1, UniqueStep, TypeInvariant, PTL DEF Spec

\* However connections, removals and marks are interleaved, no address has two
\* entries in use on a port: a message to it has one receiver.
THEOREM AddressesUnique == Spec => []OneSlotPerAddress
<1>1. UniqueInv => OneSlotPerAddress
  BY DEF UniqueInv
<1> QED BY <1>1, UniqueInvariant, PTL

=============================================================================
