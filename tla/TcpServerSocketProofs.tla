------------------------ MODULE TcpServerSocketProofs ------------------------
(***************************************************************************)
(* The entries of TcpServer that are not in use, and its sockets.  What    *)
(* removals leave behind stays next to the entries in use as long as the   *)
(* semaphores are locks; and while no client connects twice, every socket  *)
(* has one entry, and recv() is only called where poll() saw something.    *)
(***************************************************************************)
EXTENDS TcpServerTableProofs

(* Entries left behind.                                                     *)

InRange(p, k) == k <= 2 \/ k <= sockCnt[p]

\* A search that stops at an entry left behind keeps its index across a wait:
\* a replacement across sem_wait, a call across send().  Both stay in range.
HeldInRange(p) ==
  /\ pc[p] = "dup" => InRange(p, conn[p].slot)
  /\ \A c \in Callers : Holds(c, p) => InRange(p, call[c].slot)

\* No search is for a zeroed address, which every free entry has, and none
\* starts with an index.
Named ==
  /\ \A p \in Ports : \A k \in Active(p) : cliIpAddress[p][k] # NoAddr
  /\ \A c \in Callers : call[c].at # "none" => call[c].addr # NoAddr
  /\ \A c \in Callers : call[c].at = "wait" => call[c].slot = 0

LeftInv(p) == StaleConfined(p) /\ HeldInRange(p)

\* A step of a call changes that call only, keeps its address, and gives it the
\* index its search stopped at.
LEMMA CallMoves ==
  ASSUME TypeInv, NEW c \in Callers, CallStep(c)
  PROVE  /\ \A d \in Callers : d # c => call'[d] = call[d]
         /\ call'[c].at # "none" =>
              call[c].at # "none" /\ call'[c].addr = call[c].addr
         /\ call'[c].at = "wait" => call'[c].slot = 0
         /\ call'[c].at \in {"found", "send", "finish"} =>
              /\ call'[c].todo = call[c].todo
              /\ \/ call'[c].slot = call[c].slot
                 \/ IsFirst(PortOf(c), call[c].addr, 0, call'[c].slot)
<1>t. call \in [Callers -> Call]
  BY DEF TypeInv, TypeOK
<1>1. CASE SendFinds(c)
  <2>1. PICK k \in Slots :
          /\ IsFirst(PortOf(c), call[c].addr, 0, k)
          /\ call' = [call EXCEPT ![c].at = "found", ![c].slot = k]
    BY <1>1 DEF SendFinds
  <2>2. call[c].at = "wait"
    BY <1>1 DEF SendFinds
  <2>3. call'[c] = [call[c] EXCEPT !.at = "found", !.slot = k]
    BY <2>1, <1>t
  <2>4. /\ call'[c].at = "found" /\ call'[c].slot = k
        /\ call'[c].addr = call[c].addr /\ call'[c].todo = call[c].todo
    BY <2>3, <1>t DEF Call
  <2> QED BY <1>t, <2>1, <2>2, <2>4
<1>2. CASE SendReads(c) \/ SendMisses(c)
  BY <1>2, <1>t DEF SendReads, SendMisses, Call
<1>3. CASE SendSucceeds(c)
  BY <1>3, <1>t DEF SendSucceeds, Call
<1>4. CASE SendFails(c)
  BY <1>4, <1>t DEF SendFails, Call
<1>5. CASE SendKilled(c)
  BY <1>5, <1>t DEF SendKilled, Call
<1>6. CASE SendFinishes(c)
  <2>1. /\ NoCall.at = "none"
        /\ \A left, a : /\ NewCall(left, a).at = "wait" /\ NewCall(left, a).addr = a
                        /\ NewCall(left, a).slot = 0
    BY DEF NewCall, NoCall
  <2>2. \/ call' = [call EXCEPT ![c] = NoCall]
        \/ call' = [call EXCEPT ![c] = NewCall(call[c].todo \ {PortOf(c)}, call[c].addr)]
    BY <1>6 DEF SendFinishes
  <2>3. call[c].at = "finish"
    BY <1>6 DEF SendFinishes
  <2> QED BY <2>1, <2>2, <2>3, <1>t
<1> QED BY <1>1, <1>2, <1>3, <1>4, <1>5, <1>6 DEF CallStep

\* Calls change by their own steps, an echo, or an application's call.
LEMMA CallsKept ==
  ASSUME [Next]_vars
  PROVE  \/ UNCHANGED call
         \/ \E c \in Callers : CallStep(c)
         \/ \E p \in Ports : EchoCalls(p)
         \/ \E s \in Senders, ports \in SUBSET Ports, a \in Addr : AppSends(s, ports, a)
<1>1. CASE Environment
  BY <1>1 DEF Environment, Connect, PeerSends, PeerCloses, PeerResets
<1>2. ASSUME NEW p \in Ports, Receiver(p), ~EchoCalls(p) PROVE UNCHANGED call
  BY <1>2 DEF Receiver, AcceptDuplicate, AcceptNew, AcceptFull, DupReplace, PollScan,
       ScanEnds, ScanFindsMarked, ScanSkips, RecvData, RecvEnds, RecvFails,
       EchoReturns, SweepWaits, SweepLast, SweepOne, DropFailedLast, DropFailed,
       DropEndedLast, DropEnded, Drop
<1> QED BY <1>1, <1>2 DEF Next, vars

LEMMA HeadWaits ==
  ASSUME TypeInv, NEW p \in Ports, NEW f \in Fds, Accepting(p, f)
  PROVE  Head(pending[p]) \in Addr
<1>1. pending[p] \in Seq(Addr) /\ pending[p] # << >>
  BY DEF Accepting, TypeInv, TypeOK
<1> QED BY <1>1

LEMMA NamedStep == TypeInv /\ UniqueInv /\ Named /\ [Next]_vars => Named'
<1> SUFFICES ASSUME TypeInv, UniqueInv, Named, [Next]_vars
             PROVE  Named'
  OBVIOUS
<1>t. /\ cliIpAddress \in [Ports -> [Slots -> Addr \cup {NoAddr, Marked}]]
      /\ sockCnt \in [Ports -> 1..ClientMax] /\ ClientMax \in Nat
      /\ loop \in [Ports -> 1..ClientMax] /\ call \in [Callers -> Call]
      /\ conn \in [Ports -> Connection]
      /\ NoAddr \notin Addr /\ NoAddr # Marked
  BY ServerAssumption DEF TypeInv, TypeOK, NoAddr, Marked
<1>1. ASSUME NEW p \in Ports, NEW k \in Active(p)'
      PROVE  cliIpAddress'[p][k] # NoAddr
  <2>n. \A q \in Ports : \A i \in Active(q) : i \in Slots /\ cliIpAddress[q][i] # NoAddr
    BY ActiveSlots DEF Named
  <2>1. CASE UNCHANGED <<cliFd, cliIpAddress, pollFd, sockCnt>>
    BY <1>1, <2>1, <2>n DEF Active
  <2>2. ASSUME NEW c \in Callers, SendFinishes(c) PROVE cliIpAddress'[p][k] # NoAddr
    <3>1. Active(p)' = Active(p)
      BY <2>2 DEF SendFinishes, Active
    <3>2. cliIpAddress'[p][k] \in {cliIpAddress[p][k], Marked}
      BY <2>2, <3>1, <1>1, <2>n, <1>t DEF SendFinishes
    <3> QED BY <3>1, <3>2, <1>1, <1>t, <2>n
  <2>3. ASSUME NEW q \in Ports, DupReplace(q) PROVE cliIpAddress'[p][k] # NoAddr
    <3>1. Active(p)' = Active(p) /\ conn[q].ip \in Addr /\ conn[q].slot \in Slots
      BY <2>3, <1>t DEF DupReplace, Active, UniqueInv, DupInv, Connection
    <3>2. cliIpAddress'[p][k] \in {cliIpAddress[p][k], conn[q].ip}
      BY <2>3, <3>1, <1>1, <2>n, <1>t DEF DupReplace
    <3> QED BY <3>1, <3>2, <1>1, <1>t, <2>n
  <2>4. ASSUME NEW q \in Ports, NEW f \in Fds, AcceptNew(q, f)
        PROVE  cliIpAddress'[p][k] # NoAddr
    <3>1. /\ sockCnt' = [sockCnt EXCEPT ![q] = sockCnt[q] + 1]
          /\ cliIpAddress' = [cliIpAddress EXCEPT ![q][sockCnt[q]] = Head(pending[q])]
          /\ sockCnt[q] < ClientMax
      BY <2>4 DEF AcceptNew, HasRoom
    <3>2. sockCnt[q] \in Slots
      BY <3>1, <1>t DEF Slots
    <3>h. Head(pending[q]) \in Addr
      BY <2>4, HeadWaits DEF AcceptNew
    <3>3. CASE p = q /\ k = sockCnt[q]
      BY <3>1, <3>2, <3>h, <3>3, <1>t
    <3>4. CASE ~(p = q /\ k = sockCnt[q])
      <4>1. k \in Active(p)
        BY <1>1, <3>1, <3>4, <1>t DEF Active
      <4>2. cliIpAddress'[p][k] = cliIpAddress[p][k]
        BY <3>1, <3>4, <1>t
      <4> QED BY <4>1, <4>2, <2>n
    <3> QED BY <3>3, <3>4
  <2>5. ASSUME NEW q \in Ports, Removal(q) PROVE cliIpAddress'[p][k] # NoAddr
    <3>1. /\ Drop(q) /\ loop[q] < sockCnt[q]
          /\ sockCnt' = [sockCnt EXCEPT ![q] = @ - 1]
      BY <2>5, RemovalDrops
    <3>2. CASE p = q
      <4>1. sockCnt[p] > 2 /\ k \in 1..(sockCnt[p] - 2)
        BY <1>1, <3>1, <3>2, <1>t DEF Active
      <4>2. PICK from \in {k, k + 1} : cliIpAddress'[p][k] = cliIpAddress[p][from]
        BY <3>1, <3>2, <4>1, DropEntry
      <4>3. from \in Active(p)
        BY <4>1, <1>t DEF Active
      <4> QED BY <4>2, <4>3, <2>n
    <3>3. CASE p # q
      <4>1. k \in Active(p)
        BY <1>1, <3>1, <3>3, <1>t DEF Active
      <4>2. k \in Slots \ {0}
        BY <4>1, ActiveSlots
      <4> QED BY <3>1, <3>3, <4>1, <4>2, <2>n, DropOtherPort
    <3> QED BY <3>2, <3>3
  <2> QED BY <2>1, <2>2, <2>3, <2>4, <2>5, TablesKept
<1>2. ASSUME NEW c \in Callers
      PROVE  /\ call'[c].at # "none" => call'[c].addr # NoAddr
             /\ call'[c].at = "wait" => call'[c].slot = 0
  <2> DEFINE Fresh(d) == /\ d.at # "none" => d.addr # NoAddr
                         /\ d.at = "wait" => d.slot = 0
  <2>n. \A d \in Callers : Fresh(call[d])
    BY DEF Named
  <2>1. CASE UNCHANGED call
    BY <2>1, <2>n
  <2>2. ASSUME NEW d \in Callers, CallStep(d) PROVE Fresh(call'[c])
    BY <2>2, <2>n, CallMoves
  <2>3. ASSUME NEW p \in Ports, EchoCalls(p) PROVE Fresh(call'[c])
    <3>1. pc[p] = "received" /\ loop[p] < sockCnt[p] /\ loop[p] \in 1..ClientMax
      BY <2>3, <1>t DEF EchoCalls, TypeInv, CountNeverLost
    <3>2. loop[p] \in Active(p)
      BY <3>1, <1>t DEF Active
    <3>3. call' = [call EXCEPT ![p] = NewCall({p}, cliIpAddress[p][loop[p]])]
      BY <2>3 DEF EchoCalls
    <3>4. Fresh(NewCall({p}, cliIpAddress[p][loop[p]]))
      BY <3>2 DEF NewCall, NoCall, Named
    <3> HIDE DEF Fresh
    <3> QED BY <3>3, <3>4, <1>t, <2>n
  <2>4. ASSUME NEW s \in Senders, NEW ports \in SUBSET Ports, NEW a \in Addr,
               AppSends(s, ports, a)
        PROVE  Fresh(call'[c])
    <3>1. call' = [call EXCEPT ![s] = NewCall(ports, a)]
      BY <2>4 DEF AppSends
    <3>2. Fresh(NewCall(ports, a))
      BY <1>t DEF NewCall, NoCall
    <3> HIDE DEF Fresh
    <3> QED BY <3>1, <3>2, <1>t, <2>n
  <2> QED BY <2>1, <2>2, <2>3, <2>4, CallsKept
<1> QED BY <1>1, <1>2 DEF Named

\* A removal clears one past the entries it leaves in use, and what is further
\* away it does not touch.
LEMMA StaleRemoval ==
  ASSUME TypeInv, NEW p \in Ports, StaleConfined(p), NEW q \in Ports, Removal(q)
  PROVE  StaleConfined(p)'
<1>t. /\ cliIpAddress \in [Ports -> [Slots -> Addr \cup {NoAddr, Marked}]]
      /\ sockCnt \in [Ports -> 1..ClientMax] /\ ClientMax \in Nat
      /\ loop[q] \in 1..ClientMax
  BY ServerAssumption DEF TypeInv, TypeOK
<1>1. /\ Drop(q) /\ loop[q] < sockCnt[q] /\ loop[q] >= 1
      /\ sockCnt' = [sockCnt EXCEPT ![q] = @ - 1]
  BY RemovalDrops
<1> SUFFICES ASSUME NEW i \in Slots, cliIpAddress'[p][i] # NoAddr, i > 2
             PROVE  i <= sockCnt'[p]
  BY <1>t, <1>1 DEF StaleConfined, Slots
<1>2. CASE p # q
  <2>1. cliIpAddress'[p][i] = cliIpAddress[p][i]
    BY <1>1, <1>2, DropOtherPort DEF Slots
  <2>2. sockCnt'[p] = sockCnt[p]
    BY <1>1, <1>2, <1>t
  <2> QED BY <2>1, <2>2 DEF StaleConfined, Slots
<1>3. CASE p = q
  <2> DEFINE n == sockCnt[p]
             k == loop[p]
  <2>1. Port1 # Port2 /\ 0 # i /\ n \in 2..ClientMax /\ i \in Int
    BY <1>1, <1>3, <1>t DEF Port1, Port2, Slots
  <2>2. cliIpAddress'[p][i] = CloseGap(cliIpAddress[p], k, n, NoAddr, NoAddr)[i]
    BY <1>1, <1>3, <1>t, <2>1 DEF Drop, AddressesAfterDrop
  <2>3. sockCnt'[p] = n - 1
    BY <1>1, <1>3, <1>t
  <2>4. cliIpAddress[p][i] # NoAddr => i <= n
    BY DEF StaleConfined, Slots
  <2>5. k \in Int /\ k < n
    BY <1>1, <1>3, <1>t
  <2> HIDE DEF n, k
  <2>6. ASSUME i > n - 1
        PROVE  /\ i = n => CloseGap(cliIpAddress[p], k, n, NoAddr, NoAddr)[i] = NoAddr
               /\ i > n => CloseGap(cliIpAddress[p], k, n, NoAddr, NoAddr)[i]
                             = cliIpAddress[p][i]
    BY <2>1, <2>5, <2>6 DEF CloseGap
  <2> QED BY <2>1, <2>2, <2>3, <2>4, <2>6
<1> QED BY <1>2, <1>3

LEMMA StaleStep ==
  ASSUME TypeInv, [Next]_vars, NEW p \in Ports, LeftInv(p)
  PROVE  StaleConfined(p)'
<1>t. /\ cliIpAddress \in [Ports -> [Slots -> Addr \cup {NoAddr, Marked}]]
      /\ sockCnt \in [Ports -> 1..ClientMax] /\ ClientMax \in Nat
      /\ call \in [Callers -> Call] /\ conn \in [Ports -> Connection]
  BY ServerAssumption DEF TypeInv, TypeOK
<1> USE DEF LeftInv, StaleConfined, InRange
<1>1. CASE UNCHANGED <<cliFd, cliIpAddress, pollFd, sockCnt>>
  BY <1>1
<1>2. ASSUME NEW c \in Callers, SendFinishes(c) PROVE StaleConfined(p)'
  <2>1. UNCHANGED sockCnt
    BY <1>2 DEF SendFinishes
  <2>2. CASE cliIpAddress'[p] = cliIpAddress[p]
    BY <2>1, <2>2
  <2>3. CASE cliIpAddress'[p] # cliIpAddress[p]
    <3>1. cliIpAddress' = [cliIpAddress EXCEPT ![PortOf(c)][call[c].slot] = Marked]
      BY <1>2, <2>3 DEF SendFinishes
    <3>2. p = PortOf(c) /\ Holds(c, p)
      BY <1>2, <2>3, <3>1, <1>t DEF SendFinishes, Holds
    <3>3. InRange(p, call[c].slot)
      BY <3>2 DEF HeldInRange
    <3> QED BY <2>1, <3>1, <3>2, <3>3, <1>t DEF Call
  <2> QED BY <2>2, <2>3
<1>3. ASSUME NEW q \in Ports, DupReplace(q) PROVE StaleConfined(p)'
  <2>1. UNCHANGED sockCnt
    BY <1>3 DEF DupReplace
  <2>2. cliIpAddress' = [cliIpAddress EXCEPT ![q][conn[q].slot] = conn[q].ip]
    BY <1>3 DEF DupReplace
  <2>3. p = q => InRange(p, conn[p].slot)
    BY <1>3 DEF DupReplace, HeldInRange
  <2> QED BY <2>1, <2>2, <2>3, <1>t DEF Connection
<1>4. ASSUME NEW q \in Ports, NEW f \in Fds, AcceptNew(q, f) PROVE StaleConfined(p)'
  <2>1. /\ sockCnt' = [sockCnt EXCEPT ![q] = sockCnt[q] + 1]
        /\ cliIpAddress' = [cliIpAddress EXCEPT ![q][sockCnt[q]] = Head(pending[q])]
    BY <1>4 DEF AcceptNew
  <2> QED BY <2>1, <1>t DEF Slots
<1>5. ASSUME NEW q \in Ports, Removal(q) PROVE StaleConfined(p)'
  BY <1>5, StaleRemoval
<1> QED BY <1>1, <1>2, <1>3, <1>4, <1>5, TablesKept

LEMMA HeldStep ==
  ASSUME TypeInv, UniqueInv, Named, [Next]_vars, NEW p \in Ports, IsLock(p), LeftInv(p)
  PROVE  HeldInRange(p)'
<1>t. /\ cliIpAddress \in [Ports -> [Slots -> Addr \cup {NoAddr, Marked}]]
      /\ sockCnt \in [Ports -> 1..ClientMax] /\ ClientMax \in Nat
      /\ call \in [Callers -> Call] /\ conn \in [Ports -> Connection]
      /\ pc \in [Ports -> PcValues]
      /\ Port1 \in Ports
  BY ServerAssumption DEF TypeInv, TypeOK, Ports
<1>s. \A k \in Slots : cliIpAddress[p][k] # NoAddr => InRange(p, k)
  BY DEF LeftInv, StaleConfined, InRange
<1>1. CASE Removal(p)
  <2>1. CanWait(p) /\ UNCHANGED <<call, conn>> /\ pc'[p] # "dup"
    BY <1>1, <1>t, RemovalDrops DEF Drop
  <2>2. \A c \in Callers : ~Holds(c, p)
    BY <2>1, WaitsFree, HoldersAre
  <2>3. \A c \in Callers : ~Holds(c, p)'
    BY <2>1, <2>2 DEF Holds, PortOf
  <2> QED BY <2>1, <2>3 DEF HeldInRange
<1>2. CASE ~Removal(p)
  <2>1. sockCnt'[p] >= sockCnt[p]
    <3>1. CASE UNCHANGED <<cliFd, cliIpAddress, pollFd, sockCnt>>
      BY <3>1, <1>t
    <3>2. ASSUME NEW c \in Callers, SendFinishes(c) PROVE sockCnt' = sockCnt
      BY <3>2 DEF SendFinishes
    <3>3. ASSUME NEW q \in Ports, DupReplace(q) PROVE sockCnt' = sockCnt
      BY <3>3 DEF DupReplace
    <3>4. ASSUME NEW q \in Ports, NEW f \in Fds, AcceptNew(q, f)
          PROVE  sockCnt' = [sockCnt EXCEPT ![q] = sockCnt[q] + 1]
      BY <3>4 DEF AcceptNew
    <3>5. ASSUME NEW q \in Ports, Removal(q)
          PROVE  q # p /\ sockCnt' = [sockCnt EXCEPT ![q] = @ - 1]
      BY <1>2, <3>5, RemovalDrops
    <3> QED BY <3>1, <3>2, <3>3, <3>4, <3>5, <1>t, TablesKept
  <2>2. /\ sockCnt[p] \in Int /\ sockCnt'[p] \in Int
        /\ \A k \in Int : InRange(p, k) => InRange(p, k)'
    BY <2>1, <1>t, TypeStep DEF InRange, TypeInv, TypeOK
  <2>3. ASSUME pc'[p] = "dup"
        PROVE  InRange(p, conn'[p].slot)
    <3>1. CASE pc[p] = "dup" /\ conn'[p] = conn[p]
      BY <3>1 DEF LeftInv, HeldInRange
    <3>2. ASSUME NEW f \in Fds, AcceptDuplicate(p, f)
          PROVE  InRange(p, conn'[p].slot)
      <4>1. PICK k \in Slots :
              /\ IsFirst(p, Head(pending[p]), 1, k)
              /\ conn' = [conn EXCEPT ![p] = [fd |-> f, ip |-> Head(pending[p]), slot |-> k]]
        BY <3>2 DEF AcceptDuplicate
      <4>2. Head(pending[p]) \in Addr
        BY <3>2, HeadWaits DEF AcceptDuplicate
      <4>3. cliIpAddress[p][k] # NoAddr
        BY <4>1, <4>2, ServerAssumption DEF IsFirst
      <4>4. conn'[p].slot = k
        BY <4>1, <1>t
      <4> QED BY <4>1, <4>3, <4>4, <1>s
    <3> QED BY <2>3, <3>1, <3>2, DupWaits
  <2>4. ASSUME NEW c \in Callers, Holds(c, p)'
        PROVE  call'[c].slot \in Int /\ InRange(p, call'[c].slot)
    <3>t. call'[c].slot \in Int
      BY TypeStep DEF TypeInv, TypeOK, Call, Slots
    <3>h. call'[c].at \in {"found", "send", "finish"} /\ (PortOf(c))' = p
      BY <2>4 DEF Holds
    <3>1. CASE call'[c] = call[c]
      <4>1. Holds(c, p)
        BY <3>1, <3>h DEF Holds, PortOf
      <4> QED BY <3>1, <4>1, <3>t DEF LeftInv, HeldInRange
    <3>2. CASE CallStep(c)
      <4>1. /\ call[c].at # "none" /\ call'[c].todo = call[c].todo
            /\ \/ call'[c].slot = call[c].slot
               \/ IsFirst(PortOf(c), call[c].addr, 0, call'[c].slot)
        BY <3>2, <3>h, CallMoves
      <4>2. PortOf(c) = p
        BY <3>h, <4>1 DEF PortOf
      <4>3. CASE IsFirst(PortOf(c), call[c].addr, 0, call'[c].slot)
        <5>1. call'[c].slot \in Slots
          BY TypeStep DEF TypeInv, TypeOK, Call
        <5>2. cliIpAddress[p][call'[c].slot] # NoAddr
          BY <4>1, <4>2, <4>3 DEF IsFirst, Named
        <5> QED BY <5>1, <5>2, <1>s, <3>t
      <4>4. CASE call'[c].slot = call[c].slot /\ call[c].at = "wait"
        BY <4>4, <3>t DEF Named, InRange
      <4>5. CASE call'[c].slot = call[c].slot /\ call[c].at # "wait"
        <5>1. call[c].at \in CallAts
          BY <1>t DEF Call
        <5>2. Holds(c, p)
          BY <4>1, <4>2, <4>5, <5>1 DEF Holds, CallAts
        <5> QED BY <4>5, <5>2, <3>t DEF LeftInv, HeldInRange
      <4> QED BY <4>1, <4>3, <4>4, <4>5
    <3>3. ASSUME NEW d \in Callers, NEW ports, NEW a,
                 call' = [call EXCEPT ![d] = NewCall(ports, a)]
          PROVE  call'[c] = call[c]
      <4>1. NewCall(ports, a).at = "wait"
        BY DEF NewCall, NoCall
      <4> QED BY <3>3, <3>h, <4>1, <1>t
    <3>4. CASE UNCHANGED call
      BY <3>1, <3>4
    <3>5. ASSUME NEW d \in Callers, CallStep(d), d # c
          PROVE  call'[c] = call[c]
      BY <3>5, CallMoves
    <3>6. ASSUME NEW s \in Senders, NEW ports \in SUBSET Ports, NEW a \in Addr,
                 AppSends(s, ports, a)
          PROVE  call'[c] = call[c]
      BY <3>3, <3>6 DEF AppSends, Callers
    <3>7. ASSUME NEW q \in Ports, EchoCalls(q)
          PROVE  call'[c] = call[c]
      BY <3>3, <3>7 DEF EchoCalls, Callers
    <3> QED BY <3>1, <3>2, <3>4, <3>5, <3>6, <3>7, CallsKept
  <2>5. pc'[p] = "dup" => conn'[p].slot \in Int
    BY TypeStep DEF TypeInv, TypeOK, Connection, Slots
  <2> QED BY <2>2, <2>3, <2>4, <2>5 DEF HeldInRange, InRange
<1> QED BY <1>1, <1>2

LEMMA LeftInit == Init => Named /\ \A p \in Ports : LeftInv(p)
BY DEF Init, NoCall, Named, LeftInv, StaleConfined, HeldInRange, Holds, Active

LEMMA NamedInvariant == Spec => []Named
BY LeftInit, NamedStep, TypeInvariant, UniqueInvariant, PTL DEF Spec

\* What removals leave behind on port 5002 never misleads more than the search
\* for the next client, whatever is sent, closed or marked meanwhile.
THEOREM Port2Leftovers == Spec => []StaleConfined(Port2)
<1>1. Port2 \in Ports
  BY DEF Ports
<1>2. Init => LeftInv(Port2)
  BY <1>1, LeftInit
<1>3. TypeInv /\ UniqueInv /\ Named /\ Port2LockHolds /\ LeftInv(Port2) /\ [Next]_vars
        => LeftInv(Port2)'
  BY <1>1, StaleStep, HeldStep DEF Port2LockHolds, LeftInv
<1>4. LeftInv(Port2) => StaleConfined(Port2)
  BY DEF LeftInv
<1> QED BY <1>2, <1>3, <1>4, TypeInvariant, UniqueInvariant, NamedInvariant, Port2Locked,
       PTL DEF Spec

\* On both ports at most one entry is left behind as long as no removal is made
\* from a full table of port 5002: a sender that fails marks the slot it found
\* under the lock, which no removal can have put out of use since.
THEOREM LeftoversNearby == Spec /\ [][~OverrunStep]_vars => []LeftoversConfined
<1> DEFINE Left == \A p \in Ports : LeftInv(p)
<1>1. Init => Left
  BY LeftInit
<1>2. TypeInv /\ UniqueInv /\ Named /\ LocksHold /\ Left /\ [Next]_vars => Left'
  <2> SUFFICES ASSUME TypeInv, UniqueInv, Named, LocksHold, Left, [Next]_vars,
                      NEW p \in Ports
               PROVE  LeftInv(p)'
    OBVIOUS
  <2>1. IsLock(p) /\ LeftInv(p)
    BY DEF LocksHold
  <2> QED BY <2>1, StaleStep, HeldStep DEF LeftInv
<1>3. Left => LeftoversConfined
  BY DEF LeftInv, LeftoversConfined
<1> HIDE DEF Left
<1> QED BY <1>1, <1>2, <1>3, TypeInvariant, UniqueInvariant, NamedInvariant,
       LocksHoldUntilOverrun, PTL DEF Spec

-----------------------------------------------------------------------------
(* Clients that connect once.                                               *)

OnceEach == \A p \in Ports, a \in Addr : Dials[p][a] <= 1

\* Nothing in the table, not even what was left behind, has the address of a
\* client that is still to be accepted: no entry is ever replaced.
Newcomers(p) ==
  /\ pc[p] # "dup"
  /\ \A i \in 1..Len(pending[p]) :
       /\ ~IsListed(p, pending[p][i], 1)
       /\ \A j \in 1..Len(pending[p]) : pending[p][i] = pending[p][j] => i = j
  /\ \A a \in Addr : visits[p][a] = 0 =>
       ~IsListed(p, a, 1) /\ \A i \in 1..Len(pending[p]) : pending[p][i] # a

NewcomerInv == \A p \in Ports : Newcomers(p)

\* Only a connection that is accepted brings an address into a table.
LEMMA ListedKept ==
  ASSUME TypeInv, NewcomerInv, [Next]_vars, NEW p \in Ports, NEW a \in Addr,
         IsListed(p, a, 1)', ~IsListed(p, a, 1)
  PROVE  \E f \in Fds : AcceptNew(p, f) /\ a = Head(pending[p])
<1>t. /\ cliIpAddress \in [Ports -> [Slots -> Addr \cup {NoAddr, Marked}]]
      /\ sockCnt \in [Ports -> 1..ClientMax] /\ ClientMax \in Nat
      /\ call \in [Callers -> Call]
      /\ a # NoAddr /\ a # Marked
  BY ServerAssumption DEF TypeInv, TypeOK
<1>0. PICK k \in Slots : k >= 1 /\ cliIpAddress'[p][k] = a
  BY DEF IsListed
<1>n. \A j \in Slots : j >= 1 => cliIpAddress[p][j] # a
  BY DEF IsListed
<1>1. CASE UNCHANGED <<cliFd, cliIpAddress, pollFd, sockCnt>>
  BY <1>0, <1>1, <1>n
<1>2. ASSUME NEW c \in Callers, SendFinishes(c) PROVE FALSE
  BY <1>0, <1>2, <1>n, <1>t DEF SendFinishes
<1>3. ASSUME NEW q \in Ports, DupReplace(q) PROVE FALSE
  BY <1>3 DEF DupReplace, NewcomerInv, Newcomers
<1>4. ASSUME NEW q \in Ports, NEW f \in Fds, AcceptNew(q, f)
      PROVE  q = p /\ a = Head(pending[p])
  BY <1>0, <1>4, <1>n, <1>t DEF AcceptNew
<1>5. ASSUME NEW q \in Ports, Removal(q) PROVE FALSE
  <2>1. /\ Drop(q) /\ loop[q] < sockCnt[q] /\ loop[q] >= 1 /\ loop[q] \in Nat
    BY <1>5, RemovalDrops DEF TypeInv, TypeOK
  <2>2. CASE q # p
    <3>1. k \in Slots \ {0}
      BY <1>0 DEF Slots
    <3> QED BY <2>1, <2>2, <3>1, <1>0, <1>n, DropOtherPort
  <2>3. CASE q = p
    <3>1. Port1 # Port2 /\ k # 0 /\ sockCnt[p] \in 2..ClientMax
      BY <1>0, <1>t, <2>1, <2>3 DEF Port1, Port2
    <3>2. cliIpAddress'[p][k] =
            CloseGap(cliIpAddress[p], loop[p], sockCnt[p], NoAddr, NoAddr)[k]
      BY <2>1, <2>3, <3>1, <1>t DEF Drop, AddressesAfterDrop
    <3>3. \/ cliIpAddress'[p][k] = NoAddr
          \/ cliIpAddress'[p][k] = cliIpAddress[p][k]
          \/ k < sockCnt[p] - 1 /\ cliIpAddress'[p][k] = cliIpAddress[p][k + 1]
      BY <3>2 DEF CloseGap
    <3>4. k < sockCnt[p] - 1 => k + 1 \in Slots /\ k + 1 >= 1
      BY <1>0, <3>1, <1>t DEF Slots
    <3> QED BY <1>0, <1>n, <1>t, <3>3, <3>4
  <2> QED BY <2>2, <2>3
<1> QED BY <1>1, <1>2, <1>3, <1>4, <1>5, TablesKept

\* The connections waiting change by a client connecting and by accept().
LEMMA WorldKept ==
  ASSUME [Next]_vars
  PROVE  \/ UNCHANGED world
         \/ \E p \in Ports, a \in Addr : Connect(p, a)
         \/ \E p \in Ports, f \in Fds :
              AcceptDuplicate(p, f) \/ AcceptNew(p, f) \/ AcceptFull(p, f)
<1>1. CASE Environment
  BY <1>1 DEF Environment, PeerSends, PeerCloses, PeerResets, AppSends
<1>2. ASSUME NEW c \in Callers, CallStep(c) PROVE UNCHANGED world
  BY <1>2 DEF CallStep, SendFinds, SendReads, SendMisses, SendSucceeds, SendFails, SendKilled,
              SendFinishes
<1>3. ASSUME NEW p \in Ports, Receiver(p),
             ~\E f \in Fds : AcceptDuplicate(p, f) \/ AcceptNew(p, f) \/ AcceptFull(p, f)
      PROVE  UNCHANGED world
  BY <1>3 DEF Receiver, DupReplace, PollScan, ScanEnds, ScanFindsMarked, ScanSkips,
       RecvData, RecvEnds, RecvFails, EchoCalls, EchoReturns, SweepWaits, SweepLast,
       SweepOne, DropFailedLast, DropFailed, DropEndedLast, DropEnded, Drop
<1> QED BY <1>1, <1>2, <1>3 DEF Next, vars

\* Whom accept() finds first in the queue is not found in the table.
LEMMA NeverAgain ==
  ASSUME TypeInv, NewcomerInv, NEW p \in Ports, NEW f \in Fds
  PROVE  ~AcceptDuplicate(p, f)
<1> SUFFICES ASSUME AcceptDuplicate(p, f) PROVE FALSE
  OBVIOUS
<1>1. pending[p] \in Seq(Addr) /\ pending[p] # << >>
  BY DEF AcceptDuplicate, Accepting, TypeInv, TypeOK
<1>2. 1 \in 1..Len(pending[p]) /\ Head(pending[p]) = pending[p][1]
  BY <1>1
<1>3. IsListed(p, Head(pending[p]), 1)
  BY DEF AcceptDuplicate, IsFirst, IsListed
<1> QED BY <1>2, <1>3 DEF NewcomerInv, Newcomers

LEMMA NewcomerStep ==
  ASSUME TypeInv, OnceEach, NewcomerInv, [Next]_vars, NEW q \in Ports
  PROVE  Newcomers(q)'
<1>t. /\ pending \in [Ports -> Seq(Addr)] /\ visits \in [Ports -> [Addr -> Nat]]
      /\ Dials \in [Ports -> [Addr -> Nat]]
  BY ServerAssumption DEF TypeInv, TypeOK
<1>n. /\ Newcomers(q) /\ pending[q] \in Seq(Addr)
      /\ \A i \in 1..Len(pending[q]) : pending[q][i] \in Addr
  BY <1>t DEF NewcomerInv
<1> DEFINE Now(b) == \E k \in Slots : k >= 1 /\ cliIpAddress'[q][k] = b
<1>d. pc'[q] # "dup"
  BY <1>n, DupWaits, NeverAgain DEF Newcomers
<1>1. CASE pending'[q] = pending[q] /\ visits'[q] = visits[q]
           /\ ~\E f \in Fds : AcceptNew(q, f)
  <2>1. \A a \in Addr : IsListed(q, a, 1)' => IsListed(q, a, 1)
    BY <1>1, ListedKept
  <2> QED BY <1>1, <1>d, <1>n, <2>1 DEF Newcomers
<1>2. ASSUME NEW a \in Addr, Connect(q, a) PROVE Newcomers(q)'
  <2>1. /\ visits[q][a] = 0
        /\ pending' = [pending EXCEPT ![q] = Append(pending[q], a)]
        /\ visits' = [visits EXCEPT ![q][a] = visits[q][a] + 1]
        /\ UNCHANGED cliIpAddress
    BY <1>2, <1>t DEF Connect, OnceEach, tables
  <2>2. /\ pending'[q] = Append(pending[q], a)
        /\ Len(pending'[q]) = Len(pending[q]) + 1
        /\ \A i \in 1..Len(pending[q]) : pending'[q][i] = pending[q][i]
        /\ pending'[q][Len(pending[q]) + 1] = a
    BY <2>1, <1>n, <1>t
  <2>3. \A b \in Addr : visits'[q][b] = 0 => visits[q][b] = 0 /\ b # a
    BY <2>1, <1>t
  <2>4. \A b : Now(b) <=> IsListed(q, b, 1)
    BY <2>1 DEF IsListed
  <2>5. Len(pending[q]) \in Nat
    BY <1>n
  <2> DEFINE m == Len(pending[q])
             old == pending[q]
             new == pending'[q]
  <2>6. \A i \in 1..(m + 1) : i = m + 1 \/ i \in 1..m
    BY <2>5
  <2>7. \A i \in 1..(m + 1) :
          /\ ~Now(new[i])
          /\ \A j \in 1..(m + 1) : new[i] = new[j] => i = j
    BY <2>1, <2>2, <2>4, <2>6, <1>n DEF Newcomers
  <2>8. \A b \in Addr : visits'[q][b] = 0 =>
          ~Now(b) /\ \A i \in 1..(m + 1) : new[i] # b
    BY <2>2, <2>3, <2>4, <2>6, <1>n DEF Newcomers
  <2> QED BY <1>d, <2>2, <2>7, <2>8 DEF Newcomers, IsListed
<1>3. ASSUME NEW f \in Fds, AcceptNew(q, f) \/ AcceptFull(q, f) PROVE Newcomers(q)'
  <2> DEFINE a == Head(pending[q])
  <2>1. /\ pending[q] # << >> /\ UNCHANGED visits
        /\ pending' = [pending EXCEPT ![q] = Tail(pending[q])]
    BY <1>3 DEF AcceptNew, AcceptFull, Accepting
  <2>2. /\ pending'[q] = Tail(pending[q]) /\ a = pending[q][1]
        /\ Len(pending[q]) \in Nat /\ Len(pending[q]) >= 1
        /\ Len(pending'[q]) = Len(pending[q]) - 1
        /\ \A i \in 1..(Len(pending[q]) - 1) : pending'[q][i] = pending[q][i + 1]
    BY <2>1, <1>n, <1>t
  <2>3. \A b \in Addr : Now(b) => IsListed(q, b, 1) \/ b = a
    <3> SUFFICES ASSUME NEW b \in Addr, IsListed(q, b, 1)' PROVE IsListed(q, b, 1) \/ b = a
      BY DEF IsListed
    <3> QED BY ListedKept
  <2>4. \A i \in 1..(Len(pending[q]) - 1) : i + 1 \in 1..Len(pending[q]) /\ i + 1 # 1
    BY <2>2
  <2>5. \A i \in 1..Len(pending'[q]) :
          /\ ~Now(pending'[q][i])
          /\ \A j \in 1..Len(pending'[q]) : pending'[q][i] = pending'[q][j] => i = j
    <3> SUFFICES ASSUME NEW i \in 1..(Len(pending[q]) - 1)
                 PROVE  /\ ~Now(pending[q][i + 1])
                        /\ \A j \in 1..(Len(pending[q]) - 1) :
                             pending[q][i + 1] = pending[q][j + 1] => i = j
      BY <2>2
    <3>1. pending[q][i + 1] # a /\ pending[q][i + 1] \in Addr
      BY <2>2, <2>4, <1>n DEF Newcomers
    <3>2. ~IsListed(q, pending[q][i + 1], 1)
      BY <2>4, <1>n DEF Newcomers
    <3>3. \A j \in 1..(Len(pending[q]) - 1) :
            pending[q][i + 1] = pending[q][j + 1] => i + 1 = j + 1
      BY <2>4, <1>n DEF Newcomers
    <3> QED BY <2>2, <2>3, <3>1, <3>2, <3>3
  <2>6. \A b \in Addr : visits'[q][b] = 0 =>
          ~Now(b) /\ \A i \in 1..Len(pending'[q]) : pending'[q][i] # b
    BY <2>1, <2>2, <2>3, <2>4, <1>n DEF Newcomers
  <2> QED BY <1>d, <2>5, <2>6 DEF Newcomers, IsListed
<1>4. ASSUME NEW p \in Ports, p # q, NEW a \in Addr, Connect(p, a)
      PROVE  pending'[q] = pending[q] /\ visits'[q] = visits[q]
  BY <1>4, <1>t DEF Connect
<1>5. ASSUME NEW p \in Ports, p # q, NEW f \in Fds, Accepting(p, f)
      PROVE  pending'[q] = pending[q] /\ visits'[q] = visits[q]
  BY <1>5, <1>t DEF Accepting
<1> QED BY <1>1, <1>2, <1>3, <1>4, <1>5, WorldKept, NeverAgain
       DEF world, AcceptNew, AcceptFull

-----------------------------------------------------------------------------
(* Every socket has one entry.                                              *)

\* The entry has an open socket, one that the port accepted from its client.
IsOwner(p, k) ==
  /\ cliFd[p][k] \in Fds
  /\ sock[cliFd[p][k]].state # "closed"
  /\ sock[cliFd[p][k]].port = p
  /\ cliIpAddress[p][k] \in {sock[cliFd[p][k]].addr, Marked}

OwnersApart ==
  \A p, q \in Ports : \A k \in Active(p), j \in Active(q) :
    cliFd[p][k] = cliFd[q][j] => p = q /\ k = j

OwnerInv ==
  /\ \A p \in Ports : \A k \in Active(p) : IsOwner(p, k)
  /\ OwnersApart
  /\ \A f \in Fds : sock[f].state # "closed" =>
       \E p \in Ports : \E k \in Active(p) : cliFd[p][k] = f

LEMMA OwnersAccount == TypeInv /\ OwnerInv => SocketsAccounted
<1> SUFFICES ASSUME TypeInv, OwnerInv PROVE SocketsAccounted
  OBVIOUS
<1>1. ASSUME NEW f \in Fds
      PROVE  sock[f].state # "closed" <=>
               \E p \in Ports : \E k \in Active(p) :
                 /\ Owns(p, k, f)
                 /\ sock[f].port = p
                 /\ cliIpAddress[p][k] \in {sock[f].addr, Marked}
  BY DEF OwnerInv, IsOwner, Owns
<1> QED BY <1>1 DEF SocketsAccounted, OwnerInv, OwnersApart

\* Sockets are opened by accept() and closed by removals; every other step leaves
\* each open or closed, and at its two ends.
SameEnds(f) ==
  /\ sock'[f].state = "closed" <=> sock[f].state = "closed"
  /\ sock'[f].port = sock[f].port /\ sock'[f].addr = sock[f].addr

LEMMA EndsKept ==
  ASSUME TypeInv, NewcomerInv, [Next]_vars, NEW f \in Fds,
         ~\E p \in Ports : Removal(p) \/ \E g \in Fds : AcceptNew(p, g)
  PROVE  SameEnds(f)
<1>t. sock \in [Fds -> Socket]
  BY DEF TypeInv, TypeOK
<1> USE DEF SameEnds
<1>1. CASE UNCHANGED sock
  BY <1>1
<1>2. ASSUME NEW g \in Fds, PeerSends(g) \/ PeerCloses(g) \/ PeerResets(g)
      PROVE  SameEnds(f)
  BY <1>2, <1>t DEF PeerSends, PeerCloses, PeerResets, Acting, Socket
<1>3. ASSUME NEW c \in Callers, CallStep(c)
      PROVE  SameEnds(f)
  <2>1. CASE SendSucceeds(c)
    BY <1>t, <2>1 DEF SendSucceeds, StateOf, Socket
  <2>2. CASE SendFails(c)
    BY <1>t, <2>2 DEF SendFails, Socket
  <2> QED BY <1>1, <1>3, <2>1, <2>2
        DEF CallStep, SendFinds, SendReads, SendMisses, SendKilled, SendFinishes
<1>4. ASSUME NEW p \in Ports, RecvData(p) PROVE SameEnds(f)
  BY <1>4, <1>t DEF RecvData, HasData, Socket
<1>5. ASSUME NEW p \in Ports, RecvFails(p) PROVE SameEnds(f)
  BY <1>5, <1>t DEF RecvFails, Socket
<1>6. ASSUME NEW p \in Ports, DupReplace(p) PROVE FALSE
  BY <1>6 DEF DupReplace, NewcomerInv, Newcomers
<1>7. ASSUME NEW p \in Ports, Receiver(p) PROVE SameEnds(f)
  <2>1. \/ RecvData(p) \/ RecvFails(p) \/ UNCHANGED sock
    BY <1>6, <1>7, NeverAgain DEF Receiver, Removal, AcceptFull, PollScan, ScanEnds,
       ScanFindsMarked, ScanSkips, RecvEnds, EchoCalls, EchoReturns, SweepWaits
  <2> QED BY <1>1, <1>4, <1>5, <2>1
<1>8. CASE Environment
  BY <1>1, <1>2, <1>8 DEF Environment, Connect, AppSends
<1> QED BY <1>1, <1>3, <1>7, <1>8 DEF Next, vars

LEMMA OwnerRest ==
  ASSUME TypeInv, NewcomerInv, OwnerInv, [Next]_vars,
         ~\E p \in Ports : Removal(p) \/ \E f \in Fds : AcceptNew(p, f)
  PROVE  OwnerInv'
<1>t. /\ cliIpAddress \in [Ports -> [Slots -> Addr \cup {NoAddr, Marked}]]
      /\ call \in [Callers -> Call]
  BY DEF TypeInv, TypeOK
<1>1. UNCHANGED <<cliFd, sockCnt>>
  BY TablesKept DEF SendFinishes, DupReplace, NewcomerInv, Newcomers
<1>2. \A p \in Ports, i \in Slots : cliIpAddress'[p][i] \in {cliIpAddress[p][i], Marked}
  <2>1. ASSUME NEW c \in Callers, SendFinishes(c), NEW p \in Ports, NEW i \in Slots
        PROVE  cliIpAddress'[p][i] \in {cliIpAddress[p][i], Marked}
    BY <2>1, <1>t DEF SendFinishes
  <2>2. ~\E p \in Ports : DupReplace(p)
    BY DEF DupReplace, NewcomerInv, Newcomers
  <2> QED BY <2>1, <2>2, TablesKept
<1>3. \A f \in Fds : SameEnds(f)
  BY EndsKept
<1>4. \A p \in Ports : Active(p) \subseteq Slots /\ Active(p)' = Active(p)
  BY <1>1, ActiveSlots DEF Active
<1>5. ASSUME NEW p \in Ports, NEW k \in Active(p) PROVE IsOwner(p, k)'
  BY <1>1, <1>2, <1>3, <1>4 DEF OwnerInv, IsOwner, SameEnds
<1>6. OwnersApart'
  BY <1>1, <1>4 DEF OwnerInv, OwnersApart
<1>7. ASSUME NEW f \in Fds, sock'[f].state # "closed"
      PROVE  \E p \in Ports : \E k \in Active(p) : cliFd[p][k] = f
  BY <1>3, <1>7 DEF OwnerInv, SameEnds
<1> QED BY <1>1, <1>4, <1>5, <1>6, <1>7 DEF OwnerInv

\* accept() hands out a descriptor that no entry has.
LEMMA OwnerNew ==
  ASSUME TypeInv, OwnerInv, NEW p \in Ports, NEW f \in Fds, AcceptNew(p, f)
  PROVE  OwnerInv'
<1> DEFINE a == Head(pending[p])
           n == sockCnt[p]
<1>t. /\ cliFd \in [Ports -> [Slots -> Fds \cup {0, NoFd}]]
      /\ cliIpAddress \in [Ports -> [Slots -> Addr \cup {NoAddr, Marked}]]
      /\ sockCnt \in [Ports -> 1..ClientMax] /\ ClientMax \in Nat
      /\ sock \in [Fds -> Socket]
  BY ServerAssumption DEF TypeInv, TypeOK
<1>1. /\ sockCnt' = [sockCnt EXCEPT ![p] = n + 1] /\ n < ClientMax
      /\ cliFd' = [cliFd EXCEPT ![p][n] = f]
      /\ cliIpAddress' = [cliIpAddress EXCEPT ![p][n] = a]
      /\ sock' = [sock EXCEPT ![f] = [state |-> "open", data |-> 0, port |-> p, addr |-> a]]
      /\ sock[f].state = "closed"
  BY DEF AcceptNew, HasRoom, Accepting, Accepted, IsNextFd
<1>2. n \in Slots /\ n \in 1..ClientMax
  BY <1>1, <1>t DEF Slots
<1>3. /\ sock'[f].state = "open" /\ sock'[f].port = p /\ sock'[f].addr = a
      /\ \A g \in Fds : g # f => sock'[g] = sock[g]
  BY <1>1, <1>t
<1>4. ASSUME NEW q \in Ports, NEW k \in Active(q)'
      PROVE  k \in Active(q) \/ (q = p /\ k = n)
  <2>1. k \in 1..(sockCnt'[q] - 1)
    BY <1>4 DEF Active
  <2>2. CASE q = p
    <3>1. sockCnt'[q] = n + 1
      BY <1>1, <1>t, <2>2
    <3> QED BY <1>2, <2>1, <2>2, <3>1 DEF Active
  <2>3. CASE q # p
    BY <1>1, <1>t, <2>1, <2>3 DEF Active
  <2> QED BY <2>2, <2>3
<1>5. \A q \in Ports : \A k \in Active(q) :
        /\ ~(q = p /\ k = n) /\ k \in Slots /\ k \in Active(q)'
        /\ cliFd'[q][k] = cliFd[q][k] /\ cliFd[q][k] # f
        /\ cliIpAddress'[q][k] = cliIpAddress[q][k]
  <2> SUFFICES ASSUME NEW q \in Ports, NEW k \in Active(q)
               PROVE  /\ ~(q = p /\ k = n) /\ k \in Slots /\ k \in Active(q)'
                      /\ cliFd'[q][k] = cliFd[q][k] /\ cliFd[q][k] # f
                      /\ cliIpAddress'[q][k] = cliIpAddress[q][k]
    OBVIOUS
  <2>1. k \in Slots /\ ~(q = p /\ k = n)
    BY ActiveSlots, <1>2 DEF Active
  <2>2. k \in Active(q)'
    BY <1>1, <1>2, <1>t DEF Active
  <2>3. cliFd[q][k] # f
    BY <1>1 DEF OwnerInv, IsOwner
  <2> QED BY <1>1, <1>t, <2>1, <2>2, <2>3
<1>6. /\ n \in Active(p)' /\ cliFd'[p][n] = f /\ cliIpAddress'[p][n] = a
  BY <1>1, <1>2, <1>t DEF Active
<1>7. ASSUME NEW q \in Ports, NEW k \in Active(q)' PROVE IsOwner(q, k)'
  <2>1. CASE q = p /\ k = n
    BY <2>1, <1>3, <1>6 DEF IsOwner
  <2>2. CASE k \in Active(q)
    BY <2>2, <1>3, <1>5 DEF IsOwner, OwnerInv
  <2> QED BY <1>4, <2>1, <2>2
<1>8. OwnersApart'
  <2> SUFFICES ASSUME NEW q \in Ports, NEW r \in Ports,
                      NEW k \in Active(q)', NEW j \in Active(r)',
                      cliFd'[q][k] = cliFd'[r][j]
               PROVE  q = r /\ k = j
    BY DEF OwnersApart
  <2>1. CASE k \in Active(q) /\ j \in Active(r)
    BY <2>1, <1>5 DEF OwnerInv, OwnersApart
  <2>2. CASE k \in Active(q) /\ r = p /\ j = n
    BY <2>2, <1>5, <1>6
  <2>3. CASE j \in Active(r) /\ q = p /\ k = n
    BY <2>3, <1>5, <1>6
  <2> QED BY <1>4, <2>1, <2>2, <2>3
<1>9. ASSUME NEW g \in Fds, sock'[g].state # "closed"
      PROVE  \E q \in Ports : \E k \in Active(q)' : cliFd'[q][k] = g
  <2>1. CASE g = f
    BY <2>1, <1>6
  <2>2. CASE g # f
    <3>1. \E q \in Ports : \E k \in Active(q) : cliFd[q][k] = g
      BY <2>2, <1>3, <1>9 DEF OwnerInv
    <3> QED BY <3>1, <1>5
  <2> QED BY <2>1, <2>2
<1> QED BY <1>7, <1>8, <1>9 DEF OwnerInv

\* A removal closes the one socket whose entry it takes out.
LEMMA OwnerRemoval ==
  ASSUME TypeInv, OwnerInv, [Next]_vars, NEW p \in Ports, Removal(p)
  PROVE  OwnerInv'
<1> DEFINE f == cliFd[p][loop[p]]
           From(q, k) == IF q # p \/ k < loop[p] THEN k ELSE k + 1
<1>t. /\ sockCnt \in [Ports -> 1..ClientMax] /\ ClientMax \in Nat
      /\ loop[p] \in Nat /\ sock \in [Fds -> Socket]
  BY ServerAssumption DEF TypeInv, TypeOK
<1>1. /\ Drop(p) /\ loop[p] < sockCnt[p] /\ loop[p] >= 1
      /\ sockCnt' = [sockCnt EXCEPT ![p] = @ - 1]
  BY RemovalDrops
<1>2. /\ sock' = Closing(f)
      /\ \A g \in Fds : sock'[g] = IF g = f THEN NoSock ELSE sock[g]
  BY <1>1 DEF Drop, Closing
<1>3. loop[p] \in Active(p)
  BY <1>1, <1>t DEF Active
<1>4. ASSUME NEW q \in Ports, NEW k \in Active(q)'
      PROVE  /\ From(q, k) \in Active(q) /\ ~(q = p /\ From(q, k) = loop[p])
             /\ cliFd'[q][k] = cliFd[q][From(q, k)]
             /\ cliIpAddress'[q][k] = cliIpAddress[q][From(q, k)]
  <2>1. CASE q = p
    <3>1. sockCnt[p] > 2 /\ k \in 1..(sockCnt[p] - 2)
      BY <1>1, <1>4, <1>t, <2>1 DEF Active
    <3>2. From(q, k) \in Active(q) /\ From(q, k) # loop[p]
      BY <2>1, <3>1, <1>t DEF Active
    <3>3. /\ cliFd'[p][k] = cliFd[p][From(p, k)]
          /\ cliIpAddress'[p][k] = cliIpAddress[p][From(p, k)]
      BY <1>1, <3>1, DropEntry
    <3> QED BY <2>1, <3>2, <3>3
  <2>2. CASE q # p
    <3>1. k \in Active(q) /\ From(q, k) = k
      BY <1>1, <1>4, <1>t, <2>2 DEF Active
    <3>2. k \in Slots \ {0}
      BY <3>1, ActiveSlots
    <3> QED BY <1>1, <2>2, <3>1, <3>2, DropOtherPort
  <2> QED BY <2>1, <2>2
<1>5. \A q \in Ports : \A k, j \in Active(q)' : From(q, k) = From(q, j) => k = j
  BY <1>t, <1>1 DEF Active
<1> HIDE DEF From
<1>6. ASSUME NEW q \in Ports, NEW k \in Active(q)' PROVE IsOwner(q, k)'
  <2>1. IsOwner(q, From(q, k)) /\ cliFd[q][From(q, k)] # f
    BY <1>3, <1>4 DEF OwnerInv, OwnersApart
  <2>2. sock'[cliFd'[q][k]] = sock[cliFd[q][From(q, k)]]
    BY <1>2, <1>4, <2>1 DEF IsOwner
  <2> QED BY <1>4, <2>1, <2>2 DEF IsOwner
<1>7. OwnersApart'
  <2> SUFFICES ASSUME NEW q \in Ports, NEW r \in Ports,
                      NEW k \in Active(q)', NEW j \in Active(r)',
                      cliFd'[q][k] = cliFd'[r][j]
               PROVE  q = r /\ k = j
    BY DEF OwnersApart
  <2>1. q = r /\ From(q, k) = From(r, j)
    BY <1>4 DEF OwnerInv, OwnersApart
  <2> QED BY <1>5, <2>1
<1>8. ASSUME NEW g \in Fds, sock'[g].state # "closed"
      PROVE  \E q \in Ports : \E k \in Active(q)' : cliFd'[q][k] = g
  <2>1. g # f /\ sock[g].state # "closed"
    BY <1>2, <1>8 DEF NoSock
  <2>q. PICK q \in Ports : \E k \in Active(q) : cliFd[q][k] = g
    BY <2>1 DEF OwnerInv
  <2>2. PICK k \in Active(q) : cliFd[q][k] = g
    BY <2>q
  <2>3. CASE q = p
    <3>1. k \in Active(p) \ {loop[p]} /\ sockCnt'[p] < sockCnt[p]
      BY <1>1, <1>t, <2>1, <2>2, <2>3
    <3>2. \E j \in 1..(sockCnt'[p] - 1) : cliFd'[p][j] = cliFd[p][k]
      BY <3>1, SparesStep DEF SparesOthers
    <3> QED BY <2>2, <2>3, <3>2 DEF Active
  <2>4. CASE q # p
    <3>1. k \in Active(q)'
      BY <1>1, <1>t, <2>4 DEF Active
    <3>2. k \in Slots \ {0}
      BY ActiveSlots
    <3> QED BY <1>1, <2>2, <2>4, <3>1, <3>2, DropOtherPort
  <2> QED BY <2>3, <2>4
<1> QED BY <1>6, <1>7, <1>8 DEF OwnerInv

OnceInv == OnceEach /\ NewcomerInv /\ OwnerInv

LEMMA OnceInvariant == Spec /\ OnceEach => []OnceInv
<1>1. Init /\ OnceEach => OnceInv
  <2> SUFFICES ASSUME Init, OnceEach PROVE NewcomerInv /\ OwnerInv
    BY DEF OnceInv
  <2>1. NewcomerInv
    BY ServerAssumption DEF Init, NewcomerInv, Newcomers, IsListed
  <2>2. OwnerInv
    BY DEF Init, OwnerInv, OwnersApart, Active, NoSock
  <2> QED BY <2>1, <2>2
<1>2. TypeInv /\ OnceInv /\ [Next]_vars => OnceInv'
  <2> SUFFICES ASSUME TypeInv, OnceInv, [Next]_vars PROVE NewcomerInv' /\ OwnerInv'
    BY DEF OnceInv, OnceEach
  <2>1. NewcomerInv'
    BY NewcomerStep DEF OnceInv, NewcomerInv
  <2>2. OwnerInv'
    BY OwnerRest, OwnerNew, OwnerRemoval DEF OnceInv
  <2> QED BY <2>1, <2>2
<1> QED BY <1>1, <1>2, TypeInvariant, PTL DEF Spec

\* While no client connects twice, a socket is open exactly as long as one entry
\* of its port has it, and that entry names its client or is marked, whatever
\* senders mark, in whatever order clients leave, and on both ports at once.
THEOREM SocketsAreAccounted == Spec /\ OnceEach => []SocketsAccounted
<1>1. TypeInv /\ OnceInv => SocketsAccounted
  BY OwnersAccount DEF OnceInv
<1> QED BY <1>1, TypeInvariant, OnceInvariant, PTL

-----------------------------------------------------------------------------
(* What poll() reported is still there.                                     *)

\* The entries a pass has still to read.
Ahead(p) ==
  {k \in Active(p) : \/ k > loop[p]
                     \/ k = loop[p] /\ pc[p] \notin {"received", "echo"}}

PassInv ==
  \A p \in Ports : pc[p] # "poll" =>
    \A k \in Ahead(p) : revents[p][k] => Readable(pollFd[p][k])

\* A socket with something to read keeps it until its own receiver reads it or
\* drops its entry.
LEMMA ReadableKept ==
  ASSUME TypeInv, NewcomerInv, OwnerInv, TablesAgree, [Next]_vars,
         NEW q \in Ports, NEW k \in Active(q), Readable(pollFd[q][k]),
         ~(k = loop[q] /\ (RecvData(q) \/ Removal(q)))
  PROVE  LET f == pollFd[q][k] IN
         f \in Fds /\ (sock'[f].data > 0 \/ sock'[f].state \in {"fin", "err", "pipe"})
<1> DEFINE f == pollFd[q][k]
<1>t. /\ sock \in [Fds -> Socket] /\ sockCnt \in [Ports -> 1..ClientMax]
      /\ ClientMax \in Nat /\ loop \in [Ports -> 1..ClientMax]
  BY ServerAssumption DEF TypeInv, TypeOK
<1>1. f = cliFd[q][k] /\ f \in Fds /\ sock[f].state # "closed"
  BY DEF TablesAgree, OwnerInv, IsOwner
<1>2. sock[f].data > 0 \/ sock[f].state \in {"fin", "err", "pipe"}
  BY <1>1 DEF Readable, HasData, StateOf
<1>3. ASSUME NEW p \in Ports, loop[p] < sockCnt[p], ~(p = q /\ loop[p] = k)
      PROVE  /\ cliFd[p][loop[p]] # f /\ pollFd[p][loop[p]] # f
  <2>1. loop[p] \in Active(p)
    BY <1>3, <1>t DEF Active
  <2> QED BY <1>1, <1>3, <2>1 DEF TablesAgree, OwnerInv, OwnersApart
<1> DEFINE Kept == sock'[f].data > 0 \/ sock'[f].state \in {"fin", "err", "pipe"}
<1> SUFFICES Kept
  BY <1>1
<1> HIDE DEF f
<1>4. CASE UNCHANGED sock
  BY <1>2, <1>4
<1>5. ASSUME NEW g \in Fds, PeerSends(g) \/ PeerCloses(g) \/ PeerResets(g)
      PROVE  Kept
  BY <1>1, <1>2, <1>5, <1>t DEF PeerSends, PeerCloses, PeerResets, Acting, Socket
<1>6. ASSUME NEW c \in Callers, CallStep(c) PROVE Kept
  <2>1. CASE SendSucceeds(c)
    BY <1>1, <1>2, <1>t, <2>1 DEF SendSucceeds, StateOf, Socket
  <2>2. CASE SendFails(c)
    BY <1>1, <1>2, <1>t, <2>2 DEF SendFails, Socket
  <2> QED BY <1>4, <1>6, <2>1, <2>2
        DEF CallStep, SendFinds, SendReads, SendMisses, SendKilled, SendFinishes
<1>7. ASSUME NEW p \in Ports, RecvData(p) PROVE Kept
  <2>1. loop[p] < sockCnt[p] /\ ~(p = q /\ loop[p] = k)
    BY <1>7 DEF RecvData, Scanning
  <2>2. pollFd[p][loop[p]] # f
    BY <1>3, <2>1
  <2>3. sock'[f] = sock[f]
    BY <1>1, <1>7, <1>t, <2>2 DEF RecvData
  <2> QED BY <1>2, <2>3
<1>8. ASSUME NEW p \in Ports, RecvFails(p) PROVE Kept
  BY <1>1, <1>2, <1>8, <1>t DEF RecvFails, Socket
<1>9. ASSUME NEW p \in Ports, Removal(p) PROVE Kept
  <2>1. Drop(p) /\ loop[p] < sockCnt[p] /\ ~(p = q /\ loop[p] = k)
    BY <1>9, RemovalDrops
  <2>2. cliFd[p][loop[p]] # f
    BY <1>3, <2>1
  <2>3. sock'[f] = sock[f]
    BY <1>1, <2>1, <2>2 DEF Drop, Closing
  <2> QED BY <1>2, <2>3
<1>10. ASSUME NEW p \in Ports, NEW g \in Fds, AcceptNew(p, g) PROVE Kept
  <2>1. g # f
    BY <1>1, <1>10 DEF AcceptNew, Accepting, IsNextFd
  <2>2. sock'[f] = sock[f]
    BY <1>1, <1>10, <1>t, <2>1 DEF AcceptNew, Accepted
  <2> QED BY <1>2, <2>2
<1>11. ASSUME NEW p \in Ports, Receiver(p) PROVE Kept
  <2>1. ~DupReplace(p)
    BY DEF DupReplace, NewcomerInv, Newcomers
  <2>2. \/ RecvData(p) \/ RecvFails(p) \/ Removal(p) \/ UNCHANGED sock
        \/ \E g \in Fds : AcceptNew(p, g)
    BY <1>11, <2>1, NeverAgain DEF Receiver, Removal, AcceptFull, PollScan, ScanEnds,
       ScanFindsMarked, ScanSkips, RecvEnds, EchoCalls, EchoReturns, SweepWaits
  <2> QED BY <1>4, <1>7, <1>8, <1>9, <1>10, <2>2
<1>12. CASE Environment
  BY <1>4, <1>5, <1>12 DEF Environment, Connect, AppSends
<1> QED BY <1>4, <1>6, <1>11, <1>12 DEF Next, vars

\* The steps of others leave a receiver's pass where it is.
LEMMA PassKept ==
  ASSUME TypeInv, [Next]_vars, NEW q \in Ports, ~Receiver(q)
  PROVE  /\ pc'[q] = pc[q] /\ loop'[q] = loop[q]
         /\ sockCnt'[q] = sockCnt[q] /\ revents'[q] = revents[q]
         /\ \A k \in Active(q) : pollFd'[q][k] = pollFd[q][k]
<1>t. /\ pc \in [Ports -> PcValues] /\ loop \in [Ports -> 1..ClientMax]
      /\ sockCnt \in [Ports -> 1..ClientMax] /\ ClientMax \in Nat
      /\ revents \in [Ports -> [Slots -> BOOLEAN]]
      /\ pollFd \in [Ports -> [Slots -> Fds \cup {0, NoFd}]]
  BY ServerAssumption DEF TypeInv, TypeOK
<1> USE DEF tables, thread
<1>1. CASE UNCHANGED <<pc, loop, sockCnt, revents, pollFd>>
  BY <1>1
<1>2. CASE Environment
  BY <1>2 DEF Environment, Connect, PeerSends, PeerCloses, PeerResets, AppSends
<1>3. ASSUME NEW c \in Callers, CallStep(c)
      PROVE  UNCHANGED <<pc, loop, sockCnt, revents, pollFd>>
  BY <1>3 DEF CallStep, SendFinds, SendReads, SendMisses, SendSucceeds, SendFails, SendKilled,
              SendFinishes
<1>4. ASSUME NEW p \in Ports, p # q, Removal(p)
      PROVE  /\ pc'[q] = pc[q] /\ loop'[q] = loop[q]
             /\ sockCnt'[q] = sockCnt[q] /\ revents'[q] = revents[q]
             /\ \A k \in Active(q) : pollFd'[q][k] = pollFd[q][k]
  <2>1. Drop(p) /\ loop[p] < sockCnt[p]
        /\ sockCnt' = [sockCnt EXCEPT ![p] = @ - 1]
        /\ \E at \in {"poll", "scan", "rewait"} : pc' = [pc EXCEPT ![p] = at]
    BY <1>4, RemovalDrops
  <2>2. /\ UNCHANGED loop \/ loop' = [loop EXCEPT ![p] = 1]
        /\ revents' \in {ReventsAfterDrop(p), NoRevents(p)}
    BY <1>4 DEF Removal, SweepLast, SweepOne, DropFailedLast, DropFailed,
                DropEndedLast, DropEnded, EndPass
  <2>3. revents'[q] = revents[q]
    BY <1>4, <1>t, <2>2 DEF ReventsAfterDrop, NoRevents
  <2>4. \A k \in Active(q) : pollFd'[q][k] = pollFd[q][k]
    BY <1>4, <2>1, ActiveSlots, DropOtherPort
  <2> QED BY <1>4, <1>t, <2>1, <2>2, <2>3, <2>4
<1>5. ASSUME NEW p \in Ports, p # q, Receiver(p), ~Removal(p)
      PROVE  /\ pc'[q] = pc[q] /\ loop'[q] = loop[q]
             /\ sockCnt'[q] = sockCnt[q] /\ revents'[q] = revents[q]
             /\ pollFd'[q] = pollFd[q]
  <2>1. /\ UNCHANGED pc \/ \E at : pc' = [pc EXCEPT ![p] = at]
        /\ UNCHANGED loop \/ \E i : loop' = [loop EXCEPT ![p] = i]
    BY <1>5 DEF Receiver, Removal, AcceptDuplicate, AcceptNew, AcceptFull, DupReplace,
       PollScan, ScanEnds, EndPass, ScanFindsMarked, ScanSkips, RecvData, RecvEnds,
       RecvFails, EchoCalls, EchoReturns, SweepWaits, Goes
  <2>2. /\ UNCHANGED sockCnt \/ \E n : sockCnt' = [sockCnt EXCEPT ![p] = n]
        /\ UNCHANGED revents \/ \E r : revents' = [revents EXCEPT ![p] = r]
        /\ UNCHANGED pollFd \/ \E i, f : pollFd' = [pollFd EXCEPT ![p][i] = f]
    BY <1>5 DEF Receiver, Removal, AcceptDuplicate, AcceptNew, AcceptFull, DupReplace,
       PollScan, ScanEnds, ScanFindsMarked, ScanSkips, RecvData, RecvEnds,
       RecvFails, EchoCalls, EchoReturns, SweepWaits
  <2> QED BY <1>5, <1>t, <2>1, <2>2
<1> QED BY <1>1, <1>2, <1>3, <1>4, <1>5 DEF Next, vars

LEMMA PassStep ==
  ASSUME TypeInv, NewcomerInv, OwnerInv, TablesAgree, PassInv, [Next]_vars
  PROVE  PassInv'
<1> SUFFICES ASSUME NEW q \in Ports, pc'[q] # "poll",
                    NEW k \in Active(q)', revents'[q][k],
                    k > loop'[q] \/ (k = loop'[q] /\ pc'[q] \notin {"received", "echo"})
             PROVE  LET f == pollFd'[q][k] IN
                    f \in Fds /\ (sock'[f].data > 0
                                  \/ sock'[f].state \in {"fin", "err", "pipe"})
  BY DEF PassInv, Ahead, Readable, HasData, StateOf
<1>t. /\ pc \in [Ports -> PcValues] /\ loop \in [Ports -> 1..ClientMax]
      /\ sockCnt \in [Ports -> 1..ClientMax] /\ ClientMax \in Nat
      /\ revents \in [Ports -> [Slots -> BOOLEAN]]
  BY ServerAssumption DEF TypeInv, TypeOK
<1> DEFINE Good(f) == f \in Fds /\ (sock'[f].data > 0
                                     \/ sock'[f].state \in {"fin", "err", "pipe"})
<1> SUFFICES Good(pollFd'[q][k])
  OBVIOUS
<1>a. ASSUME NEW i \in Active(q), pc[q] # "poll", revents[q][i],
             i > loop[q] \/ (i = loop[q] /\ pc[q] \notin {"received", "echo"}),
             ~(i = loop[q] /\ (RecvData(q) \/ Removal(q))),
             pollFd'[q][k] = pollFd[q][i]
      PROVE  Good(pollFd'[q][k])
  <2>1. Readable(pollFd[q][i])
    BY <1>a DEF PassInv, Ahead
  <2> QED BY <1>a, <2>1, ReadableKept
<1> HIDE DEF Good
<1>1. CASE ~Receiver(q)
  <2>1. /\ pc'[q] = pc[q] /\ loop'[q] = loop[q]
        /\ sockCnt'[q] = sockCnt[q] /\ revents'[q] = revents[q]
        /\ \A i \in Active(q) : pollFd'[q][i] = pollFd[q][i]
    BY <1>1, PassKept
  <2>2. k \in Active(q)
    BY <2>1 DEF Active
  <2>3. ~RecvData(q) /\ ~Removal(q)
    BY <1>1 DEF Receiver, Removal
  <2> QED BY <1>a, <2>1, <2>2, <2>3
<1>2. CASE Removal(q)
  <2>1. /\ Drop(q) /\ loop[q] < sockCnt[q]
        /\ sockCnt' = [sockCnt EXCEPT ![q] = @ - 1]
        /\ sockCnt[q] > 2 => revents' = ReventsAfterDrop(q)
    BY <1>2, RemovalDrops
  <2>2. loop'[q] = loop[q] /\ pc[q] \in {"sweep", "rmerr", "rmfin"}
    BY <1>2, <1>t DEF Removal, SweepLast, SweepOne, DropFailedLast, DropFailed,
                      DropEndedLast, DropEnded, EndPass
  <2>3. sockCnt[q] > 2 /\ k \in 1..(sockCnt[q] - 2)
    BY <1>t, <2>1 DEF Active
  <2>4. ~(k < loop[q]) /\ k + 1 > loop[q] /\ k + 1 \in Active(q)
    BY <1>t, <2>2, <2>3 DEF Active
  <2>5. /\ pollFd'[q][k] = pollFd[q][k + 1]
        /\ ReventsAfterDrop(q)[q][k] = revents[q][k + 1]
    BY <2>1, <2>3, <2>4, DropEntry
  <2>6. revents[q][k + 1]
    <3>1. revents' = ReventsAfterDrop(q)
      BY <2>1, <2>3
    <3> QED BY <2>5, <3>1, Zenon
  <2>7. k + 1 # loop[q]
    BY <1>t, <2>3, <2>4
  <2> QED BY <1>a, <2>2, <2>4, <2>5, <2>6, <2>7
<1>3. CASE PollScan(q)
  <2>1. /\ UNCHANGED <<sock, sockCnt, pollFd>>
        /\ revents'[q] = [i \in Slots |-> i \in Active(q) /\ Readable(pollFd[q][i])]
    BY <1>3, <1>t DEF PollScan
  <2>2. k \in Slots
    BY <2>1, ActiveSlots DEF Active
  <2>3. Readable(pollFd[q][k])
    BY <2>1, <2>2
  <2> QED BY <2>1, <2>3 DEF Good, Readable, HasData, StateOf
<1>4. ASSUME Receiver(q), ~Removal(q), ~PollScan(q)
      PROVE  /\ pc[q] # "poll" /\ k \in Active(q)
             /\ UNCHANGED <<pollFd, revents>>
             /\ k > loop[q] \/ (k = loop[q] /\ pc[q] \notin {"received", "echo"})
             /\ ~(k = loop[q] /\ RecvData(q))
  <2>1. ~DupReplace(q) /\ pc'[q] # "dup"
    BY DupWaits, NeverAgain DEF DupReplace, NewcomerInv, Newcomers
  <2>2. ASSUME NEW f \in Fds PROVE ~AcceptNew(q, f) /\ ~AcceptFull(q, f)
    BY DEF AcceptNew, AcceptFull, Accepting, thread
  <2>3. ~ScanEnds(q)
    BY <1>t DEF ScanEnds, EndPass
  <2>4. \/ ScanFindsMarked(q) \/ ScanSkips(q) \/ RecvData(q) \/ RecvEnds(q)
        \/ RecvFails(q) \/ EchoCalls(q) \/ EchoReturns(q) \/ SweepWaits(q)
    BY <1>4, <2>1, <2>2, <2>3, NeverAgain DEF Receiver, Removal
  <2>5. UNCHANGED <<pollFd, revents, sockCnt>> /\ k \in Active(q)
    BY <2>4 DEF ScanFindsMarked, ScanSkips, RecvData, RecvEnds, RecvFails, EchoCalls,
                EchoReturns, SweepWaits, tables, Active
  <2>6. k \in Int /\ loop[q] \in Int
    BY <1>t, <2>5 DEF Active
  <2>7. CASE ScanFindsMarked(q) \/ RecvEnds(q) \/ RecvFails(q)
    <3>1. pc[q] = "scan" /\ loop'[q] = loop[q] /\ ~RecvData(q)
      BY <2>7, <1>t DEF ScanFindsMarked, RecvEnds, RecvFails, RecvData, Scanning, Goes
    <3> QED BY <2>5, <3>1
  <2>8. CASE ScanSkips(q)
    <3>1. pc[q] = "scan" /\ loop'[q] = loop[q] + 1
      BY <2>8, <1>t DEF ScanSkips, Scanning
    <3> QED BY <2>5, <2>6, <3>1
  <2>9. CASE RecvData(q)
    <3>1. pc[q] = "scan" /\ loop'[q] = loop[q] /\ pc'[q] = "received"
      BY <2>9, <1>t DEF RecvData, Scanning, Goes
    <3> QED BY <2>5, <2>6, <3>1
  <2>10. CASE EchoCalls(q)
    <3>1. pc[q] = "received" /\ loop'[q] = loop[q] /\ pc'[q] = "echo" /\ ~RecvData(q)
      BY <2>10, <1>t DEF EchoCalls, RecvData, Scanning, Goes
    <3> QED BY <2>5, <3>1
  <2>11. CASE EchoReturns(q)
    <3>1. pc[q] = "echo" /\ loop'[q] = loop[q] + 1 /\ ~RecvData(q)
      BY <2>11, <1>t DEF EchoReturns, RecvData, Scanning
    <3> QED BY <2>5, <2>6, <3>1
  <2>12. CASE SweepWaits(q)
    <3>1. pc[q] = "rewait" /\ loop'[q] = loop[q] /\ ~RecvData(q)
      BY <2>12, <1>t DEF SweepWaits, RecvData, Scanning
    <3> QED BY <2>5, <3>1
  <2> QED BY <2>4, <2>7, <2>8, <2>9, <2>10, <2>11, <2>12
<1> QED BY <1>1, <1>2, <1>3, <1>4, <1>a

\* While no client connects twice, a receiver calls recv() only on a descriptor
\* that has data, an end or an error for it: what poll() saw cannot have gone
\* by the time the pass gets there, and the blocking call returns at once.
THEOREM ReceiversDoNotWait == Spec /\ OnceEach => []RecvNeverWaits
<1>1. Init => PassInv
  BY DEF Init, PassInv
<1>2. TypeInv /\ OnceInv /\ TablesAgree /\ PassInv /\ [Next]_vars => PassInv'
  BY PassStep DEF OnceInv
<1>3. TypeInv /\ PassInv => RecvNeverWaits
  <2> SUFFICES ASSUME TypeInv, PassInv, NEW p \in Ports, Scanning(p), IsReady(p)
               PROVE  Readable(pollFd[p][loop[p]])
    BY DEF RecvNeverWaits
  <2>1. loop[p] \in Active(p)
    BY ServerAssumption DEF Scanning, Active, TypeInv, TypeOK
  <2> QED BY <2>1 DEF PassInv, Ahead, Scanning, IsReady
<1> QED BY <1>1, <1>2, <1>3, TypeInvariant, ArraysAgree, OnceInvariant, PTL DEF Spec

=============================================================================
