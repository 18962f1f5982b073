--------------------------- MODULE TcpServerProofs ---------------------------
(***************************************************************************)
(* Proofs about TcpServer, for every table size, set of addresses,         *)
(* descriptors, application threads and bound.                             *)
(***************************************************************************)
EXTENDS TcpServer, TLAPS

\* While the thread scans, its index is at most one past its last client.
ScanInRange ==
  \A p \in Ports : pc[p] \in {"scan", "rewait"} => loop[p] <= sockCnt[p]

\* What TypeOK needs to be inductive: loop grows only while it is in use.
TypeInv == TypeOK /\ CountNeverLost /\ ScanInRange

-----------------------------------------------------------------------------
(* The operators the model is built from.                                   *)

\* A removal keeps a table a table.
LEMMA CloseGapType ==
  ASSUME NEW S, NEW tbl \in [Slots -> S], NEW k \in Nat, NEW n \in 1..ClientMax,
         NEW last \in S, NEW past \in S
  PROVE  CloseGap(tbl, k, n, last, past) \in [Slots -> S]
<1> SUFFICES ASSUME NEW i \in Slots
             PROVE  CloseGap(tbl, k, n, last, past)[i] \in S
  BY DEF CloseGap
<1>1. CASE n > 2 /\ i >= k /\ i < n - 1
  <2>1. i + 1 \in Slots
    BY <1>1, ServerAssumption DEF Slots
  <2> QED BY <1>1, <2>1 DEF CloseGap
<1>2. CASE ~(n > 2 /\ i >= k /\ i < n - 1)
  BY <1>2 DEF CloseGap
<1> QED BY <1>1, <1>2

\* What a removal leaves in the entries that stay in use.
LEMMA CloseGapEntry ==
  ASSUME NEW tbl, NEW n \in 3..ClientMax,
         NEW k \in 1..(n - 1), NEW last, NEW past, NEW i \in 0..(n - 2)
  PROVE  CloseGap(tbl, k, n, last, past)[i] = IF i < k THEN tbl[i] ELSE tbl[i + 1]
<1>1. i \in Slots
  BY ServerAssumption DEF Slots
<1> QED BY <1>1 DEF CloseGap

\* Closing a descriptor, and accepting one, keeps the sockets well formed.
LEMMA SocketsType ==
  ASSUME sock \in [Fds -> Socket]
  PROVE  /\ \A fd : Closing(fd) \in [Fds -> Socket]
         /\ \A p \in Ports, f \in Fds, a \in Addr :
              Accepted(p, f, a) \in [Fds -> Socket]
<1>1. NoSock \in Socket
  BY DEF NoSock, Socket, SockStates
<1>2. ASSUME NEW p \in Ports, NEW a \in Addr
      PROVE  [state |-> "open", data |-> 0, port |-> p, addr |-> a] \in Socket
  BY DEF Socket, SockStates
<1> QED BY <1>1, <1>2 DEF Closing, Accepted

\* So is a call that starts, or that moves on to its next port.
LEMMA NewCallType ==
  ASSUME NEW ports \in SUBSET Ports, NEW a \in Addr \cup {NoAddr, Marked}
  PROVE  NewCall(ports, a) \in Call /\ NoCall \in Call
<1>1. 0 \in Slots
  BY ServerAssumption DEF Slots
<1>2. NoCall \in Call
  BY <1>1 DEF NoCall, Call, CallAts
<1> QED BY <1>2 DEF NewCall, Call, CallAts

-----------------------------------------------------------------------------
(* Type correctness.                                                        *)

LEMMA TypeInit == Init => TypeInv
<1> SUFFICES ASSUME Init PROVE TypeInv
  OBVIOUS
<1> USE ServerAssumption DEF Init, Slots, Ports, Port1, Port2
<1>1. TypeOK
  BY DEF TypeOK, PcValues, NoConn, Connection, NoCall, Call, CallAts, NoSock,
         Socket, SockStates
<1>2. CountNeverLost /\ ScanInRange
  BY DEF CountNeverLost, ScanInRange
<1> QED BY <1>1, <1>2 DEF TypeInv

\* The environment touches sockets, the accept queue and new calls only.
LEMMA TypeEnvironment == TypeInv /\ Environment => TypeInv'
<1> SUFFICES ASSUME TypeInv, Environment PROVE TypeInv'
  OBVIOUS
<1> USE DEF TypeInv, TypeOK, Running, tables, thread, world
<1>sock. sock \in [Fds -> Socket]
  OBVIOUS
<1>call. call \in [Callers -> Call]
  OBVIOUS
<1>1. ASSUME NEW p \in Ports, NEW a \in Addr, Connect(p, a)
      PROVE  TypeInv'
  <2>1. pending' \in [Ports -> Seq(Addr)]
    BY <1>1 DEF Connect
  <2>2. visits' \in [Ports -> [Addr -> Nat]]
    BY <1>1 DEF Connect
  <2> QED BY <1>1, <2>1, <2>2 DEF Connect, CountNeverLost, ScanInRange
<1>2. ASSUME NEW f \in Fds, PeerSends(f) \/ PeerCloses(f) \/ PeerResets(f)
      PROVE  TypeInv'
  <2>1. sock' \in [Fds -> Socket]
    <3> HIDE DEF TypeInv, TypeOK
    <3> QED BY <1>2, <1>sock
            DEF PeerSends, PeerCloses, PeerResets, Socket, SockStates
  <2> QED BY <1>2, <2>1
         DEF PeerSends, PeerCloses, PeerResets, CountNeverLost, ScanInRange
<1>3. ASSUME NEW s \in Senders, NEW ports \in SUBSET Ports, NEW a \in Addr,
             AppSends(s, ports, a)
      PROVE  TypeInv'
  <2>1. NewCall(ports, a) \in Call
    BY NewCallType
  <2>2. call' \in [Callers -> Call]
    <3> HIDE DEF TypeInv, TypeOK
    <3> QED BY <1>3, <1>call, <2>1 DEF AppSends
  <2> QED BY <1>3, <2>2 DEF AppSends, CountNeverLost, ScanInRange
<1> QED BY <1>1, <1>2, <1>3 DEF Environment

\* A call of SendTcpDataFromServer changes itself, its semaphore, an address
\* and a socket, and leaves the receivers where they are.
LEMMA TypeCall ==
  ASSUME NEW c \in Callers, TypeInv, CallStep(c)
  PROVE  TypeInv'
<1> USE DEF TypeInv, TypeOK, Running, tables, thread, world
<1>p. PortOf(c) \in Ports
  BY DEF PortOf, Ports
<1>call. call \in [Callers -> Call]
  OBVIOUS
<1>sock. sock \in [Fds -> Socket]
  OBVIOUS
<1>1. CASE SendFinds(c)
  <2>1. call' \in [Callers -> Call]
    <3>1. PICK k \in Slots : call' = [call EXCEPT ![c].at = "found", ![c].slot = k]
      BY <1>1 DEF SendFinds
    <3> HIDE DEF TypeInv, TypeOK
    <3> DEFINE next == [call[c] EXCEPT !.at = "found", !.slot = k]
    <3>2. next \in Call
      BY <1>call DEF Call, CallAts
    <3>3. call' = [call EXCEPT ![c] = next]
      BY <1>call, <3>1
    <3> QED BY <1>call, <3>2, <3>3
  <2>2. semInfo' \in [Ports -> Int]
    BY <1>1, <1>p DEF SendFinds
  <2> QED BY <1>1, <2>1, <2>2 DEF SendFinds, CountNeverLost, ScanInRange
<1>r. CASE SendReads(c)
  <2>1. call' \in [Callers -> Call]
    <3>1. call[c].slot \in Slots
      BY <1>call DEF Call
    <3>2. cliFd[PortOf(c)][call[c].slot] \in Fds \cup {0, NoFd}
      BY <1>p, <3>1
    <3> HIDE DEF TypeInv, TypeOK
    <3> DEFINE next == [call[c] EXCEPT !.at = "send", !.fd = cliFd[PortOf(c)][call[c].slot]]
    <3>3. next \in Call
      BY <1>call, <3>2 DEF Call, CallAts
    <3>4. call' = [call EXCEPT ![c] = next]
      BY <1>r, <1>call DEF SendReads
    <3> QED BY <1>call, <3>3, <3>4
  <2> QED BY <1>r, <2>1 DEF SendReads, CountNeverLost, ScanInRange
<1>2. CASE SendMisses(c)
  <2>1. call' \in [Callers -> Call]
    <3> HIDE DEF TypeInv, TypeOK
    <3> QED BY <1>2, <1>call DEF SendMisses, Call, CallAts
  <2>2. semInfo' \in [Ports -> Int]
    BY <1>2, <1>p DEF SendMisses
  <2> QED BY <1>2, <2>1, <2>2 DEF SendMisses, CountNeverLost, ScanInRange
<1>3. CASE SendSucceeds(c)
  <2>1. call' \in [Callers -> Call]
    <3> HIDE DEF TypeInv, TypeOK
    <3> QED BY <1>3, <1>call DEF SendSucceeds, Call, CallAts
  <2>2. sock' \in [Fds -> Socket]
    <3> HIDE DEF TypeInv, TypeOK
    <3> DEFINE f == call[c].fd
               next == [sock[f] EXCEPT !.state = IF @ = "fin" THEN "pipe" ELSE @]
    <3>1. f \in Fds /\ sock' = [sock EXCEPT ![f] = next]
      BY <1>3, <1>sock DEF SendSucceeds, StateOf
    <3>2. next \in Socket
      BY <3>1, <1>sock DEF Socket, SockStates
    <3> QED BY <1>sock, <3>1, <3>2
  <2> QED BY <1>3, <2>1, <2>2 DEF SendSucceeds, CountNeverLost, ScanInRange
<1>4. CASE SendFails(c)
  <2>1. call' \in [Callers -> Call]
    <3> DEFINE next == [call[c] EXCEPT !.at = "finish", !.failed = TRUE]
    <3> HIDE DEF TypeInv, TypeOK
    <3>1. next \in Call
      BY <1>call DEF Call, CallAts
    <3>2. call' = [call EXCEPT ![c] = next]
      BY <1>4, <1>call DEF SendFails
    <3> QED BY <1>call, <3>1, <3>2
  <2>2. sock' \in [Fds -> Socket]
    <3> HIDE DEF TypeInv, TypeOK
    <3> QED BY <1>4, <1>sock DEF SendFails, Socket, SockStates
  <2> QED BY <1>4, <2>1, <2>2 DEF SendFails, CountNeverLost, ScanInRange
<1>5. CASE SendKilled(c)
  BY <1>5 DEF SendKilled, CountNeverLost, ScanInRange
<1>6. CASE SendFinishes(c)
  <2> DEFINE left == call[c].todo \ {PortOf(c)}
  <2>1. NewCall(left, call[c].addr) \in Call /\ NoCall \in Call
    <3>1. left \in SUBSET Ports /\ call[c].addr \in Addr \cup {NoAddr, Marked}
      BY <1>call DEF Call
    <3> QED BY <3>1, NewCallType
  <2>2. call' \in [Callers -> Call]
    <3> HIDE DEF TypeInv, TypeOK
    <3> QED BY <1>6, <1>call, <2>1 DEF SendFinishes
  <2>3. cliIpAddress' \in [Ports -> [Slots -> Addr \cup {NoAddr, Marked}]]
    BY <1>6, <1>p DEF SendFinishes
  <2>4. semInfo' \in [Ports -> Int]
    <3>1. Port1 \in Ports
      BY DEF Ports
    <3> QED BY <1>6, <3>1 DEF SendFinishes, SemAfterSend
  <2> QED BY <1>6, <2>2, <2>3, <2>4
         DEF SendFinishes, CountNeverLost, ScanInRange
<1> QED BY <1>1, <1>r, <1>2, <1>3, <1>4, <1>5, <1>6 DEF CallStep

\* Installing a connection: the count grows only while it is below the table's
\* size.
LEMMA TypeInstall ==
  ASSUME NEW p \in Ports, TypeInv,
         \/ \E f \in Fds : AcceptDuplicate(p, f) \/ AcceptNew(p, f) \/ AcceptFull(p, f)
         \/ DupReplace(p)
  PROVE  TypeInv'
<1> USE DEF TypeInv, TypeOK, Running, tables, thread, world
<1>1. ASSUME NEW f \in Fds, Accepting(p, f)
      PROVE  /\ pending' \in [Ports -> Seq(Addr)]
             /\ Head(pending[p]) \in Addr
             /\ visits' \in [Ports -> [Addr -> Nat]]
             /\ alive' \in BOOLEAN
  BY <1>1 DEF Accepting
<1>2. ASSUME NEW f \in Fds, AcceptDuplicate(p, f)
      PROVE  TypeInv'
  <2> DEFINE a == Head(pending[p])
  <2>1. Accepting(p, f)
    BY <1>2 DEF AcceptDuplicate
  <2>2. a \in Addr
    BY <1>1, <2>1
  <2>3. conn' \in [Ports -> Connection]
    BY <1>2, <2>2 DEF AcceptDuplicate, Connection
  <2>4. sock' \in [Fds -> Socket]
    BY <1>2, <2>2, SocketsType DEF AcceptDuplicate
  <2>5. pc' \in [Ports -> PcValues]
    BY <1>2 DEF AcceptDuplicate, PcValues
  <2>6. TypeOK'
    BY <1>1, <1>2, <2>1, <2>3, <2>4, <2>5 DEF AcceptDuplicate
  <2> QED BY <1>2, <2>6 DEF AcceptDuplicate, CountNeverLost, ScanInRange
<1>3. ASSUME NEW f \in Fds, AcceptNew(p, f)
      PROVE  TypeInv'
  <2> DEFINE a == Head(pending[p])
             n == sockCnt[p]
  <2>1. Accepting(p, f) /\ pc[p] = "poll"
    BY <1>3 DEF AcceptNew, Accepting
  <2>2. a \in Addr
    BY <1>1, <2>1
  <2>3. n \in Slots /\ n + 1 \in 1..ClientMax
    <3>1. n \in 1..ClientMax /\ n < ClientMax
      BY <1>3 DEF AcceptNew, HasRoom
    <3> HIDE DEF TypeInv, TypeOK, n
    <3> QED BY <3>1, ServerAssumption DEF Slots
  <2>4. sock' \in [Fds -> Socket]
    BY <1>3, <2>2, SocketsType DEF AcceptNew
  <2>5. /\ pollFd' \in [Ports -> [Slots -> Fds \cup {0, NoFd}]]
        /\ cliFd' \in [Ports -> [Slots -> Fds \cup {0, NoFd}]]
        /\ cliIpAddress' \in [Ports -> [Slots -> Addr \cup {NoAddr, Marked}]]
    BY <1>3, <2>2, <2>3 DEF AcceptNew
  <2>6. sockCnt' \in [Ports -> 1..ClientMax]
    BY <1>3, <2>3 DEF AcceptNew
  <2>7. TypeOK'
    BY <1>1, <1>3, <2>1, <2>4, <2>5, <2>6 DEF AcceptNew
  <2>8. \A q \in Ports : q # p => sockCnt'[q] = sockCnt[q]
    BY <1>3 DEF AcceptNew
  <2> QED BY <1>3, <2>1, <2>7, <2>8 DEF AcceptNew, CountNeverLost, ScanInRange
<1>4. ASSUME NEW f \in Fds, AcceptFull(p, f)
      PROVE  TypeInv'
  <2>1. Accepting(p, f)
    BY <1>4 DEF AcceptFull
  <2> QED BY <1>1, <1>4, <2>1 DEF AcceptFull, CountNeverLost, ScanInRange
<1>5. CASE DupReplace(p)
  <2>1. conn[p] \in Connection /\ NoConn \in Connection
    <3>1. 0 \in Slots
      BY ServerAssumption DEF Slots
    <3> QED BY <3>1 DEF NoConn, Connection
  <2>2. sock' \in [Fds -> Socket]
    BY <1>5, SocketsType DEF DupReplace
  <2>3. /\ pollFd' \in [Ports -> [Slots -> Fds \cup {0, NoFd}]]
        /\ cliFd' \in [Ports -> [Slots -> Fds \cup {0, NoFd}]]
        /\ cliIpAddress' \in [Ports -> [Slots -> Addr \cup {NoAddr, Marked}]]
    BY <1>5, <2>1 DEF DupReplace, Connection
  <2>4. conn' \in [Ports -> Connection] /\ pc' \in [Ports -> PcValues]
    BY <1>5, <2>1 DEF DupReplace, PcValues
  <2>5. TypeOK'
    BY <1>5, <2>2, <2>3, <2>4 DEF DupReplace
  <2> QED BY <1>5, <2>5 DEF DupReplace, CountNeverLost, ScanInRange
<1> QED BY <1>2, <1>3, <1>4, <1>5

\* A pass over the clients: the index stays at most one past the last one.
LEMMA TypeScan ==
  ASSUME NEW p \in Ports, TypeInv,
         \/ PollScan(p) \/ ScanEnds(p) \/ ScanFindsMarked(p) \/ ScanSkips(p)
         \/ RecvData(p) \/ RecvEnds(p) \/ RecvFails(p)
         \/ EchoCalls(p) \/ EchoReturns(p) \/ SweepWaits(p)
  PROVE  TypeInv'
<1> USE ServerAssumption
    DEF TypeInv, TypeOK, Running, tables, thread, world, Goes, EndPass
<1>sock. sock \in [Fds -> Socket]
  OBVIOUS
<1>call. call \in [Callers -> Call]
  OBVIOUS
<1>1. CASE PollScan(p)
  <2>1. TypeOK'
    BY <1>1 DEF PollScan, PcValues, Readable, HasData, StateOf
  <2> QED BY <1>1, <2>1 DEF PollScan, CountNeverLost, ScanInRange
<1>2. CASE ScanEnds(p)
  <2>1. TypeOK'
    BY <1>2 DEF ScanEnds, PcValues
  <2> QED BY <1>2, <2>1 DEF ScanEnds, CountNeverLost, ScanInRange
<1>3. CASE ScanFindsMarked(p)
  <2>1. TypeOK'
    BY <1>3 DEF ScanFindsMarked, PcValues
  <2> QED BY <1>3, <2>1
         DEF ScanFindsMarked, Scanning, CountNeverLost, ScanInRange
<1>4. CASE ScanSkips(p)
  <2>1. TypeOK'
    BY <1>4 DEF ScanSkips, Scanning
  <2> QED BY <1>4, <2>1 DEF ScanSkips, Scanning, CountNeverLost, ScanInRange
<1>5. CASE RecvData(p)
  <2>1. sock' \in [Fds -> Socket]
    <3> DEFINE f == pollFd[p][loop[p]]
               next == [sock[f] EXCEPT !.data = @ - 1]
    <3>1. f \in Fds /\ sock[f].data > 0 /\ sock' = [sock EXCEPT ![f] = next]
      BY <1>5 DEF RecvData, HasData
    <3>2. next \in Socket
      <4> HIDE DEF TypeInv, TypeOK, f
      <4>1. sock[f] \in Socket
        BY <3>1, <1>sock
      <4>2. sock[f].data - 1 \in Nat
        BY <3>1, <4>1 DEF Socket
      <4> QED BY <4>1, <4>2 DEF Socket
    <3> QED BY <1>sock, <3>1, <3>2
  <2>2. TypeOK'
    BY <1>5, <2>1 DEF RecvData, PcValues
  <2> QED BY <1>5, <2>2 DEF RecvData, Scanning, CountNeverLost, ScanInRange
<1>6. CASE RecvEnds(p)
  <2>1. TypeOK'
    BY <1>6 DEF RecvEnds, PcValues
  <2> QED BY <1>6, <2>1 DEF RecvEnds, Scanning, CountNeverLost, ScanInRange
<1>7. CASE RecvFails(p)
  <2>1. sock' \in [Fds -> Socket]
    <3> HIDE DEF TypeInv, TypeOK
    <3> QED BY <1>7, <1>sock DEF RecvFails, Socket, SockStates
  <2>2. TypeOK'
    BY <1>7, <2>1 DEF RecvFails, PcValues
  <2> QED BY <1>7, <2>2 DEF RecvFails, Scanning, CountNeverLost, ScanInRange
<1>8. CASE EchoCalls(p)
  <2>1. loop[p] \in Slots
    <3>1. loop[p] < sockCnt[p]
      BY <1>8 DEF EchoCalls, CountNeverLost
    <3>2. loop[p] \in 1..ClientMax /\ sockCnt[p] \in 1..ClientMax
      OBVIOUS
    <3> HIDE DEF TypeInv, TypeOK
    <3> QED BY <3>1, <3>2 DEF Slots
  <2>2. NewCall({p}, cliIpAddress[p][loop[p]]) \in Call
    <3>1. cliIpAddress[p][loop[p]] \in Addr \cup {NoAddr, Marked}
      BY <2>1
    <3> QED BY <3>1, NewCallType
  <2>3. call' \in [Callers -> Call]
    BY <1>8, <2>2 DEF EchoCalls
  <2>4. TypeOK'
    BY <1>8, <2>3 DEF EchoCalls, PcValues
  <2> QED BY <1>8, <2>4 DEF EchoCalls, CountNeverLost, ScanInRange
<1>9. CASE EchoReturns(p)
  <2>1. loop[p] < sockCnt[p]
    BY <1>9 DEF EchoReturns, CountNeverLost
  <2>2. TypeOK'
    BY <1>9, <2>1 DEF EchoReturns, PcValues
  <2> QED BY <1>9, <2>1, <2>2 DEF EchoReturns, CountNeverLost, ScanInRange
<1>10. CASE SweepWaits(p)
  <2>1. TypeOK'
    BY <1>10 DEF SweepWaits, PcValues
  <2> QED BY <1>10, <2>1 DEF SweepWaits, CountNeverLost, ScanInRange
<1> QED BY <1>1, <1>2, <1>3, <1>4, <1>5, <1>6, <1>7, <1>8, <1>9, <1>10

\* The six ways the code ends a client.
Removal(p) ==
  \/ SweepLast(p) \/ SweepOne(p)
  \/ DropFailedLast(p) \/ DropFailed(p)
  \/ DropEndedLast(p) \/ DropEnded(p)

\* What they have in common: the client at loop is in use, the tables stay
\* tables, and there is one client less.
LEMMA DropType ==
  ASSUME NEW p \in Ports, TypeInv, Drop(p), loop[p] < sockCnt[p]
  PROVE  /\ sock' \in [Fds -> Socket]
         /\ cliFd' \in [Ports -> [Slots -> Fds \cup {0, NoFd}]]
         /\ cliIpAddress' \in [Ports -> [Slots -> Addr \cup {NoAddr, Marked}]]
         /\ pollFd' \in [Ports -> [Slots -> Fds \cup {0, NoFd}]]
         /\ ReventsAfterDrop(p) \in [Ports -> [Slots -> BOOLEAN]]
         /\ NoRevents(p) \in [Ports -> [Slots -> BOOLEAN]]
         /\ \A net \in Int : SemAfterDrop(p, net) \in [Ports -> Int]
         /\ sockCnt' = [sockCnt EXCEPT ![p] = @ - 1]
         /\ sockCnt' \in [Ports -> 1..ClientMax]
<1> DEFINE k == loop[p]
           n == sockCnt[p]
<1>1. k \in Nat /\ k >= 1 /\ n \in 1..ClientMax /\ n >= 2 /\ ClientMax \in Nat
  BY ServerAssumption DEF TypeInv, TypeOK
<1>2. Port1 \in Ports /\ Port2 \in Ports
  BY DEF Ports
<1>3. sock' \in [Fds -> Socket]
  BY SocketsType DEF Drop, TypeInv, TypeOK
<1>4. ASSUME NEW S, NEW tbls \in [Ports -> [Slots -> S]], NEW last \in S, NEW past \in S
      PROVE  [tbls EXCEPT ![p] = CloseGap(@, k, n, last, past)]
               \in [Ports -> [Slots -> S]]
  <2>1. CloseGap(tbls[p], k, n, last, past) \in [Slots -> S]
    BY <1>1, CloseGapType
  <2> QED BY <2>1
<1>5. cliFd' \in [Ports -> [Slots -> Fds \cup {0, NoFd}]]
  <2>1. [cliFd EXCEPT ![p] = CloseGap(@, k, n, NoFd, NoFd)]
          \in [Ports -> [Slots -> Fds \cup {0, NoFd}]]
    BY <1>4 DEF TypeInv, TypeOK
  <2> QED BY <2>1 DEF Drop, FdsAfterDrop
<1>6. cliIpAddress' \in [Ports -> [Slots -> Addr \cup {NoAddr, Marked}]]
  <2>1. [cliIpAddress EXCEPT ![p] = CloseGap(@, k, n, NoAddr, NoAddr)]
          \in [Ports -> [Slots -> Addr \cup {NoAddr, Marked}]]
    BY <1>4 DEF TypeInv, TypeOK
  <2> QED BY <2>1 DEF Drop, AddressesAfterDrop
<1>7. pollFd' \in [Ports -> [Slots -> Fds \cup {0, NoFd}]]
  <2>1. CloseGap(pollFd[p], k, n, 0, 0) \in [Slots -> Fds \cup {0, NoFd}]
    BY <1>1, CloseGapType DEF TypeInv, TypeOK
  <2> QED BY <2>1 DEF Drop, PollFdsAfterDrop, TypeInv, TypeOK
<1>8. ReventsAfterDrop(p) \in [Ports -> [Slots -> BOOLEAN]]
  BY <1>4 DEF ReventsAfterDrop, TypeInv, TypeOK
<1>9. NoRevents(p) \in [Ports -> [Slots -> BOOLEAN]]
  BY DEF NoRevents, TypeInv, TypeOK
<1>10. ASSUME NEW net \in Int
       PROVE  SemAfterDrop(p, net) \in [Ports -> Int]
  BY <1>2 DEF SemAfterDrop, TypeInv, TypeOK
<1>11. sockCnt' = [sockCnt EXCEPT ![p] = @ - 1]
  <2>1. sockCnt' = [sockCnt EXCEPT ![p] = IF @ < 2 THEN @ ELSE @ - 1]
    BY DEF Drop, CountAfterDrop
  <2>2. ~(sockCnt[p] < 2)
    BY <1>1
  <2> QED BY <2>1, <2>2
<1>12. sockCnt' \in [Ports -> 1..ClientMax]
  BY <1>1, <1>11 DEF TypeInv, TypeOK
<1> QED BY <1>3, <1>5, <1>6, <1>7, <1>8, <1>9, <1>10, <1>11, <1>12

LEMMA TypeRemoval ==
  ASSUME NEW p \in Ports, TypeInv, Removal(p)
  PROVE  TypeInv'
<1>1. /\ Drop(p)
      /\ pc[p] \in {"sweep", "rmerr", "rmfin"}
      /\ \/ EndPass(p)
         \/ pc' = [pc EXCEPT ![p] = "rewait"] /\ UNCHANGED loop
         \/ pc' = [pc EXCEPT ![p] = "scan"] /\ UNCHANGED loop
      /\ revents' \in {ReventsAfterDrop(p), NoRevents(p)}
      /\ \E net \in {-1, 0} : semInfo' = SemAfterDrop(p, net)
  BY DEF Removal, SweepLast, SweepOne, DropFailedLast, DropFailed,
         DropEndedLast, DropEnded
<1>2. loop[p] < sockCnt[p]
  BY <1>1 DEF TypeInv, CountNeverLost
<1>3. pc' \in [Ports -> PcValues] /\ loop' \in [Ports -> 1..ClientMax]
  <2>1. {"poll", "rewait", "scan"} \subseteq PcValues /\ 1 \in 1..ClientMax
    BY ServerAssumption DEF PcValues
  <2>2. pc \in [Ports -> PcValues] /\ loop \in [Ports -> 1..ClientMax]
    BY DEF TypeInv, TypeOK
  <2> QED BY <1>1, <2>1, <2>2 DEF EndPass
<1>4. TypeOK'
  <2>1. revents' \in [Ports -> [Slots -> BOOLEAN]]
    BY <1>1, <1>2, DropType
  <2>2. semInfo' \in [Ports -> Int]
    BY <1>1, <1>2, DropType
  <2>3. /\ cliFd' \in [Ports -> [Slots -> Fds \cup {0, NoFd}]]
        /\ cliIpAddress' \in [Ports -> [Slots -> Addr \cup {NoAddr, Marked}]]
        /\ pollFd' \in [Ports -> [Slots -> Fds \cup {0, NoFd}]]
        /\ sockCnt' \in [Ports -> 1..ClientMax]
        /\ sock' \in [Fds -> Socket]
    BY <1>1, <1>2, DropType
  <2>4. UNCHANGED <<conn, pending, visits, call, alive>>
    BY <1>1 DEF Drop, world, Running
  <2> QED BY <1>3, <2>1, <2>2, <2>3, <2>4 DEF TypeInv, TypeOK
<1>5. CountNeverLost' /\ ScanInRange'
  <2>1. sockCnt' = [sockCnt EXCEPT ![p] = @ - 1]
    BY <1>1, <1>2, DropType
  <2> QED BY <1>1, <1>2, <2>1
          DEF EndPass, TypeInv, TypeOK, CountNeverLost, ScanInRange
<1> QED BY <1>4, <1>5 DEF TypeInv

\* TypeInv is inductive.
LEMMA TypeStep == TypeInv /\ [Next]_vars => TypeInv'
<1> SUFFICES ASSUME TypeInv, [Next]_vars PROVE TypeInv'
  OBVIOUS
<1>1. CASE UNCHANGED vars
  BY <1>1 DEF vars, tables, thread, world, TypeInv, TypeOK, CountNeverLost,
              ScanInRange
<1>2. CASE Environment
  BY <1>2, TypeEnvironment
<1>3. ASSUME NEW c \in Callers, CallStep(c) PROVE TypeInv'
  BY <1>3, TypeCall
<1>4. ASSUME NEW p \in Ports, Receiver(p) PROVE TypeInv'
  BY <1>4, TypeInstall, TypeScan, TypeRemoval DEF Receiver, Removal
<1> QED BY <1>1, <1>2, <1>3, <1>4 DEF Next

LEMMA TypeInvariant == Spec => []TypeInv
<1> QED BY TypeInit, TypeStep, PTL DEF Spec

\* Every variable keeps to the values the code can give it.
THEOREM TypeCorrect == Spec => []TypeOK
<1>1. TypeInv => TypeOK
  BY DEF TypeInv
<1> QED BY <1>1, TypeInvariant, PTL

\* The case the code calls impossible is: whenever a thread gets to a removal
\* or an echo, its index is that of a client.
THEOREM CountCorrect == Spec => []CountNeverLost
<1>1. TypeInv => CountNeverLost
  BY DEF TypeInv
<1> QED BY <1>1, TypeInvariant, PTL

-----------------------------------------------------------------------------
(* The semaphores: when each is a lock, and that a lock that was lost is     *)
(* lost for good.                                                           *)

\* A receiver is in a call of SendTcpDataFromServer only while it echoes.
EchoInv == \A p \in Ports : pc[p] # "echo" => call[p].at = "none"

\* What a caller is to the lock of port q.
Holds(c, q) == call[c].at \in {"found", "send", "finish"} /\ PortOf(c) = q

LEMMA HoldersAre ==
  \A q \in Ports : Holders(q) =
    {c \in Callers : Holds(c, q)} \cup (IF pc[q] = "rewait" THEN {q} ELSE {})
BY DEF Holders, Holds

-----------------------------------------------------------------------------
LEMMA EchoStep == TypeInv /\ EchoInv /\ [Next]_vars => EchoInv'
<1> SUFFICES ASSUME TypeInv, EchoInv, [Next]_vars, NEW q \in Ports
             PROVE  pc'[q] # "echo" => call'[q].at = "none"
  BY DEF EchoInv
<1>t. /\ pc \in [Ports -> PcValues] /\ call \in [Callers -> Call]
      /\ q \in Callers /\ Senders \cap Ports = {}
      /\ pc[q] # "echo" => call[q].at = "none"
  BY ServerAssumption DEF TypeInv, TypeOK, EchoInv, Callers
<1> USE DEF tables, thread, world
<1>1. CASE UNCHANGED vars
  BY <1>1, <1>t DEF vars
<1>2. CASE Environment
  <2>1. ASSUME NEW s \in Senders, NEW ports, NEW a, AppSends(s, ports, a)
        PROVE  pc' = pc /\ call'[q] = call[q]
    BY <2>1, <1>t DEF AppSends
  <2> QED BY <1>2, <1>t, <2>1
         DEF Environment, Connect, PeerSends, PeerCloses, PeerResets
<1>3. ASSUME NEW c \in Callers, CallStep(c)
      PROVE  pc'[q] # "echo" => call'[q].at = "none"
  <2>1. call[c].at # "none" /\ pc' = pc
    BY <1>3 DEF CallStep, SendFinds, SendReads, SendMisses, SendSucceeds, SendFails,
                SendKilled, SendFinishes
  <2>2. \A d \in Callers : d # c => call'[d] = call[d]
    BY <1>3, <1>t DEF CallStep, SendFinds, SendReads, SendMisses, SendSucceeds, SendFails,
                SendKilled, SendFinishes
  <2> QED BY <2>1, <2>2, <1>t
<1>4. ASSUME NEW p \in Ports, Receiver(p)
      PROVE  pc'[q] # "echo" => call'[q].at = "none"
  <2>1. CASE EchoCalls(p)
    BY <2>1, <1>t DEF EchoCalls, Goes
  <2>2. CASE EchoReturns(p)
    BY <2>2, <1>t DEF EchoReturns
  <2>3. CASE Removal(p)
    BY <2>3, <1>t
       DEF Removal, SweepLast, SweepOne, DropFailedLast, DropFailed,
           DropEndedLast, DropEnded, EndPass, Drop
  <2>4. CASE \/ \E f \in Fds : AcceptDuplicate(p, f) \/ AcceptNew(p, f) \/ AcceptFull(p, f)
             \/ DupReplace(p)
    BY <2>4, <1>t DEF AcceptDuplicate, AcceptNew, AcceptFull, Accepting, DupReplace
  <2>5. CASE \/ PollScan(p) \/ ScanEnds(p) \/ ScanFindsMarked(p) \/ ScanSkips(p)
             \/ RecvData(p) \/ RecvEnds(p) \/ RecvFails(p) \/ SweepWaits(p)
    BY <2>5, <1>t DEF PollScan, ScanEnds, ScanFindsMarked, ScanSkips, Scanning,
                 RecvData, RecvEnds, RecvFails, SweepWaits, Goes, EndPass
  <2> QED BY <1>4, <2>1, <2>2, <2>3, <2>4, <2>5 DEF Receiver, Removal
<1> QED BY <1>1, <1>2, <1>3, <1>4 DEF Next

-----------------------------------------------------------------------------
\* A step that leaves the semaphore and its holders alone keeps a lock a lock.
LEMMA SameHolders ==
  ASSUME NEW q \in Ports, semInfo'[q] = semInfo[q],
         \A c \in Callers : Holds(c, q)' <=> Holds(c, q),
         pc'[q] = "rewait" <=> pc[q] = "rewait"
  PROVE  (Holders(q)' = Holders(q)) /\ (IsLock(q) => IsLock(q)') /\ (Leaked(q) => Leaked(q)')
<1>1. Holders(q)' = Holders(q)
  BY DEF Holders, Holds
<1> QED BY <1>1 DEF IsLock, Leaked

\* Waiting takes the lock only while nobody holds it.
LEMMA WaitsFree ==
  ASSUME NEW q \in Ports, IsLock(q), CanWait(q)
  PROVE  semInfo[q] = 1 /\ Holders(q) = {}
BY DEF IsLock, CanWait

\* The calls of SendTcpDataFromServer.
LEMMA LockCall ==
  ASSUME TypeInv, EchoInv, NEW c \in Callers, CallStep(c), NEW q \in Ports, IsLock(q)
  PROVE  IsLock(q)'
<1>t. /\ call \in [Callers -> Call] /\ semInfo \in [Ports -> Int]
      /\ PortOf(c) \in Ports /\ q \in Callers /\ Port1 \in Ports
  BY DEF TypeInv, TypeOK, PortOf, Ports, Callers
<1>p. UNCHANGED pc
  BY DEF CallStep, SendFinds, SendReads, SendMisses, SendSucceeds, SendFails, SendKilled,
         SendFinishes, thread
<1>d. \A d \in Callers : d # c => (Holds(d, q)' <=> Holds(d, q))
  <2>1. \A d \in Callers : d # c => call'[d] = call[d]
    BY <1>t DEF CallStep, SendFinds, SendReads, SendMisses, SendSucceeds, SendFails,
                SendKilled, SendFinishes
  <2> QED BY <2>1 DEF Holds, PortOf
<1>1. CASE SendFinds(c) \/ SendMisses(c)
  <2>1. /\ call[c].at = "wait" /\ CanWait(PortOf(c))
        /\ semInfo' = [semInfo EXCEPT ![PortOf(c)] = @ - 1]
    BY <1>1 DEF SendFinds, SendMisses
  <2>2. call'[c].at \in {"found", "send", "finish"} /\ call'[c].todo = call[c].todo
    <3>1. CASE SendFinds(c)
      <4>1. PICK k \in Slots : call' = [call EXCEPT ![c].at = "found", ![c].slot = k]
        BY <3>1 DEF SendFinds
      <4>2. call'[c] = [call[c] EXCEPT !.at = "found", !.slot = k]
        BY <4>1, <1>t
      <4> QED BY <4>2, <1>t DEF Call
    <3>2. CASE SendMisses(c)
      BY <3>2, <1>t DEF SendMisses, Call
    <3> QED BY <1>1, <3>1, <3>2
  <2>3. PortOf(c)' = PortOf(c)
    BY <2>2 DEF PortOf
  <2>4. CASE PortOf(c) # q
    <3>1. ~Holds(c, q) /\ ~Holds(c, q)'
      BY <2>1, <2>3, <2>4 DEF Holds
    <3>2. semInfo'[q] = semInfo[q]
      BY <2>1, <2>4, <1>t
    <3>3. \A d \in Callers : Holds(d, q)' <=> Holds(d, q)
      BY <3>1, <1>d
    <3> QED BY <3>2, <3>3, <1>p, SameHolders
  <2>5. CASE PortOf(c) = q
    <3>1. semInfo[q] = 1 /\ Holders(q) = {}
      BY <2>1, <2>5, WaitsFree
    <3>2. semInfo'[q] = 0
      BY <2>1, <2>5, <3>1, <1>t
    <3>3. \A d \in Holders(q)' : d = c
      BY <3>1, <1>d, <1>p DEF Holders, Holds
    <3> QED BY <3>2, <3>3 DEF IsLock
  <2> QED BY <2>4, <2>5
<1>2. CASE SendReads(c) \/ SendSucceeds(c) \/ SendFails(c) \/ SendKilled(c)
  <2>1. /\ call[c].at \in {"found", "send", "finish"}
        /\ call'[c].at \in {"found", "send", "finish"}
        /\ call'[c].todo = call[c].todo /\ semInfo' = semInfo
    BY <1>2, <1>t DEF SendReads, SendSucceeds, SendFails, SendKilled, Call
  <2>2. \A d \in Callers : Holds(d, q)' <=> Holds(d, q)
    BY <2>1, <1>d DEF Holds, PortOf
  <2> QED BY <2>1, <2>2, <1>p, SameHolders
<1>3. CASE SendFinishes(c)
  <2>1. call[c].at = "finish" /\ semInfo' = SemAfterSend(PortOf(c))
    BY <1>3 DEF SendFinishes
  <2>2. call'[c].at \in {"none", "wait"}
    BY <1>3, <1>t DEF SendFinishes, NewCall, NoCall
  <2>3. CASE PortOf(c) # q
    <3>1. ~Holds(c, q) /\ ~Holds(c, q)'
      BY <2>2, <2>3 DEF Holds
    <3>2. semInfo'[q] = semInfo[q]
      BY <2>1, <2>3, <1>t DEF SemAfterSend
    <3>3. \A d \in Callers : Holds(d, q)' <=> Holds(d, q)
      BY <3>1, <1>d
    <3> QED BY <3>2, <3>3, <1>p, SameHolders
  <2>4. CASE PortOf(c) = q
    <3>1. c \in Holders(q) /\ semInfo[q] = 0
      BY <2>1, <2>4 DEF Holders, IsLock
    <3>2. semInfo'[q] \in {0, 1}
      BY <2>1, <2>4, <3>1, <1>t DEF SemAfterSend
    <3>3. pc[q] # "rewait"
      BY <2>1, <3>1, <1>t DEF EchoInv, IsLock, Holders
    <3>4. Holders(q)' = {}
      <4>1. \A d \in Callers : ~Holds(d, q)'
        BY <2>2, <3>1, <1>d DEF IsLock, Holders, Holds
      <4> QED BY <3>3, <4>1, <1>p DEF Holders, Holds
    <3> QED BY <3>2, <3>4 DEF IsLock
  <2> QED BY <2>3, <2>4
<1> QED BY <1>1, <1>2, <1>3 DEF CallStep

\* A removal changes its own semaphore, and port 5000's in an overrun.
LEMMA LockRemoval ==
  ASSUME TypeInv, NEW p \in Ports, Removal(p), NEW q \in Ports, IsLock(q),
         ~(q = Port1 /\ OverrunStep)
  PROVE  IsLock(q)'
<1>t. semInfo \in [Ports -> Int] /\ pc \in [Ports -> PcValues]
  BY DEF TypeInv, TypeOK
<1>1. /\ Drop(p) /\ CanWait(p) /\ UNCHANGED call
      /\ pc[p] \in {"sweep", "rmerr", "rmfin"}
  BY DEF Removal, SweepLast, SweepOne, DropFailedLast, DropFailed,
         DropEndedLast, DropEnded, Drop
<1>2. loop[p] < sockCnt[p]
  BY <1>1 DEF TypeInv, CountNeverLost
<1>3. sockCnt' = [sockCnt EXCEPT ![p] = @ - 1] /\ sockCnt \in [Ports -> 1..ClientMax]
  BY <1>1, <1>2, DropType DEF TypeInv, TypeOK
<1>4. ~(q = Port1 /\ p = Port2 /\ Overruns(p))
  BY <1>3, ServerAssumption DEF OverrunStep, Overruns
<1>5. \A c \in Callers : Holds(c, q)' <=> Holds(c, q)
  BY <1>1 DEF Holds, PortOf
<1>6. /\ \E at \in {"poll", "scan", "rewait"} : pc' = [pc EXCEPT ![p] = at]
      /\ \E net \in {-1, 0} :
           /\ semInfo' = SemAfterDrop(p, net)
           /\ pc'[p] = "rewait" => net = -1
  BY <1>t DEF Removal, SweepLast, SweepOne, DropFailedLast, DropFailed,
              DropEndedLast, DropEnded, EndPass
<1>7. CASE q # p
  <2>1. semInfo'[q] = semInfo[q]
    BY <1>4, <1>6, <1>7, <1>t DEF SemAfterDrop
  <2> QED BY <1>5, <1>6, <1>7, <1>t, <2>1, SameHolders
<1>8. CASE q = p
  <2>1. semInfo[q] = 1 /\ Holders(q) = {}
    BY <1>1, <1>8, WaitsFree
  <2>2. PICK net \in {-1, 0} : /\ semInfo' = SemAfterDrop(p, net)
                               /\ pc'[p] = "rewait" => net = -1
    BY <1>6
  <2>3. semInfo'[q] = 1 + net
    BY <1>4, <1>8, <1>t, <2>1, <2>2 DEF SemAfterDrop, Port1, Port2
  <2>4. Holders(q)' = IF pc'[q] = "rewait" THEN {q} ELSE {}
    BY <1>5, <2>1 DEF Holders, Holds
  <2> QED BY <1>8, <2>2, <2>3, <2>4 DEF IsLock
<1> QED BY <1>7, <1>8

\* No step makes two holders of a lock, or one while it is free.
LEMMA LockStep ==
  ASSUME TypeInv, EchoInv, [Next]_vars, NEW q \in Ports, IsLock(q),
         ~(q = Port1 /\ OverrunStep)
  PROVE  IsLock(q)'
<1>t. /\ semInfo \in [Ports -> Int] /\ pc \in [Ports -> PcValues]
      /\ call \in [Callers -> Call] /\ Senders \cap Ports = {}
  BY ServerAssumption DEF TypeInv, TypeOK
<1> USE DEF tables, thread, world
<1>1. CASE UNCHANGED vars
  BY <1>1, SameHolders DEF vars, Holds, PortOf
<1>2. CASE Environment
  <2>1. UNCHANGED <<pc, semInfo>>
    BY <1>2 DEF Environment, Connect, PeerSends, PeerCloses, PeerResets, AppSends
  <2>2. \A c \in Callers : Holds(c, q)' <=> Holds(c, q)
    <3>1. CASE UNCHANGED call
      BY <3>1 DEF Holds, PortOf
    <3>2. ASSUME NEW s \in Senders, NEW ports, NEW a, AppSends(s, ports, a)
          PROVE  \A c \in Callers : Holds(c, q)' <=> Holds(c, q)
      <4>1. s \in Callers /\ call[s].at = "none" /\ call'[s].at = "wait"
        BY <3>2, <1>t DEF AppSends, NewCall, NoCall, Callers
      <4>2. \A c \in Callers : c # s => call'[c] = call[c]
        BY <3>2, <1>t DEF AppSends
      <4> QED BY <4>1, <4>2 DEF Holds, PortOf
    <3> QED BY <1>2, <3>1, <3>2
            DEF Environment, Connect, PeerSends, PeerCloses, PeerResets
  <2> QED BY <2>1, <2>2, SameHolders
<1>3. ASSUME NEW c \in Callers, CallStep(c)
      PROVE  IsLock(q)'
  BY <1>3, LockCall
<1>4. ASSUME NEW p \in Ports, Receiver(p)
      PROVE  IsLock(q)'
  <2>1. CASE Removal(p)
    BY <2>1, LockRemoval
  <2>2. CASE SweepWaits(p)
    <3>1. CASE p = q
      <4>1. q \in Holders(q) /\ CanWait(q)
        BY <2>2, <3>1 DEF SweepWaits, Holders
      <4> QED BY <4>1, WaitsFree
    <3>2. CASE p # q
      BY <2>2, <3>2, <1>t, SameHolders DEF SweepWaits, Holds, PortOf
    <3> QED BY <3>1, <3>2
  <2>3. CASE EchoCalls(p)
    <3>1. /\ pc[p] = "received" /\ UNCHANGED semInfo
          /\ pc' = [pc EXCEPT ![p] = "echo"]
      BY <2>3 DEF EchoCalls, Goes
    <3>2. p \in Callers /\ call[p].at = "none" /\ call'[p].at = "wait"
      BY <2>3, <3>1, <1>t DEF EchoInv, EchoCalls, NewCall, NoCall, Callers
    <3>3. \A c \in Callers : c # p => call'[c] = call[c]
      BY <2>3, <1>t DEF EchoCalls
    <3>4. \A c \in Callers : Holds(c, q)' <=> Holds(c, q)
      BY <3>2, <3>3 DEF Holds, PortOf
    <3> QED BY <3>1, <3>4, <1>t, SameHolders
  <2>4. CASE \/ \E f \in Fds : AcceptDuplicate(p, f) \/ AcceptNew(p, f) \/ AcceptFull(p, f)
             \/ DupReplace(p)
    <3>1. UNCHANGED <<call, semInfo>>
      BY <2>4 DEF AcceptDuplicate, AcceptNew, AcceptFull, DupReplace
    <3>2. pc'[q] = "rewait" <=> pc[q] = "rewait"
      BY <2>4, <1>t DEF AcceptDuplicate, AcceptNew, AcceptFull, Accepting, DupReplace
    <3> QED BY <3>1, <3>2, SameHolders DEF Holds, PortOf
  <2>5. CASE \/ PollScan(p) \/ ScanEnds(p) \/ ScanFindsMarked(p) \/ ScanSkips(p)
             \/ RecvData(p) \/ RecvEnds(p) \/ RecvFails(p) \/ EchoReturns(p)
    <3>1. UNCHANGED <<call, semInfo>>
      BY <2>5 DEF PollScan, ScanEnds, ScanFindsMarked, ScanSkips, RecvData,
                  RecvEnds, RecvFails, EchoReturns
    <3>2. pc'[q] = "rewait" <=> pc[q] = "rewait"
      BY <2>5, <1>t DEF PollScan, ScanEnds, ScanFindsMarked, ScanSkips, Scanning,
                  RecvData, RecvEnds, RecvFails, EchoReturns, Goes, EndPass
    <3> QED BY <3>1, <3>2, SameHolders DEF Holds, PortOf
  <2> QED BY <1>4, <2>1, <2>2, <2>3, <2>4, <2>5 DEF Receiver, Removal
<1> QED BY <1>1, <1>2, <1>3, <1>4 DEF Next

LEMMA EchoInvariant == Spec => []EchoInv
<1>1. Init => EchoInv
  BY DEF Init, EchoInv, NoCall, Callers
<1> QED BY <1>1, EchoStep, TypeInvariant, PTL DEF Spec

\* Port 5002's semaphore is a lock whatever its users, and those of port 5000,
\* do; port 5000's is one up to the first removal from a full table of 5002.
THEOREM LocksKept == Spec => OnlyOverrunBreaksLock
<1>1. TypeInv /\ EchoInv /\ [Next]_vars =>
        [\A p \in Ports :
           IsLock(p) /\ ~IsLock(p)' => p = Port1 /\ OverrunStep]_vars
  BY LockStep
<1> QED BY <1>1, TypeInvariant, EchoInvariant, PTL
       DEF Spec, OnlyOverrunBreaksLock

LEMMA LocksInit == Init => LocksHold
<1> SUFFICES ASSUME Init, NEW q \in Ports PROVE IsLock(q)
  BY DEF LocksHold
<1>1. Holders(q) = {}
  BY DEF Init, Holders, NoCall
<1> QED BY <1>1 DEF Init, IsLock

\* As long as no removal is made from a full table of port 5002, both semaphores
\* are locks: every path through the server that posts one has waited for it.
THEOREM LocksHoldUntilOverrun == Spec /\ [][~OverrunStep]_vars => []LocksHold
<1>1. TypeInv /\ EchoInv /\ LocksHold /\ [Next]_vars /\ [~OverrunStep]_vars
        => LocksHold'
  <2> SUFFICES ASSUME TypeInv, EchoInv, LocksHold, [Next]_vars, [~OverrunStep]_vars,
                      NEW q \in Ports
               PROVE  IsLock(q)'
    BY DEF LocksHold
  <2>1. ~OverrunStep
    <3>1. CASE UNCHANGED vars
      BY <3>1 DEF vars, tables, OverrunStep, TypeInv, TypeOK, Ports
    <3> QED BY <3>1
  <2> QED BY <2>1, LockStep DEF LocksHold
<1> QED BY <1>1, LocksInit, TypeInvariant, EchoInvariant, PTL DEF Spec

\* At most one caller is at any time between the sem_wait and sem_post of port
\* 5002, and none while its semaphore is free.
THEOREM Port2Locked == Spec => []Port2LockHolds
<1>1. Port2 \in Ports /\ Port2 # Port1
  BY DEF Ports, Port1, Port2
<1>2. Init => Port2LockHolds
  <2> SUFFICES ASSUME Init PROVE IsLock(Port2)
    BY DEF Port2LockHolds
  <2>1. semInfo[Port2] = 1 /\ pc[Port2] = "poll"
    BY <1>1 DEF Init
  <2>2. \A c \in Callers : call[c].at = "none"
    BY DEF Init, NoCall
  <2>3. Holders(Port2) = {}
    BY <2>1, <2>2 DEF Holders
  <2> QED BY <2>1, <2>3 DEF IsLock
<1>3. TypeInv /\ EchoInv /\ Port2LockHolds /\ [Next]_vars => Port2LockHolds'
  BY <1>1, LockStep DEF Port2LockHolds
<1> QED BY <1>2, <1>3, TypeInvariant, EchoInvariant, PTL DEF Spec

-----------------------------------------------------------------------------
\* A step leaves a lost lock lost: it would have to wait for it first.
LEMMA LeakStep ==
  ASSUME TypeInv, [Next]_vars, NEW q \in Ports, Leaked(q),
         ~(q = Port1 /\ OverrunStep)
  PROVE  Leaked(q)'
<1>t. /\ semInfo \in [Ports -> Int] /\ pc \in [Ports -> PcValues]
      /\ call \in [Callers -> Call] /\ Senders \cap Ports = {}
      /\ Port1 \in Ports
  BY ServerAssumption DEF TypeInv, TypeOK, Ports
<1>l. /\ semInfo[q] = 0 /\ ~CanWait(q) /\ pc[q] # "rewait"
      /\ \A c \in Callers : ~Holds(c, q)
  BY DEF Leaked, Holders, Holds, CanWait
<1> USE DEF tables, thread, world
<1>0. (/\ semInfo'[q] = 0 /\ pc'[q] # "rewait"
       /\ \A c \in Callers : ~Holds(c, q)') => Leaked(q)'
  BY DEF Leaked, Holders, Holds
<1>1. CASE UNCHANGED vars
  BY <1>1, <1>l, <1>0 DEF vars, Holds, PortOf
<1>2. CASE Environment
  <2>1. UNCHANGED <<pc, semInfo>>
    BY <1>2 DEF Environment, Connect, PeerSends, PeerCloses, PeerResets, AppSends
  <2>2. \A c \in Callers : ~Holds(c, q)'
    <3>1. CASE UNCHANGED call
      BY <3>1, <1>l DEF Holds, PortOf
    <3>2. ASSUME NEW s \in Senders, NEW ports, NEW a, AppSends(s, ports, a)
          PROVE  \A c \in Callers : ~Holds(c, q)'
      <4>1. call'[s].at = "wait"
        BY <3>2, <1>t DEF AppSends, NewCall, NoCall, Callers
      <4>2. \A c \in Callers : c # s => call'[c] = call[c]
        BY <3>2, <1>t DEF AppSends
      <4> QED BY <4>1, <4>2, <1>l DEF Holds, PortOf
    <3> QED BY <1>2, <3>1, <3>2
            DEF Environment, Connect, PeerSends, PeerCloses, PeerResets
  <2> QED BY <2>1, <2>2, <1>l, <1>0
<1>3. ASSUME NEW c \in Callers, CallStep(c)
      PROVE  Leaked(q)'
  <2>p. UNCHANGED pc
    BY <1>3 DEF CallStep, SendFinds, SendReads, SendMisses, SendSucceeds, SendFails,
                SendKilled, SendFinishes
  <2>d. \A d \in Callers : d # c => call'[d] = call[d]
    BY <1>3, <1>t DEF CallStep, SendFinds, SendReads, SendMisses, SendSucceeds, SendFails,
                SendKilled, SendFinishes
  <2>1. PortOf(c) # q
    BY <1>3, <1>l DEF CallStep, SendFinds, SendReads, SendMisses, SendSucceeds, SendFails,
                      SendKilled, SendFinishes, Holds
  <2>2. semInfo'[q] = 0
    BY <1>3, <1>t, <1>l, <2>1
       DEF CallStep, SendFinds, SendReads, SendMisses, SendSucceeds, SendFails, SendKilled,
           SendFinishes, SemAfterSend
  <2>3. ~Holds(c, q)'
    <3>1. CASE SendFinishes(c)
      BY <3>1, <1>t DEF SendFinishes, NewCall, NoCall, Holds
    <3>2. CASE ~SendFinishes(c)
      <4>1. call'[c].todo = call[c].todo
        <5>1. CASE SendFinds(c)
          <6>1. PICK k \in Slots : call' = [call EXCEPT ![c].at = "found", ![c].slot = k]
            BY <5>1 DEF SendFinds
          <6>2. call'[c] = [call[c] EXCEPT !.at = "found", !.slot = k]
            BY <6>1, <1>t
          <6> QED BY <6>2, <1>t DEF Call
        <5>2. CASE ~SendFinds(c)
          BY <1>3, <3>2, <5>2, <1>t
             DEF CallStep, SendReads, SendMisses, SendSucceeds, SendFails, SendKilled, Call
        <5> QED BY <5>1, <5>2
      <4> QED BY <4>1, <2>1 DEF Holds, PortOf
    <3> QED BY <3>1, <3>2
  <2> QED BY <2>p, <2>d, <2>2, <2>3, <1>l, <1>0 DEF Holds, PortOf
<1>4. ASSUME NEW p \in Ports, Receiver(p)
      PROVE  Leaked(q)'
  <2>1. CASE Removal(p)
    <3>1. Drop(p) /\ CanWait(p) /\ UNCHANGED call /\ p # q
          /\ pc[p] \in {"sweep", "rmerr", "rmfin"}
      BY <2>1, <1>l DEF Removal, SweepLast, SweepOne, DropFailedLast, DropFailed,
         DropEndedLast, DropEnded, Drop
    <3>2. loop[p] < sockCnt[p]
      BY <3>1 DEF TypeInv, CountNeverLost
    <3>3. sockCnt' = [sockCnt EXCEPT ![p] = @ - 1] /\ sockCnt \in [Ports -> 1..ClientMax]
      BY <3>1, <3>2, DropType DEF TypeInv, TypeOK
    <3>4. ~(q = Port1 /\ p = Port2 /\ Overruns(p))
      BY <3>3, ServerAssumption DEF OverrunStep, Overruns
    <3>5. semInfo'[q] = 0 /\ pc'[q] # "rewait"
      BY <2>1, <3>1, <3>4, <1>l, <1>t
         DEF Removal, SweepLast, SweepOne, DropFailedLast, DropFailed,
             DropEndedLast, DropEnded, EndPass, SemAfterDrop
    <3> QED BY <3>1, <3>5, <1>l, <1>0 DEF Holds, PortOf
  <2>2. CASE SweepWaits(p)
    BY <2>2, <1>t, <1>l, <1>0 DEF SweepWaits, Holds, PortOf
  <2>3. CASE EchoCalls(p)
    <3>1. UNCHANGED semInfo /\ pc'[q] # "rewait" /\ call'[p].at = "wait"
      BY <2>3, <1>t, <1>l DEF EchoCalls, Goes, NewCall, NoCall, Callers
    <3>2. \A c \in Callers : c # p => call'[c] = call[c]
      BY <2>3, <1>t DEF EchoCalls
    <3> QED BY <3>1, <3>2, <1>l, <1>0 DEF Holds, PortOf
  <2>4. CASE \/ \E f \in Fds : AcceptDuplicate(p, f) \/ AcceptNew(p, f) \/ AcceptFull(p, f)
             \/ DupReplace(p)
    <3>1. UNCHANGED <<call, semInfo>> /\ pc'[q] # "rewait"
      BY <2>4, <1>l, <1>t
         DEF AcceptDuplicate, AcceptNew, AcceptFull, Accepting, DupReplace
    <3> QED BY <3>1, <1>l, <1>0 DEF Holds, PortOf
  <2>5. CASE \/ PollScan(p) \/ ScanEnds(p) \/ ScanFindsMarked(p) \/ ScanSkips(p)
             \/ RecvData(p) \/ RecvEnds(p) \/ RecvFails(p) \/ EchoReturns(p)
    <3>1. UNCHANGED <<call, semInfo>> /\ pc'[q] # "rewait"
      BY <2>5, <1>l, <1>t
         DEF PollScan, ScanEnds, ScanFindsMarked, ScanSkips, Scanning,
             RecvData, RecvEnds, RecvFails, EchoReturns, Goes, EndPass
    <3> QED BY <3>1, <1>l, <1>0 DEF Holds, PortOf
  <2> QED BY <1>4, <2>1, <2>2, <2>3, <2>4, <2>5 DEF Receiver, Removal
<1> QED BY <1>1, <1>2, <1>3, <1>4 DEF Next

\* A lock that has been lost is lost for good, whoever is calling, on either
\* port: only an overrun of port 5002's table gives port 5000's back.
THEOREM LeaksStay == Spec => LeakIsForever
<1>1. TypeInv /\ [Next]_vars =>
        [\A p \in Ports :
           Leaked(p) => Leaked(p)' \/ (p = Port1 /\ OverrunStep)]_vars
  BY LeakStep
<1> QED BY <1>1, TypeInvariant, PTL DEF Spec, LeakIsForever

=============================================================================
