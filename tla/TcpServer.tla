------------------------------ MODULE TcpServer ------------------------------
(***************************************************************************)
(* The TCP echo server of sample_tcp_server/TcpServer.c: one receiver      *)
(* thread per port (ThreadTcpServer), the exported sender                  *)
(* SendTcpDataFromServer, and the tables they share.  Every port has a     *)
(* table of clients (clientInfoPort1, clientInfoPort2) guarded by a        *)
(* semaphore of semInfo, and a private pollFd array of the same shape.     *)
(*                                                                         *)
(* A step is the code between two places where another thread can act on   *)
(* the same data: sem_wait, recv, send and the return to poll.  Sockets    *)
(* and peers are the environment: a socket is a file descriptor of the one *)
(* process, so both threads take theirs from the same pool, lowest first.  *)
(***************************************************************************)
EXTENDS Integers, Sequences

CONSTANTS
  ClientMax,   \* CLIENT_MAX_NUM (30)
  Addr,        \* the IP addresses of clients
  Fds,         \* the descriptors accept() can return
  Senders,     \* application threads calling SendTcpDataFromServer
  Dials,       \* bound: Dials[p][a] connections from address a to port p
  Calls,       \* <<ports, address>> pairs the application threads send to
  Acts,        \* bound: <<port, address, act>>, what clients ever do
  MaxData,     \* bound: buffers of unread data on a connection
  MaxPending   \* bound: connections waiting in listen()'s queue

Port1 == 5000
Port2 == 5002
Ports == {Port1, Port2}

NoAddr == 0          \* a zeroed cliIpAddress
Marked == -1         \* 0xFFFFFFFF, a client the receiver has to drop
NoFd   == -1

Slots   == 0..(ClientMax - 1)    \* slot 0 is the listener
Callers == Ports \cup Senders

ASSUME ServerAssumption ==
  /\ ClientMax \in Nat /\ ClientMax >= 3
  /\ Addr \cap {NoAddr, Marked} = {}
  /\ Fds \subseteq Nat \ {0}
  /\ Senders \cap Ports = {}
  /\ Dials \in [Ports -> [Addr -> Nat]]
  /\ Calls \subseteq (SUBSET Ports) \X Addr
  /\ Acts \subseteq Ports \X Addr \X {"send", "close", "reset"}
  /\ MaxData \in Nat
  /\ MaxPending \in Nat

VARIABLES
  cliFd,         \* clientInfoPortN[slot].cliFd
  cliIpAddress,  \* clientInfoPortN[slot].cliIpAddress
  semInfo,       \* the value of each port's semaphore
  pollFd,        \* pollFd[slot].fd of each receiver
  revents,       \* pollFd[slot].revents & POLLIN, of the latest poll()
  sockCnt,       \* entries in use, the listener included
  loop,          \* the receiver's index into its tables
  pc,            \* where each receiver is
  conn,          \* the accepted connection a receiver is about to install
  call,          \* the SendTcpDataFromServer call of every caller
  sock,          \* the process's sockets, by descriptor
  pending,       \* connections accept() has not taken yet
  visits,        \* connections made so far, by port and address
  alive          \* FALSE once a signal has killed the process

tables == <<cliFd, cliIpAddress, pollFd, revents, sockCnt>>
thread == <<loop, pc, conn>>
world  == <<pending, visits>>
vars   == <<tables, thread, world, semInfo, call, sock, alive>>

-----------------------------------------------------------------------------
(* Data                                                                     *)

NoConn == [fd |-> NoFd, ip |-> NoAddr, slot |-> 0]
NoCall == [at |-> "none", todo |-> {}, addr |-> NoAddr, slot |-> 0,
           fd |-> NoFd, failed |-> FALSE]
NoSock == [state |-> "closed", data |-> 0, port |-> 0, addr |-> NoAddr]

\* "open"; "fin": the peer has closed; "err": it has reset the connection and
\* nobody was told; "pipe": somebody was, or the peer answered our data with a
\* reset, so that the next send() raises SIGPIPE
SockStates == {"closed", "open", "fin", "err", "pipe"}
PcValues   == {"poll", "dup", "scan", "sweep", "rewait", "received", "echo",
               "rmerr", "rmfin"}
CallAts    == {"none", "wait", "found", "send", "finish"}

Connection == [fd : Fds \cup {NoFd}, ip : Addr \cup {NoAddr}, slot : Slots]
Call == [at : CallAts, todo : SUBSET Ports, addr : Addr \cup {NoAddr, Marked},
         slot : Slots, fd : Fds \cup {0, NoFd}, failed : BOOLEAN]
Socket == [state : SockStates, data : Nat, port : Ports \cup {0},
           addr : Addr \cup {NoAddr}]

\* A descriptor the tables hold may be 0 or -1, which is no socket of ours.
StateOf(fd) == IF fd \in Fds THEN sock[fd].state ELSE "closed"
HasData(fd) == fd \in Fds /\ sock[fd].data > 0

\* close(): harmless on a descriptor that is not open
Closing(fd) == [f \in Fds |-> IF f = fd THEN NoSock ELSE sock[f]]

\* accept() hands out the lowest descriptor that is free.
IsNextFd(f) ==
  /\ sock[f].state = "closed"
  /\ \A g \in Fds : g < f => sock[g].state # "closed"

Accepted(p, f, a) ==
  [sock EXCEPT ![f] = [state |-> "open", data |-> 0, port |-> p, addr |-> a]]

\* k is where a search for address a, starting at slot `from', stops.
IsFirst(p, a, from, k) ==
  /\ k >= from
  /\ cliIpAddress[p][k] = a
  /\ \A j \in Slots : from <= j /\ j < k => cliIpAddress[p][j] # a

\* Mutant: the search starts one entry late.
IsListedLate(p, a, from) == \E k \in Slots : k > from /\ cliIpAddress[p][k] = a

IsListed(p, a, from) == \E k \in Slots : k >= from /\ cliIpAddress[p][k] = a

\* The slots poll() watches besides the listener.
Active(p) == 1..(sockCnt[p] - 1)

\* sem_wait() gets through: 0 is the only value that makes it wait.
CanWait(p) == semInfo[p] # 0

-----------------------------------------------------------------------------
(* Initial state: both receivers have set up their listener and tables.     *)

Init ==
  /\ cliFd = [p \in Ports |-> [i \in Slots |-> 0]]
  /\ cliIpAddress = [p \in Ports |-> [i \in Slots |-> NoAddr]]
  /\ pollFd = [p \in Ports |-> [i \in Slots |-> 0]]
  /\ revents = [p \in Ports |-> [i \in Slots |-> FALSE]]
  /\ sockCnt = [p \in Ports |-> 1]
  /\ semInfo = [p \in Ports |-> 1]
  /\ loop = [p \in Ports |-> 1]
  /\ pc = [p \in Ports |-> "poll"]
  /\ conn = [p \in Ports |-> NoConn]
  /\ call = [c \in Callers |-> NoCall]
  /\ sock = [f \in Fds |-> NoSock]
  /\ pending = [p \in Ports |-> << >>]
  /\ visits = [p \in Ports |-> [a \in Addr |-> 0]]
  /\ alive = TRUE

-----------------------------------------------------------------------------
(* The process runs, and this step does not end it.                        *)

Running == alive /\ UNCHANGED alive

-----------------------------------------------------------------------------
(* The environment: clients, and the application threads that send.         *)

\* A client connects; the kernel completes the handshake on its own.
Connect(p, a) ==
  /\ Running
  /\ visits[p][a] < Dials[p][a]
  /\ Len(pending[p]) < MaxPending
  /\ pending' = [pending EXCEPT ![p] = Append(@, a)]
  /\ visits' = [visits EXCEPT ![p][a] = @ + 1]
  /\ UNCHANGED <<tables, thread, semInfo, call, sock>>

\* A connected client does something at its end.
Acting(f, act) ==
  /\ sock[f].state = "open"
  /\ <<sock[f].port, sock[f].addr, act>> \in Acts

\* Up to BUF_MAX_SIZE bytes arrive.
PeerSends(f) ==
  /\ Running
  /\ Acting(f, "send") /\ sock[f].data < MaxData
  /\ sock' = [sock EXCEPT ![f].data = @ + 1]
  /\ UNCHANGED <<tables, thread, world, semInfo, call>>

PeerCloses(f) ==
  /\ Running
  /\ Acting(f, "close")
  /\ sock' = [sock EXCEPT ![f].state = "fin"]
  /\ UNCHANGED <<tables, thread, world, semInfo, call>>

PeerResets(f) ==
  /\ Running
  /\ Acting(f, "reset")
  /\ sock' = [sock EXCEPT ![f].state = "err"]
  /\ UNCHANGED <<tables, thread, world, semInfo, call>>

-----------------------------------------------------------------------------
(* SendTcpDataFromServer.  One body serves both ports and the default case: *)
(* `todo' is the ports still to be looked through, 5000 before 5002.        *)

PortOf(c) == IF Port1 \in call[c].todo THEN Port1 ELSE Port2

NewCall(ports, a) ==
  [NoCall EXCEPT !.at = "wait", !.todo = ports, !.addr = a]

AppSends(s, ports, a) ==
  /\ Running
  /\ call[s].at = "none"
  /\ <<ports, a>> \in Calls
  /\ call' = [call EXCEPT ![s] = NewCall(ports, a)]
  /\ UNCHANGED <<tables, thread, world, semInfo, sock>>

\* sem_wait, then the search finds the address ...
SendFinds(c) ==
  LET p == PortOf(c) IN
  /\ Running
  /\ call[c].at = "wait" /\ CanWait(p)
  /\ semInfo' = [semInfo EXCEPT ![p] = @ - 1]
  /\ \E k \in Slots :
       /\ IsFirst(p, call[c].addr, 0, k)
       /\ call' = [call EXCEPT ![c].at = "found", ![c].slot = k]
  /\ UNCHANGED <<tables, thread, world, sock>>

\* ... and the entry's descriptor is read, by now perhaps that of a new client.
SendReads(c) ==
  /\ Running
  /\ call[c].at = "found"
  /\ call' = [call EXCEPT ![c].at = "send", ![c].fd = cliFd[PortOf(c)][call[c].slot]]
  /\ UNCHANGED <<tables, thread, world, semInfo, sock>>

\* sem_wait, then no slot has the address.
SendMisses(c) ==
  LET p == PortOf(c) IN
  /\ Running
  /\ call[c].at = "wait" /\ CanWait(p)
  /\ ~IsListed(p, call[c].addr, 0)
  /\ semInfo' = [semInfo EXCEPT ![p] = @ - 1]
  /\ call' = [call EXCEPT ![c].at = "finish"]
  /\ UNCHANGED <<tables, thread, world, sock>>

\* send() takes the data; a peer that has closed answers it with a reset.
SendSucceeds(c) ==
  LET f == call[c].fd IN
  /\ Running
  /\ call[c].at = "send"
  /\ StateOf(f) \in {"open", "fin"}
  /\ sock' = [sock EXCEPT ![f].state = IF @ = "fin" THEN "pipe" ELSE @]
  /\ call' = [call EXCEPT ![c].at = "finish"]
  /\ UNCHANGED <<tables, thread, world, semInfo>>

\* send() returns -1: no such descriptor, a reset connection, or MSG_DONTWAIT
\* and a full buffer.
SendFails(c) ==
  LET f == call[c].fd IN
  /\ Running
  /\ call[c].at = "send"
  /\ StateOf(f) # "pipe"
  /\ sock' = [g \in Fds |-> IF g = f /\ sock[g].state = "err"
                            THEN [sock[g] EXCEPT !.state = "pipe"]
                            ELSE sock[g]]
  /\ call' = [call EXCEPT ![c].at = "finish", ![c].failed = TRUE]
  /\ UNCHANGED <<tables, thread, world, semInfo>>

\* Without MSG_NOSIGNAL, and SIGPIPE at its default, the process ends.
SendKilled(c) ==
  /\ alive
  /\ call[c].at = "send"
  /\ StateOf(call[c].fd) = "pipe"
  /\ alive' = FALSE
  /\ UNCHANGED <<tables, thread, world, semInfo, call, sock>>

\* Mutant: both locks are released, whichever was taken.
SemAfterSendBoth(p) == [q \in Ports |-> semInfo[q] + 1]

\* sem_post(&semInfo[0]) after port 5000, but sem_post(&semInfo[2]) after port
\* 5002: a word past semInfo that nothing else uses.
SemAfterSend(p) ==
  IF p = Port1 THEN [semInfo EXCEPT ![Port1] = @ + 1] ELSE semInfo

\* A failed send marks the slot it was found in; then sem_post, and on to the
\* next port or back to the caller.
SendFinishes(c) ==
  LET p == PortOf(c)
      left == call[c].todo \ {p}
  IN
  /\ Running
  /\ call[c].at = "finish"
  /\ cliIpAddress' = IF call[c].failed
                     THEN [cliIpAddress EXCEPT ![p][call[c].slot] = Marked]
                     ELSE cliIpAddress
  /\ semInfo' = SemAfterSend(p)
  /\ call' = [call EXCEPT ![c] = IF left = {} THEN NoCall
                                 ELSE NewCall(left, call[c].addr)]
  /\ UNCHANGED <<cliFd, pollFd, revents, sockCnt, thread, world, sock>>

CallStep(c) ==
  \/ SendFinds(c) \/ SendReads(c) \/ SendMisses(c)
  \/ SendSucceeds(c) \/ SendFails(c) \/ SendKilled(c)
  \/ SendFinishes(c)

-----------------------------------------------------------------------------
(* ThreadTcpServer: a connection is waiting (l.236-307).                    *)

Accepting(p, f) ==
  /\ Running
  /\ pc[p] = "poll" /\ pending[p] # << >>
  /\ IsNextFd(f)
  /\ pending' = [pending EXCEPT ![p] = Tail(@)]
  /\ UNCHANGED visits

\* Some slot, in use or left over, already has the client's address: the
\* thread goes for the lock to replace what that slot holds.
AcceptDuplicate(p, f) ==
  LET a == Head(pending[p]) IN
  /\ Accepting(p, f)
  /\ \E k \in Slots :
       /\ IsFirst(p, a, 1, k)
       /\ conn' = [conn EXCEPT ![p] = [fd |-> f, ip |-> a, slot |-> k]]
  /\ sock' = Accepted(p, f, a)
  /\ pc' = [pc EXCEPT ![p] = "dup"]
  /\ UNCHANGED <<tables, loop, semInfo, call>>

\* Mutant: off by one.
HasRoomForOneMore(p) == sockCnt[p] <= ClientMax

HasRoom(p) == sockCnt[p] < ClientMax

\* A new client takes the next entry, without the lock.  A sender that gets there in the
\* middle finds a zeroed address, or sends to the old descriptor, to 0 or to the new
\* one: it fails, or acts as before the step or after it.
AcceptNew(p, f) ==
  LET a == Head(pending[p])
      n == sockCnt[p]
  IN
  /\ Accepting(p, f)
  /\ ~IsListed(p, a, 1) /\ HasRoom(p)
  /\ sock' = Accepted(p, f, a)
  /\ pollFd' = [pollFd EXCEPT ![p][n] = f]
  /\ cliFd' = [cliFd EXCEPT ![p][n] = f]
  /\ cliIpAddress' = [cliIpAddress EXCEPT ![p][n] = a]
  /\ sockCnt' = [sockCnt EXCEPT ![p] = n + 1]
  /\ UNCHANGED <<revents, thread, semInfo, call>>

\* No entry is left: the connection is closed again.
AcceptFull(p, f) ==
  /\ Accepting(p, f)
  /\ ~IsListed(p, Head(pending[p]), 1) /\ ~HasRoom(p)
  /\ UNCHANGED <<tables, thread, semInfo, call, sock>>

\* Under the lock: close the slot's descriptor, put the new connection there.
DupReplace(p) ==
  LET k == conn[p].slot IN
  /\ Running
  /\ pc[p] = "dup" /\ CanWait(p)
  /\ sock' = Closing(cliFd[p][k])
  /\ pollFd' = [pollFd EXCEPT ![p][k] = conn[p].fd]
  /\ cliFd' = [cliFd EXCEPT ![p][k] = conn[p].fd]
  /\ cliIpAddress' = [cliIpAddress EXCEPT ![p][k] = conn[p].ip]
  /\ conn' = [conn EXCEPT ![p] = NoConn]
  /\ pc' = [pc EXCEPT ![p] = "poll"]
  /\ UNCHANGED <<revents, sockCnt, loop, world, semInfo, call>>

-----------------------------------------------------------------------------
(* ThreadTcpServer: one pass over the clients (l.311-458).                  *)

\* poll() fills in revents; a descriptor that is not open only gets POLLNVAL.
Readable(fd) == HasData(fd) \/ StateOf(fd) \in {"fin", "err", "pipe"}

PollScan(p) ==
  /\ Running
  /\ pc[p] = "poll" /\ pending[p] = << >>
  /\ revents' = [revents EXCEPT ![p] =
                   [i \in Slots |-> i \in Active(p) /\ Readable(pollFd[p][i])]]
  /\ loop' = [loop EXCEPT ![p] = 1]
  /\ pc' = [pc EXCEPT ![p] = "scan"]
  /\ UNCHANGED <<cliFd, cliIpAddress, pollFd, sockCnt, conn, world, semInfo,
                 call, sock>>

\* Mutant: the next pass starts without a poll().
EndPassAgain(p) ==
  /\ loop' = [loop EXCEPT ![p] = 1]
  /\ pc' = [pc EXCEPT ![p] = "scan"]

\* The pass is over; revents is forgotten and loop is reset, both being
\* written again before they are next read.
EndPass(p) ==
  /\ loop' = [loop EXCEPT ![p] = 1]
  /\ pc' = [pc EXCEPT ![p] = "poll"]

\* Mutant: the last client is not looked at.
ScanningTooShort(p) == pc[p] = "scan" /\ loop[p] < sockCnt[p] - 1

\* Mutant: the listener is counted twice.
ScanningTooFar(p) == pc[p] = "scan" /\ loop[p] <= sockCnt[p]

\* The thread looks at entry loop of its tables.
Scanning(p) == pc[p] = "scan" /\ loop[p] < sockCnt[p]

ScanEnds(p) ==
  /\ Running
  /\ pc[p] = "scan" /\ ~Scanning(p)
  /\ EndPass(p)
  /\ revents' = [revents EXCEPT ![p] = [i \in Slots |-> FALSE]]
  /\ UNCHANGED <<cliFd, cliIpAddress, pollFd, sockCnt, conn, world, semInfo,
                 call, sock>>

IsMarked(p) == cliIpAddress[p][loop[p]] = Marked

\* Entry loop has been received from: POLLIN, and a descriptor to read.
IsReady(p) == revents[p][loop[p]] /\ pollFd[p][loop[p]] >= 0

Goes(p, at) ==
  /\ pc' = [pc EXCEPT ![p] = at]
  /\ UNCHANGED <<loop, conn>>

ScanFindsMarked(p) ==
  /\ Running
  /\ Scanning(p) /\ IsMarked(p)
  /\ Goes(p, "sweep")
  /\ UNCHANGED <<tables, world, semInfo, call, sock>>

ScanSkips(p) ==
  /\ Running
  /\ Scanning(p) /\ ~IsMarked(p) /\ ~IsReady(p)
  /\ loop' = [loop EXCEPT ![p] = @ + 1]
  /\ UNCHANGED <<tables, pc, conn, world, semInfo, call, sock>>

\* recv() returns data, a buffer's worth; what the peer sent before it closed
\* or reset the connection comes first.
RecvData(p) ==
  LET f == pollFd[p][loop[p]] IN
  /\ Running
  /\ Scanning(p) /\ ~IsMarked(p) /\ IsReady(p)
  /\ HasData(f)
  /\ sock' = [sock EXCEPT ![f].data = @ - 1]
  /\ Goes(p, "received")
  /\ UNCHANGED <<tables, world, semInfo, call>>

\* recv() returns 0: the peer has closed, or the connection is down and its
\* error has been reported.
RecvEnds(p) ==
  LET f == pollFd[p][loop[p]] IN
  /\ Running
  /\ Scanning(p) /\ ~IsMarked(p) /\ IsReady(p)
  /\ ~HasData(f) /\ StateOf(f) \in {"fin", "pipe"}
  /\ Goes(p, "rmfin")
  /\ UNCHANGED <<tables, world, semInfo, call, sock>>

\* recv() returns -1: the reset, reported once, or a closed descriptor.
RecvFails(p) ==
  LET f == pollFd[p][loop[p]] IN
  /\ Running
  /\ Scanning(p) /\ ~IsMarked(p) /\ IsReady(p)
  /\ ~HasData(f) /\ StateOf(f) \in {"err", "closed"}
  /\ sock' = [g \in Fds |-> IF g = f /\ sock[g].state = "err"
                            THEN [sock[g] EXCEPT !.state = "pipe"]
                            ELSE sock[g]]
  /\ Goes(p, "rmerr")
  /\ UNCHANGED <<tables, world, semInfo, call>>

\* The echo goes to the address in the table, not to the descriptor read from.
EchoCalls(p) ==
  /\ Running
  /\ pc[p] = "received"
  /\ call' = [call EXCEPT ![p] = NewCall({p}, cliIpAddress[p][loop[p]])]
  /\ Goes(p, "echo")
  /\ UNCHANGED <<tables, world, semInfo, sock>>

EchoReturns(p) ==
  /\ Running
  /\ pc[p] = "echo" /\ call[p].at = "none"
  /\ pc' = [pc EXCEPT ![p] = "scan"]
  /\ loop' = [loop EXCEPT ![p] = @ + 1]
  /\ UNCHANGED <<tables, conn, world, semInfo, call, sock>>

-----------------------------------------------------------------------------
(* ThreadTcpServer: dropping the client at entry loop.  The code has three  *)
(* copies of the removal; they differ in what they do with the semaphore.   *)

\* Mutant: the entries that move down start one late.
CloseGapLate(tbl, k, n, last, past) ==
  [i \in Slots |->
     CASE n = 2 /\ i = k                  -> last
       [] n > 2 /\ i > k /\ i < n - 1     -> tbl[i + 1]
       [] n > 2 /\ i = n                  -> past
       [] OTHER                           -> tbl[i]]

\* Mutant: nothing is cleared past the end.
CloseGapUncleared(tbl, k, n, last, past) ==
  [i \in Slots |->
     CASE n = 2 /\ i = k                  -> last
       [] n > 2 /\ i >= k /\ i < n - 1    -> tbl[i + 1]
       [] OTHER                           -> tbl[i]]

\* Entry k leaves a table of n entries.  Of two, k is cleared in place; of
\* more, the later ones move down and entry n, one past the last, is cleared:
\* entry n-1 keeps what it held.
CloseGap(tbl, k, n, last, past) ==
  [i \in Slots |->
     CASE n = 2 /\ i = k                  -> last
       [] n > 2 /\ i >= k /\ i < n - 1    -> tbl[i + 1]
       [] n > 2 /\ i = n                  -> past
       [] OTHER                           -> tbl[i]]

\* A full table is cleared one past its end.  As the shipped executable lays
\* them out, clientInfoPort1[30] is clientInfoPort2[0], the entry of port
\* 5002's listener, and clientInfoPort2[30] is semInfo[0].
Overruns(p) == sockCnt[p] = ClientMax

FdsAfterDrop(p) ==
  LET own == [cliFd EXCEPT
                ![p] = CloseGap(@, loop[p], sockCnt[p], NoFd, NoFd)]
  IN IF p = Port1 /\ Overruns(p) THEN [own EXCEPT ![Port2][0] = NoFd] ELSE own

AddressesAfterDrop(p) ==
  LET own == [cliIpAddress EXCEPT
                ![p] = CloseGap(@, loop[p], sockCnt[p], NoAddr, NoAddr)]
  IN IF p = Port1 /\ Overruns(p) THEN [own EXCEPT ![Port2][0] = NoAddr] ELSE own

\* Mutant: only the clients' table is closed up.
PollFdsUnmoved(p) == pollFd

\* Of two entries, the one past the end is set to -1 as well.  Of a full table it is
\* pollFd[30], which is outside the array (l.342-343): in the shipped executable the
\* words of sockOpt, no longer used, and of cli_addr, which accept() fills in anew.
PollFdsAfterDrop(p) ==
  LET own == CloseGap(pollFd[p], loop[p], sockCnt[p], 0, 0)
  IN [pollFd EXCEPT ![p] = IF sockCnt[p] = 2 THEN [own EXCEPT ![2] = NoFd] ELSE own]

CountAfterDrop(p) ==
  [sockCnt EXCEPT ![p] = IF @ < 2 THEN @ ELSE @ - 1]

\* Mutant: sem_post without the sem_wait.
SemAfterDropPosted(p, net) == [semInfo EXCEPT ![p] = @ + net + 1]

\* The semaphores after a removal that took p's and changed it by `net' in
\* all: the overrun falls between the sem_wait and what follows it.
SemAfterDrop(p, net) ==
  IF p = Port2 /\ Overruns(p)
  THEN [semInfo EXCEPT ![Port2] = @ + net, ![Port1] = -1]
  ELSE [semInfo EXCEPT ![p] = @ + net]

Drop(p) ==
  /\ Running
  /\ CanWait(p)
  /\ sock' = Closing(cliFd[p][loop[p]])
  /\ cliFd' = FdsAfterDrop(p)
  /\ cliIpAddress' = AddressesAfterDrop(p)
  /\ pollFd' = PollFdsAfterDrop(p)
  /\ sockCnt' = CountAfterDrop(p)
  /\ UNCHANGED <<conn, world, call>>

\* Mutant: the bits stay where they are.
ReventsUnmoved(p) == revents

\* The bits poll() left move with their entries.
ReventsAfterDrop(p) ==
  [revents EXCEPT ![p] = CloseGap(@, loop[p], sockCnt[p], FALSE, FALSE)]

\* With one client the pass breaks off after it.
NoRevents(p) == [revents EXCEPT ![p] = [i \in Slots |-> FALSE]]

\* A marked client is dropped.  The last one: sem_post and break.
SweepLast(p) ==
  /\ pc[p] = "sweep" /\ sockCnt[p] = 2
  /\ Drop(p)
  /\ semInfo' = SemAfterDrop(p, 0)
  /\ revents' = NoRevents(p)
  /\ EndPass(p)

\* One of several: the thread keeps the lock and goes on to wait for it again.
SweepOne(p) ==
  /\ pc[p] = "sweep" /\ sockCnt[p] # 2
  /\ Drop(p)
  /\ semInfo' = SemAfterDrop(p, -1)
  /\ revents' = ReventsAfterDrop(p)
  /\ pc' = [pc EXCEPT ![p] = "rewait"]
  /\ UNCHANGED loop

\* The second sem_wait (l.351); the same index is looked at next.
SweepWaits(p) ==
  /\ Running
  /\ pc[p] = "rewait" /\ CanWait(p)
  /\ semInfo' = [semInfo EXCEPT ![p] = @ - 1]
  /\ pc' = [pc EXCEPT ![p] = "scan"]
  /\ UNCHANGED <<tables, loop, conn, world, call, sock>>

\* recv() had failed.  The last client: sem_post and break.
DropFailedLast(p) ==
  /\ pc[p] = "rmerr" /\ sockCnt[p] = 2
  /\ Drop(p)
  /\ semInfo' = SemAfterDrop(p, 0)
  /\ revents' = NoRevents(p)
  /\ EndPass(p)

DropFailed(p) ==
  /\ pc[p] = "rmerr" /\ sockCnt[p] # 2
  /\ Drop(p)
  /\ semInfo' = SemAfterDrop(p, 0)
  /\ revents' = ReventsAfterDrop(p)
  /\ pc' = [pc EXCEPT ![p] = "scan"]
  /\ UNCHANGED loop

\* recv() had returned 0.  The last client: break, without sem_post.
DropEndedLast(p) ==
  /\ pc[p] = "rmfin" /\ sockCnt[p] = 2
  /\ Drop(p)
  /\ semInfo' = SemAfterDrop(p, -1)
  /\ revents' = NoRevents(p)
  /\ EndPass(p)

DropEnded(p) ==
  /\ pc[p] = "rmfin" /\ sockCnt[p] # 2
  /\ Drop(p)
  /\ semInfo' = SemAfterDrop(p, 0)
  /\ revents' = ReventsAfterDrop(p)
  /\ pc' = [pc EXCEPT ![p] = "scan"]
  /\ UNCHANGED loop

-----------------------------------------------------------------------------
Receiver(p) ==
  \/ \E f \in Fds : AcceptDuplicate(p, f) \/ AcceptNew(p, f) \/ AcceptFull(p, f)
  \/ DupReplace(p)
  \/ PollScan(p) \/ ScanEnds(p) \/ ScanFindsMarked(p) \/ ScanSkips(p)
  \/ RecvData(p) \/ RecvEnds(p) \/ RecvFails(p)
  \/ EchoCalls(p) \/ EchoReturns(p)
  \/ SweepLast(p) \/ SweepOne(p) \/ SweepWaits(p)
  \/ DropFailedLast(p) \/ DropFailed(p)
  \/ DropEndedLast(p) \/ DropEnded(p)

Environment ==
  \/ \E p \in Ports, a \in Addr : Connect(p, a)
  \/ \E f \in Fds : PeerSends(f) \/ PeerCloses(f) \/ PeerResets(f)
  \/ \E s \in Senders, ports \in SUBSET Ports, a \in Addr : AppSends(s, ports, a)

Next ==
  \/ \E p \in Ports : Receiver(p)
  \/ \E c \in Callers : CallStep(c)
  \/ Environment

Spec == Init /\ [][Next]_vars

\* The kernel schedules every thread that can run; clients owe nothing.
Fairness ==
  /\ \A p \in Ports : WF_vars(Receiver(p))
  /\ \A c \in Callers : WF_vars(CallStep(c))

FairSpec == Spec /\ Fairness

-----------------------------------------------------------------------------
(* Properties                                                               *)

\* Every variable keeps to the values the code can give it.
TypeOK ==
  /\ cliFd \in [Ports -> [Slots -> Fds \cup {0, NoFd}]]
  /\ cliIpAddress \in [Ports -> [Slots -> Addr \cup {NoAddr, Marked}]]
  /\ pollFd \in [Ports -> [Slots -> Fds \cup {0, NoFd}]]
  /\ revents \in [Ports -> [Slots -> BOOLEAN]]
  /\ sockCnt \in [Ports -> 1..ClientMax]
  /\ semInfo \in [Ports -> Int]
  /\ loop \in [Ports -> 1..ClientMax]
  /\ pc \in [Ports -> PcValues]
  /\ conn \in [Ports -> Connection]
  /\ call \in [Callers -> Call]
  /\ sock \in [Fds -> Socket]
  /\ pending \in [Ports -> Seq(Addr)]
  /\ visits \in [Ports -> [Addr -> Nat]]
  /\ alive \in BOOLEAN

\* The two arrays of a receiver agree: the descriptor it polls and receives
\* from at an entry is the one senders use, and removals close, for it.
TablesAgree ==
  \A p \in Ports : \A k \in Active(p) : pollFd[p][k] = cliFd[p][k]

\* A client has at most one entry in use: the duplicate management of
\* l.246-278 holds although the entry is installed without the lock, senders
\* mark entries at any time, and removals leave copies behind.
OneSlotPerAddress ==
  \A p \in Ports : \A i, j \in Active(p) :
    cliIpAddress[p][i] = cliIpAddress[p][j] /\ i # j
      => cliIpAddress[p][i] = Marked

\* What removals leave behind in the entries not in use is at most one entry,
\* the next to be overwritten, or entry 2 when no client is left: it can
\* mislead one search, never accumulate.
StaleConfined(p) ==
  \A i \in Slots : cliIpAddress[p][i] # NoAddr => i <= 2 \/ i <= sockCnt[p]

LeftoversConfined == \A p \in Ports : StaleConfined(p)

\* "A failure to keep the number of clients, which cannot happen" (l.320, 369,
\* 407): when the code gets to a removal or an echo, its index is in use.
CountNeverLost ==
  \A p \in Ports :
    pc[p] \in {"sweep", "received", "echo", "rmerr", "rmfin"}
      => loop[p] < sockCnt[p]

\* A removal takes out the client at loop and nobody else: every other entry
\* is still in use afterwards, with its descriptor, address and poll result.
SparesOthers(p) ==
  sockCnt'[p] < sockCnt[p] =>
    \A k \in Active(p) \ {loop[p]} : \E j \in 1..(sockCnt'[p] - 1) :
      /\ cliFd'[p][j] = cliFd[p][k]
      /\ cliIpAddress'[p][j] = cliIpAddress[p][k]
      /\ pollFd'[p][j] = pollFd[p][k]
      /\ revents'[p][j] = revents[p][k]

RemovalSparesOthers == [][\A p \in Ports : SparesOthers(p)]_vars

\* Callers between their sem_wait and sem_post on port p, and a receiver that
\* has not released the lock of a removal.
Holders(p) ==
  {c \in Callers : call[c].at \in {"found", "send", "finish"} /\ PortOf(c) = p}
    \cup (IF pc[p] = "rewait" THEN {p} ELSE {})

\* The semaphore is a lock: one holder at most, and none while it is free.
IsLock(p) ==
  /\ semInfo[p] \in {0, 1}
  /\ \A c, d \in Holders(p) : c = d
  /\ Holders(p) # {} => semInfo[p] = 0

LocksHold == \A p \in Ports : IsLock(p)

Port2LockHolds == IsLock(Port2)

\* A removal from a full table of port 5002 writes over semInfo[0].
OverrunStep == sockCnt[Port2] = ClientMax /\ sockCnt'[Port2] < ClientMax

\* Port 5002's lock is one whatever happens, port 5000's until it is written
\* over: no order of waits and posts, and no leak, makes a second holder.
OnlyOverrunBreaksLock ==
  [][\A p \in Ports :
       IsLock(p) /\ ~IsLock(p)' => p = Port1 /\ OverrunStep]_vars

\* Nobody holds the lock and nobody can take it.
Leaked(p) == semInfo[p] = 0 /\ Holders(p) = {}

\* A lock that was lost stays lost: no other caller's sem_post repairs it.
LeakIsForever ==
  [][\A p \in Ports :
       Leaked(p) => Leaked(p)' \/ (p = Port1 /\ OverrunStep)]_vars

\* Without reconnections: a socket is open exactly while one entry in use has
\* it, and the entry names the client at its other end.
Owns(p, k, f) == k \in Active(p) /\ cliFd[p][k] = f

SocketsAccounted ==
  /\ \A p \in Ports : \A k \in Active(p) :
       \A q \in Ports : \A j \in Active(q) :
         cliFd[p][k] = cliFd[q][j] => p = q /\ k = j
  /\ \A f \in Fds :
       sock[f].state # "closed" <=>
         \E p \in Ports : \E k \in Active(p) :
           /\ Owns(p, k, f)
           /\ sock[f].port = p
           /\ cliIpAddress[p][k] \in {sock[f].addr, Marked}

\* Without reconnections: what poll() reported is still there when the thread
\* gets to the entry, after echoing to others and removing some: recv() on a
\* blocking socket never waits.
RecvNeverWaits ==
  \A p \in Ports : Scanning(p) /\ ~IsMarked(p) /\ IsReady(p)
                     => Readable(pollFd[p][loop[p]])

\* A receiver that can no longer do its work: the process is gone, its lock
\* is lost, or it waits for the lock it holds.
Stuck(p) ==
  ~alive \/ Leaked(p) \/ (pc[p] = "rewait" /\ ~CanWait(p))

\* Without reconnections: every connection is accepted (or turned away).
DialsAnswered ==
  \A p \in Ports : pending[p] # << >> ~> pending[p] = << >> \/ Stuck(p)

\* Without reconnections: a connection its client has left, by closing it or
\* by a reset, is closed: no descriptor is lost.
HangupsClosed ==
  \A p \in Ports, f \in Fds :
    sock[f].port = p /\ sock[f].state \in {"fin", "err", "pipe"}
      ~> sock[f].state = "closed" \/ Stuck(p)

-----------------------------------------------------------------------------
(* The tables implement a list of clients.                                  *)

Clients(p) ==
  [k \in Active(p) |-> [fd |-> cliFd[p][k], addr |-> cliIpAddress[p][k]]]

Table == INSTANCE ClientTable WITH
  Capacity <- ClientMax - 1,
  size     <- [p \in Ports |-> sockCnt[p] - 1],
  client   <- [p \in Ports |-> Clients(p)]

\* What is in use of the two arrays, read as a list, changes by a client joining,
\* coming back, being marked or leaving, and in no other way, although marks come
\* at any time, searches stop at entries left behind, and a removal shifts the
\* arrays while the receiver goes over them (l.246-458).
IsClientTable == Table!Spec

-----------------------------------------------------------------------------
(* What the comments of the code promise and the code does not keep.        *)

\* "Data received normally: echo" (l.440): the receiver returns from the echo.
EveryEchoReturns ==
  \A p \in Ports : pc[p] = "echo" ~> pc[p] # "echo" \/ ~alive

\* "When a sender learns that the peer is gone, the receiver does the ending"
\* (l.309): the entry that is marked is the one whose send failed.
FailureMarksItsClient ==
  \A x \in Callers : call[x].at = "finish" /\ call[x].failed
                       => cliFd[PortOf(x)][call[x].slot] = call[x].fd

=============================================================================
