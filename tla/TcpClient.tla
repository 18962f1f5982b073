------------------------------ MODULE TcpClient ------------------------------
(***************************************************************************)
(* The TCP client of sample_tcp_client/TcpClient.c: three threads          *)
(* (ThreadTcpClient), each of which keeps a connection to its server up,   *)
(* and application threads that send through SendTcpDataFromClient.  They  *)
(* share the table pollTcpClient, without a lock, and the descriptors of   *)
(* the process.  Which server a client connects to is left out: nothing    *)
(* depends on it.                                                          *)
(***************************************************************************)
EXTENDS Integers, Sequences

CONSTANTS
  Client,    \* TCP_CLIENT_NO1, ...: the sockNo of each thread
  Fds,       \* the descriptors socket() can return
  Senders,   \* application threads
  Reconn,    \* TIMEOUT_RECONN (100)
  MaxDown,   \* bound: how far waitTimeCnt counts below 0 while connected
  MaxData,   \* bound: buffers of unread data
  Failures   \* bound: the calls that may fail

ASSUME TcpClientAssumption ==
  /\ Client \subseteq Nat
  /\ Fds \subseteq Nat \ {0}
  /\ Reconn \in Nat \ {0}
  /\ MaxDown \in Nat
  /\ MaxData \in Nat
  /\ Failures \subseteq {"socket", "setsockopt", "connect"}

NoFd == -1

VARIABLES
  fd,             \* pollTcpClient[sockNo].fd
  sockFd,         \* the descriptor ConnectionTcp works on
  connectInform,  \* tcpFlagInform.connectInform
  waitTimeCnt,    \* tcpFlagInform.waitTimeCnt
  pc,             \* where each thread is
  sock,           \* the process's sockets, by descriptor
  call,           \* the SendTcpDataFromClient call of every sender
  alive           \* FALSE once a signal has killed the process

client == <<fd, sockFd, connectInform, waitTimeCnt, pc>>
vars   == <<client, sock, call, alive>>

-----------------------------------------------------------------------------
(* Data                                                                     *)

NoClient == -1
NoCall == [fd |-> NoFd, sockNo |-> NoClient]
NoSock == [state |-> "closed", data |-> 0, owner |-> NoClient]

\* "new": not connected yet; "fin", "err" and "pipe": the server has closed the
\* connection, it has reset it, and one of us has been told or has provoked it.
SockStates == {"closed", "new", "open", "fin", "err", "pipe"}

\* "ip", "port": at the keyboard; "forget": the connection is closed, the table
\* entry not cleared yet.
PcValues == {"ip", "port", "loop", "connect", "forget"}

StateOf(f) == IF f \in Fds THEN sock[f].state ELSE "closed"

\* socket() hands out the lowest descriptor that is free.
IsNextFd(f) ==
  /\ sock[f].state = "closed"
  /\ \A g \in Fds : g < f => sock[g].state # "closed"

Closing(f) == [g \in Fds |-> IF g = f THEN NoSock ELSE sock[g]]

\* waitTimeCnt--; below 0 its value is never looked at.
Less(n) == IF n > -MaxDown THEN n - 1 ELSE n

-----------------------------------------------------------------------------
Init ==
  /\ fd = [c \in Client |-> 0]
  /\ sockFd = [c \in Client |-> 0]
  /\ connectInform = [c \in Client |-> FALSE]
  /\ waitTimeCnt = [c \in Client |-> 0]
  /\ pc = [c \in Client |-> "ip"]
  /\ sock = [f \in Fds |-> NoSock]
  /\ call = [s \in Senders |-> NoCall]
  /\ alive = TRUE

Running == alive /\ UNCHANGED alive

-----------------------------------------------------------------------------
(* The servers.                                                             *)

ServerSends(f) ==
  /\ Running
  /\ sock[f].state = "open" /\ sock[f].data < MaxData
  /\ sock' = [sock EXCEPT ![f].data = @ + 1]
  /\ UNCHANGED <<client, call>>

ServerEnds(f) ==
  /\ Running
  /\ sock[f].state = "open"
  /\ \E how \in {"fin", "err"} : sock' = [sock EXCEPT ![f].state = how]
  /\ UNCHANGED <<client, call>>

-----------------------------------------------------------------------------
(* SendTcpDataFromClient: the descriptor is read, then written to.          *)

SendReads(s, c) ==
  /\ Running
  /\ call[s] = NoCall
  /\ fd[c] > 0
  /\ call' = [call EXCEPT ![s] = [fd |-> fd[c], sockNo |-> c]]
  /\ UNCHANGED <<client, sock>>

\* write() takes the data, or fails; a server that is gone answers with a reset.  On a
\* socket that is being connected it waits.
SendWrites(s) ==
  LET f == call[s].fd IN
  /\ Running
  /\ call[s] # NoCall
  /\ StateOf(f) \notin {"pipe", "new"}
  /\ sock' = [g \in Fds |-> IF g = f /\ sock[g].state \in {"fin", "err"}
                            THEN [sock[g] EXCEPT !.state = "pipe"] ELSE sock[g]]
  /\ call' = [call EXCEPT ![s] = NoCall]
  /\ UNCHANGED client

\* Nobody handles SIGPIPE.  It also comes when the descriptor is, by now, a socket that
\* connect() was not called for.
SendKilled(s) ==
  /\ alive
  /\ call[s] # NoCall
  /\ StateOf(call[s].fd) \in {"pipe", "new"}
  /\ alive' = FALSE
  /\ UNCHANGED <<client, sock, call>>

-----------------------------------------------------------------------------
(* ThreadTcpClient asks for an address, again and again until inet_aton takes  *)
(* what was typed, then for a port, which atoi takes as it is.  The threads    *)
(* read the same stdin a character at a time: any line may be any thread's.    *)
(* Every line ends, within the 32 characters that keyboard has.                *)

ScanKeyboardData(c) ==
  /\ Running
  /\ \/ pc[c] = "ip" /\ pc' = [pc EXCEPT ![c] = "port"]
     \/ pc[c] = "port" /\ pc' = [pc EXCEPT ![c] = "loop"]
  /\ UNCHANGED <<fd, sockFd, connectInform, waitTimeCnt, sock, call>>

-----------------------------------------------------------------------------
(* ThreadTcpClient, not connected.                                          *)

Disconnected(c) == pc[c] = "loop" /\ ~connectInform[c]

Waits(c) ==
  /\ Running
  /\ Disconnected(c) /\ waitTimeCnt[c] # 0
  /\ waitTimeCnt' = [waitTimeCnt EXCEPT ![c] = Less(@)]
  /\ UNCHANGED <<fd, sockFd, connectInform, pc, sock, call>>

\* ConnectionTcp: a socket is made and set up, then connect() is called.
Opens(c, f) ==
  /\ Running
  /\ Disconnected(c) /\ waitTimeCnt[c] = 0
  /\ IsNextFd(f)
  /\ sock' = [sock EXCEPT ![f] = [state |-> "new", data |-> 0, owner |-> c]]
  /\ sockFd' = [sockFd EXCEPT ![c] = f]
  /\ pc' = [pc EXCEPT ![c] = "connect"]
  /\ UNCHANGED <<fd, connectInform, waitTimeCnt, call>>

\* Mutant: the counter is not reset after an attempt.
AfterAttemptNot(c) == [waitTimeCnt EXCEPT ![c] = Less(@)]

\* After an attempt, successful or not, the counter is set and counted down.
AfterAttempt(c) == [waitTimeCnt EXCEPT ![c] = Less(Reconn)]

Fails(c) ==
  /\ sockFd' = [sockFd EXCEPT ![c] = NoFd]
  /\ waitTimeCnt' = AfterAttempt(c)
  /\ pc' = [pc EXCEPT ![c] = "loop"]
  /\ UNCHANGED <<fd, connectInform, call>>

SocketFails(c) ==
  /\ Running
  /\ Disconnected(c) /\ waitTimeCnt[c] = 0
  /\ "socket" \in Failures \/ \A f \in Fds : sock[f].state # "closed"
  /\ Fails(c)
  /\ UNCHANGED sock

\* The socket is made but not set up, and not closed either.
SetsockoptFails(c, f) ==
  /\ Running
  /\ Disconnected(c) /\ waitTimeCnt[c] = 0
  /\ "setsockopt" \in Failures /\ IsNextFd(f)
  /\ sock' = [sock EXCEPT ![f].state = "new"]
  /\ Fails(c)

Connects(c) ==
  /\ Running
  /\ pc[c] = "connect"
  /\ sock' = [sock EXCEPT ![sockFd[c]].state = "open"]
  /\ fd' = [fd EXCEPT ![c] = sockFd[c]]
  /\ connectInform' = [connectInform EXCEPT ![c] = TRUE]
  /\ waitTimeCnt' = AfterAttempt(c)
  /\ pc' = [pc EXCEPT ![c] = "loop"]
  /\ UNCHANGED <<sockFd, call>>

\* Mutant: the socket is not closed.
ConnectFailsOpen(c) ==
  /\ Running
  /\ pc[c] = "connect" /\ "connect" \in Failures
  /\ Fails(c)
  /\ UNCHANGED sock

ConnectFails(c) ==
  /\ Running
  /\ pc[c] = "connect" /\ "connect" \in Failures
  /\ sock' = Closing(sockFd[c])
  /\ Fails(c)

-----------------------------------------------------------------------------
(* ThreadTcpClient, connected: poll(), and recv() if it says so.            *)

Connected(c) == pc[c] = "loop" /\ connectInform[c]

\* Mutant: a result of -1 is not looked at.
IsOverAtEnd(f) == sock[f].data = 0 /\ sock[f].state = "fin"

IsOver(f) == sock[f].data = 0 /\ sock[f].state \in {"fin", "err", "pipe"}

\* Mutant: a result of 0 is taken for data.
HasDataOrNone(f) == sock[f].data > 0 \/ sock[f].state = "fin"

HasData(f) == sock[f].data > 0

PollsNothing(c) ==
  /\ Running
  /\ Connected(c) /\ ~HasData(fd[c]) /\ ~IsOver(fd[c])
  /\ waitTimeCnt' = [waitTimeCnt EXCEPT ![c] = Less(@)]
  /\ UNCHANGED <<fd, sockFd, connectInform, pc, sock, call>>

Receives(c) ==
  /\ Running
  /\ Connected(c) /\ HasData(fd[c])
  /\ sock' = [sock EXCEPT ![fd[c]].data = @ - 1]
  /\ waitTimeCnt' = [waitTimeCnt EXCEPT ![c] = Less(@)]
  /\ UNCHANGED <<fd, sockFd, connectInform, pc, call>>

\* Mutant: the counter keeps what it has counted down to.
AfterEndNot(c) == waitTimeCnt

AfterEnd(c) == [waitTimeCnt EXCEPT ![c] = Reconn]

\* recv() returns 0 or -1: the connection is closed first ...
Closes(c) ==
  /\ Running
  /\ Connected(c) /\ IsOver(fd[c])
  /\ sock' = Closing(fd[c])
  /\ connectInform' = [connectInform EXCEPT ![c] = FALSE]
  /\ waitTimeCnt' = AfterEnd(c)
  /\ pc' = [pc EXCEPT ![c] = "forget"]
  /\ UNCHANGED <<fd, sockFd, call>>

\* Mutant: the entry keeps the closed descriptor.
ForgottenNot(c) == fd

Forgotten(c) == [fd EXCEPT ![c] = NoFd]

\* ... and its table entry cleared last.
Forgets(c) ==
  /\ Running
  /\ pc[c] = "forget"
  /\ fd' = Forgotten(c)
  /\ waitTimeCnt' = [waitTimeCnt EXCEPT ![c] = Less(@)]
  /\ pc' = [pc EXCEPT ![c] = "loop"]
  /\ UNCHANGED <<sockFd, connectInform, sock, call>>

-----------------------------------------------------------------------------
ThreadTcpClient(c) ==
  \/ Waits(c)
  \/ \E f \in Fds : Opens(c, f) \/ SetsockoptFails(c, f)
  \/ SocketFails(c)
  \/ Connects(c) \/ ConnectFails(c)
  \/ PollsNothing(c) \/ Receives(c) \/ Closes(c) \/ Forgets(c)

Next ==
  \/ \E c \in Client : ScanKeyboardData(c) \/ ThreadTcpClient(c)
  \/ \E s \in Senders : SendWrites(s) \/ SendKilled(s) \/ \E c \in Client : SendReads(s, c)
  \/ \E f \in Fds : ServerSends(f) \/ ServerEnds(f)

Spec == Init /\ [][Next]_vars

\* The threads are scheduled, and connect() returns; nobody has to type.
Fairness == \A c \in Client : WF_vars(ThreadTcpClient(c))

FairSpec == Spec /\ Fairness

-----------------------------------------------------------------------------
(* Properties                                                               *)

\* Every variable keeps to its values.
TypeOK ==
  /\ fd \in [Client -> Fds \cup {0, NoFd}]
  /\ sockFd \in [Client -> Fds \cup {0, NoFd}]
  /\ connectInform \in [Client -> BOOLEAN]
  /\ waitTimeCnt \in [Client -> Int]
  /\ pc \in [Client -> PcValues]
  /\ sock \in [Fds -> [state : SockStates, data : Nat, owner : Client \cup {NoClient}]]
  /\ call \in [Senders -> [fd : Fds \cup {NoFd}, sockNo : Client \cup {NoClient}]]
  /\ alive \in BOOLEAN

\* The table leads senders to the client's own connection, or nowhere, in spite of
\* descriptors being closed and handed out again by all threads; the one exception
\* is the moment between close() and fd = -1 (l.245-248, l.252-255).
EntryIsOwn ==
  \A c \in Client : fd[c] > 0 /\ pc[c] # "forget"
    => sock[fd[c]].owner = c /\ connectInform[c]

\* While a client is not connected its counter is between the timeout and 0, the
\* one value that makes it try again: it never gets past it.
WaitReachesZero ==
  \A c \in Client : Disconnected(c) => waitTimeCnt[c] \in 0..Reconn

\* A socket is open exactly while one client is connecting with it or connected by
\* it: none is lost, none is shared.  The exception is the socket setsockopt()
\* failed for (l.168-173), which nobody owns.
Holds(c, f) ==
  \/ pc[c] = "connect" /\ sockFd[c] = f
  \/ connectInform[c] /\ fd[c] = f

SocketsHeld ==
  \A f \in Fds :
    /\ sock[f].owner # NoClient => \E c \in Client : Holds(c, f)
    /\ \A c, d \in Client : Holds(c, f) /\ Holds(d, f) => c = d

\* A client that is not connected tries to connect again, and gets as far as
\* connect() unless the system has no socket for it or refuses to set it up.
Attempts(c) ==
  \/ pc[c] = "connect"
  \/ Disconnected(c) /\ waitTimeCnt[c] = 0

ClientTriesAgain ==
  \A c \in Client :
    pc[c] \in {"loop", "forget"} /\ ~connectInform[c] ~> Attempts(c) \/ ~alive

\* A connection that its server has ended is closed.
EndIsNoticed ==
  \A f \in Fds : sock[f].state \in {"fin", "err", "pipe"}
    ~> sock[f].state = "closed" \/ ~alive

=============================================================================
