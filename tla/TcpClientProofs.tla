--------------------------- MODULE TcpClientProofs ---------------------------
(***************************************************************************)
(* What TcpClient promises whatever the number of clients, descriptors and *)
(* senders, and however long it runs.                                      *)
(*                                                                         *)
(* The table holds what the three flags of a client make of it: pc,        *)
(* connectInform and fd together say which socket is a client's, and       *)
(* SocketInv says that this and the owner of the socket never disagree.    *)
(* The rest follows: a socket has one owner.                               *)
(***************************************************************************)
EXTENDS TcpClient, TLAPS

\* A client that is connecting has a socket of its own.
ConnectingOwns ==
  \A c \in Client : pc[c] = "connect" =>
    /\ sockFd[c] \in Fds
    /\ sock[sockFd[c]].owner = c
    /\ ~connectInform[c]

\* A connected client waits in its loop, and its entry is the socket it owns.
ConnectedOwns ==
  \A c \in Client : connectInform[c] =>
    /\ pc[c] = "loop"
    /\ fd[c] \in Fds
    /\ sock[fd[c]].owner = c

\* A client that is not connected has no entry, but for the moment before "forget".
NoEntry ==
  \A c \in Client : ~connectInform[c] /\ pc[c] # "forget" => fd[c] \in {0, NoFd}

\* A socket with an owner is not closed, and its owner knows.
OwnerHolds ==
  \A f \in Fds : sock[f].owner # NoClient =>
    /\ sock[f].state # "closed"
    /\ Holds(sock[f].owner, f)

SocketInv == ConnectingOwns /\ ConnectedOwns /\ NoEntry /\ OwnerHolds

\* Where the counter stands at every point of the thread.
CountInv ==
  \A c \in Client :
    /\ pc[c] \in {"ip", "port", "connect"} => waitTimeCnt[c] = 0
    /\ pc[c] = "forget" => waitTimeCnt[c] = Reconn
    /\ Disconnected(c) => waitTimeCnt[c] \in 0..Reconn
    /\ pc[c] # "loop" => ~connectInform[c]

ClientInv == TypeOK /\ SocketInv /\ CountInv

-----------------------------------------------------------------------------
(* The type invariant.  Two guards need more than types: a client that acts on *)
(* its entry, or on the socket it works on, has one.                           *)

LEMMA NoClientIsNone == NoClient \notin Client
BY TcpClientAssumption DEF NoClient

\* The counter stays an integer, and reaches at most one less.
LEMMA LessType ==
  ASSUME NEW n \in Int
  PROVE  Less(n) \in Int /\ (n > 0 => Less(n) = n - 1)
BY TcpClientAssumption DEF Less

LEMMA ClosingType ==
  ASSUME TypeOK, NEW f
  PROVE  Closing(f) \in [Fds -> [state : SockStates, data : Nat, owner : Client \cup {NoClient}]]
BY DEF TypeOK, Closing, NoSock, SockStates

\* Steps of the servers and the senders keep to the types.
LEMMA OutsideType ==
  ASSUME TypeOK, SocketInv,
         \/ \E f \in Fds : ServerSends(f) \/ ServerEnds(f)
         \/ \E s \in Senders : SendWrites(s) \/ SendKilled(s) \/ \E c \in Client : SendReads(s, c)
  PROVE  TypeOK'
<1> USE DEF TypeOK, Running, client, SockStates
<1>1. CASE \E f \in Fds : ServerSends(f)
  BY <1>1 DEF ServerSends
<1>2. CASE \E f \in Fds : ServerEnds(f)
  BY <1>2 DEF ServerEnds
<1>3. CASE \E s \in Senders : SendWrites(s)
  <2>1. PICK s \in Senders : SendWrites(s)
    BY <1>3
  <2>2. sock' \in [Fds -> [state : SockStates, data : Nat, owner : Client \cup {NoClient}]]
    <3> DEFINE piped(g) == [sock[g] EXCEPT !.state = "pipe"]
    <3>1. \A g \in Fds : piped(g) \in [state : SockStates, data : Nat,
                                      owner : Client \cup {NoClient}]
      BY DEF SockStates
    <3>2. \A g \in Fds : sock'[g] \in {sock[g], piped(g)}
      BY <2>1 DEF SendWrites
    <3>3. sock' = [g \in Fds |-> sock'[g]]
      BY <2>1 DEF SendWrites
    <3> HIDE DEF piped
    <3> QED BY <3>1, <3>2, <3>3
  <2>3. call' \in [Senders -> [fd : Fds \cup {NoFd}, sockNo : Client \cup {NoClient}]]
    BY <2>1 DEF SendWrites, NoCall
  <2> QED BY <2>1, <2>2, <2>3 DEF SendWrites
<1>4. CASE \E s \in Senders : SendKilled(s)
  BY <1>4 DEF SendKilled
<1>5. CASE \E s \in Senders, c \in Client : SendReads(s, c)
  BY <1>5 DEF SendReads, NoFd
<1> QED BY <1>1, <1>2, <1>3, <1>4, <1>5

\* So do the steps of the client threads.
LEMMA ThreadType ==
  ASSUME TypeOK, SocketInv, NEW c \in Client, ScanKeyboardData(c) \/ ThreadTcpClient(c)
  PROVE  TypeOK'
<1> USE DEF TypeOK, Running, PcValues
<1>0. Reconn \in Int /\ \A n \in Int : Less(n) \in Int
  BY LessType, TcpClientAssumption
<1>1. CASE ScanKeyboardData(c)
  BY <1>1 DEF ScanKeyboardData
<1>2. CASE Waits(c)
  BY <1>0, <1>2 DEF Waits
<1>3. ASSUME NEW f \in Fds, Opens(c, f)
      PROVE  TypeOK'
  BY <1>3 DEF Opens, SockStates
<1>4. ASSUME Fails(c)
      PROVE  /\ sockFd' \in [Client -> Fds \cup {0, NoFd}]
             /\ waitTimeCnt' \in [Client -> Int]
             /\ pc' \in [Client -> PcValues]
             /\ UNCHANGED <<fd, connectInform, call>>
  BY <1>0, <1>4 DEF Fails, AfterAttempt
<1>5. ASSUME NEW f \in Fds, SetsockoptFails(c, f)
      PROVE  TypeOK'
  BY <1>4, <1>5 DEF SetsockoptFails, SockStates
<1>6. CASE SocketFails(c)
  BY <1>4, <1>6 DEF SocketFails
<1>7. CASE ConnectFails(c)
  BY <1>4, <1>7, ClosingType DEF ConnectFails
<1>8. CASE Connects(c)
  <2>1. sockFd[c] \in Fds
    BY <1>8 DEF Connects, SocketInv, ConnectingOwns
  <2> QED BY <1>0, <1>8, <2>1 DEF Connects, AfterAttempt, SockStates
<1>9. CASE PollsNothing(c)
  BY <1>0, <1>9 DEF PollsNothing
<1>10. CASE Receives(c)
  <2>1. fd[c] \in Fds /\ sock[fd[c]].data > 0
    BY <1>10 DEF Receives, Connected, HasData, SocketInv, ConnectedOwns
  <2>2. sock[fd[c]].data - 1 \in Nat
    BY <2>1
  <2>3. sock' \in [Fds -> [state : SockStates, data : Nat, owner : Client \cup {NoClient}]]
    BY <1>10, <2>1, <2>2 DEF Receives
  <2> QED BY <1>0, <1>10, <2>3 DEF Receives
<1>11. CASE Closes(c)
  BY <1>0, <1>11, ClosingType DEF Closes, AfterEnd
<1>12. CASE Forgets(c)
  BY <1>0, <1>12 DEF Forgets, Forgotten
<1> QED BY <1>1, <1>2, <1>3, <1>5, <1>6, <1>7, <1>8, <1>9, <1>10, <1>11, <1>12
     DEF ThreadTcpClient

-----------------------------------------------------------------------------
(* The sockets.                                                             *)

\* Steps that change no flag, no owner and open or close no socket.
LEMMA OwnersKept ==
  ASSUME TypeOK, SocketInv, UNCHANGED <<fd, sockFd, connectInform>>,
         \A c \in Client : (pc'[c] = "connect" <=> pc[c] = "connect")
                        /\ (pc'[c] = "forget" <=> pc[c] = "forget")
                        /\ (pc[c] = "loop" => pc'[c] = "loop"),
         \A f \in Fds : /\ sock'[f].owner = sock[f].owner
                        /\ sock'[f].state = "closed" <=> sock[f].state = "closed"
  PROVE  SocketInv'
<1>1. ConnectingOwns'
  BY DEF SocketInv, ConnectingOwns
<1>2. ConnectedOwns'
  BY DEF SocketInv, ConnectedOwns
<1>3. NoEntry'
  BY DEF SocketInv, NoEntry
<1>4. OwnerHolds'
  BY DEF SocketInv, OwnerHolds, Holds, TypeOK
<1> QED BY <1>1, <1>2, <1>3, <1>4 DEF SocketInv

LEMMA OutsideSockets ==
  ASSUME TypeOK, SocketInv,
         \/ \E f \in Fds : ServerSends(f) \/ ServerEnds(f)
         \/ \E s \in Senders : SendWrites(s) \/ SendKilled(s) \/ \E c \in Client : SendReads(s, c)
  PROVE  UNCHANGED client /\ SocketInv'
<1>1. UNCHANGED client
  BY DEF ServerSends, ServerEnds, SendWrites, SendKilled, SendReads
<1>2. \A f \in Fds : /\ sock'[f].owner = sock[f].owner
                     /\ sock'[f].state = "closed" <=> sock[f].state = "closed"
  <2> USE DEF TypeOK
  <2>1. CASE \E f \in Fds : ServerSends(f)
    BY <2>1 DEF ServerSends
  <2>2. CASE \E f \in Fds : ServerEnds(f)
    BY <2>2 DEF ServerEnds
  <2>3. CASE \E s \in Senders : SendWrites(s)
    BY <2>3 DEF SendWrites
  <2>4. CASE \E s \in Senders : SendKilled(s) \/ \E c \in Client : SendReads(s, c)
    BY <2>4 DEF SendKilled, SendReads
  <2> QED BY <2>1, <2>2, <2>3, <2>4
<1> QED BY <1>1, <1>2, OwnersKept DEF client

\* A descriptor that is free is nobody's.
LEMMA FreeIsNobodys ==
  ASSUME TypeOK, SocketInv, NEW f \in Fds, sock[f].state = "closed"
  PROVE  /\ sock[f].owner = NoClient
         /\ \A c \in Client : ~Holds(c, f)
<1>1. sock[f].owner = NoClient
  BY DEF SocketInv, OwnerHolds
<1> QED BY <1>1, NoClientIsNone DEF SocketInv, ConnectingOwns, ConnectedOwns, Holds

\* What is a client's is no other client's.
LEMMA HolderOwns ==
  ASSUME TypeOK, SocketInv, NEW c \in Client, NEW f \in Fds, Holds(c, f)
  PROVE  sock[f].owner = c
BY DEF SocketInv, ConnectingOwns, ConnectedOwns, Holds

\* socket(): the new socket is its client's.
LEMMA OpensSockets ==
  ASSUME TypeOK, SocketInv, NEW c \in Client, NEW f \in Fds, Opens(c, f)
  PROVE  SocketInv'
<1> USE DEF TypeOK
<1>0. /\ sock[f].state = "closed" /\ pc[c] = "loop" /\ ~connectInform[c]
      /\ sock' = [sock EXCEPT ![f] = [state |-> "new", data |-> 0, owner |-> c]]
      /\ sockFd' = [sockFd EXCEPT ![c] = f]
      /\ pc' = [pc EXCEPT ![c] = "connect"]
      /\ UNCHANGED <<fd, connectInform>>
  BY DEF Opens, IsNextFd, Disconnected
<1>1. sock[f].owner = NoClient /\ \A d \in Client : ~Holds(d, f)
  BY <1>0, FreeIsNobodys
<1>2. ConnectingOwns'
  <2> SUFFICES ASSUME NEW d \in Client, pc'[d] = "connect"
               PROVE  sockFd'[d] \in Fds /\ sock'[sockFd'[d]].owner = d /\ ~connectInform'[d]
    BY DEF ConnectingOwns
  <2>1. CASE d = c
    BY <1>0, <2>1
  <2>2. CASE d # c
    <3>1. pc[d] = "connect" /\ sockFd'[d] = sockFd[d] /\ sockFd[d] # f
      BY <1>0, <1>1, <2>2 DEF Holds
    <3> QED BY <1>0, <3>1 DEF SocketInv, ConnectingOwns
  <2> QED BY <2>1, <2>2
<1>3. ConnectedOwns'
  BY <1>0, <1>1 DEF SocketInv, ConnectedOwns, Holds
<1>4. NoEntry'
  BY <1>0 DEF SocketInv, NoEntry
<1>5. OwnerHolds'
  <2> SUFFICES ASSUME NEW g \in Fds, sock'[g].owner # NoClient
               PROVE  (sock[g].state # "closed" /\ Holds(sock[g].owner, g))'
    BY DEF OwnerHolds
  <2>1. CASE g = f
    BY <1>0, <2>1 DEF Holds
  <2>2. CASE g # f
    <3>1. sock'[g] = sock[g] /\ sock[g].owner \in Client
      BY <1>0, <2>2
    <3>2. sock[g].state # "closed" /\ Holds(sock[g].owner, g)
      BY <3>1 DEF SocketInv, OwnerHolds
    <3>3. (Holds(sock[g].owner, g))'
      BY <1>0, <3>1, <3>2 DEF Holds
    <3> QED BY <3>1, <3>2, <3>3
  <2> QED BY <2>1, <2>2
<1> QED BY <1>2, <1>3, <1>4, <1>5 DEF SocketInv

\* A client that gives up a socket, or gives up before it has one, holds none and
\* has no entry; everyone else keeps what is theirs.  Freed is the socket closed,
\* or no descriptor at all.
LEMMA GivesUp ==
  ASSUME TypeOK, SocketInv, NEW c \in Client, NEW freed,
         ~connectInform'[c],
         \A d \in Client \ {c} : connectInform'[d] = connectInform[d],
         pc'[c] \in {"loop", "forget"},
         \A d \in Client \ {c} : pc'[d] = pc[d] /\ sockFd'[d] = sockFd[d] /\ fd'[d] = fd[d],
         pc'[c] = "loop" => fd'[c] \in {0, NoFd},
         \A f \in Fds : Holds(c, f) => f = freed,
         \A f \in Fds : f # freed =>
           /\ sock'[f].owner = sock[f].owner
           /\ sock[f].state # "closed" => sock'[f].state # "closed",
         freed \in Fds => Holds(c, freed) /\ sock'[freed] = NoSock
  PROVE  SocketInv'
<1>1. \A d \in Client \ {c} : \A f \in Fds : Holds(d, f) => f # freed
  <2> SUFFICES ASSUME NEW d \in Client \ {c}, NEW f \in Fds, Holds(d, f), f = freed
               PROVE  FALSE
    OBVIOUS
  <2>1. sock[f].owner = d
    BY HolderOwns
  <2>2. sock[f].owner = c
    BY HolderOwns
  <2> QED BY <2>1, <2>2
<1>2. ConnectingOwns'
  <2> SUFFICES ASSUME NEW d \in Client, pc'[d] = "connect"
               PROVE  sockFd'[d] \in Fds /\ sock'[sockFd'[d]].owner = d /\ ~connectInform'[d]
    BY DEF ConnectingOwns
  <2>1. d # c /\ pc[d] = "connect" /\ sockFd'[d] = sockFd[d]
    OBVIOUS
  <2>2. sockFd[d] \in Fds /\ sock[sockFd[d]].owner = d /\ ~connectInform[d]
    BY <2>1 DEF SocketInv, ConnectingOwns
  <2> QED BY <1>1, <2>1, <2>2 DEF Holds
<1>3. ConnectedOwns'
  <2> SUFFICES ASSUME NEW d \in Client, connectInform'[d]
               PROVE  pc'[d] = "loop" /\ fd'[d] \in Fds /\ sock'[fd'[d]].owner = d
    BY DEF ConnectedOwns
  <2>1. d # c /\ connectInform[d] /\ fd'[d] = fd[d] /\ pc'[d] = pc[d]
    OBVIOUS
  <2>2. pc[d] = "loop" /\ fd[d] \in Fds /\ sock[fd[d]].owner = d
    BY <2>1 DEF SocketInv, ConnectedOwns
  <2> QED BY <1>1, <2>1, <2>2 DEF Holds
<1>4. NoEntry'
  BY DEF SocketInv, NoEntry
<1>5. OwnerHolds'
  <2> SUFFICES ASSUME NEW f \in Fds, (sock[f].owner # NoClient)'
               PROVE  (sock[f].state # "closed" /\ Holds(sock[f].owner, f))'
    BY DEF OwnerHolds
  <2>1. f # freed
    BY DEF NoSock
  <2>2. sock'[f].owner = sock[f].owner /\ sock[f].owner \in Client
    BY <2>1 DEF TypeOK
  <2>3. sock[f].state # "closed" /\ Holds(sock[f].owner, f)
    BY <2>2 DEF SocketInv, OwnerHolds
  <2>4. sock[f].owner # c
    BY <2>1, <2>3
  <2>5. (Holds(sock[f].owner, f))'
    BY <2>2, <2>3, <2>4 DEF Holds
  <2> QED BY <2>1, <2>3, <2>5
<1> QED BY <1>2, <1>3, <1>4, <1>5 DEF SocketInv

\* connect() succeeds: the socket the client works on becomes its entry.
LEMMA ConnectsSockets ==
  ASSUME TypeOK, SocketInv, NEW c \in Client, Connects(c)
  PROVE  SocketInv'
<1> USE DEF TypeOK
<1>0. /\ pc[c] = "connect"
      /\ sock' = [sock EXCEPT ![sockFd[c]].state = "open"]
      /\ fd' = [fd EXCEPT ![c] = sockFd[c]]
      /\ connectInform' = [connectInform EXCEPT ![c] = TRUE]
      /\ pc' = [pc EXCEPT ![c] = "loop"]
      /\ UNCHANGED sockFd
  BY DEF Connects
<1>1. sockFd[c] \in Fds /\ sock[sockFd[c]].owner = c /\ ~connectInform[c]
  BY <1>0 DEF SocketInv, ConnectingOwns
<1>2. \A f \in Fds : /\ sock'[f].owner = sock[f].owner
                     /\ sock[f].state # "closed" => sock'[f].state # "closed"
  BY <1>0
<1>3. ConnectingOwns'
  BY <1>0, <1>2 DEF SocketInv, ConnectingOwns
<1>4. ConnectedOwns'
  BY <1>0, <1>1, <1>2 DEF SocketInv, ConnectedOwns
<1>5. NoEntry'
  BY <1>0 DEF SocketInv, NoEntry
<1>6. OwnerHolds'
  <2> SUFFICES ASSUME NEW f \in Fds, sock[f].owner # NoClient
               PROVE  (sock[f].state # "closed" /\ Holds(sock[f].owner, f))'
    BY <1>2 DEF OwnerHolds
  <2>1. sock[f].owner \in Client /\ sock[f].state # "closed" /\ Holds(sock[f].owner, f)
    BY DEF SocketInv, OwnerHolds
  <2>2. (Holds(sock[f].owner, f))'
    BY <1>0, <1>1, <1>2, <2>1 DEF Holds
  <2> QED BY <1>2, <2>1, <2>2
<1> QED BY <1>3, <1>4, <1>5, <1>6 DEF SocketInv

\* Every step of a client thread.
LEMMA ThreadSockets ==
  ASSUME TypeOK, SocketInv, CountInv, NEW c \in Client,
         ScanKeyboardData(c) \/ ThreadTcpClient(c)
  PROVE  SocketInv'
<1> USE DEF TypeOK
<1>1. CASE ScanKeyboardData(c)
  BY <1>1, OwnersKept DEF ScanKeyboardData
<1>2. CASE Waits(c) \/ PollsNothing(c)
  BY <1>2, OwnersKept DEF Waits, PollsNothing
<1>3. CASE Receives(c)
  <2>1. \A f \in Fds : /\ sock'[f].owner = sock[f].owner
                       /\ sock'[f].state = sock[f].state
    BY <1>3 DEF Receives
  <2> QED BY <1>3, <2>1, OwnersKept DEF Receives
<1>4. CASE \E f \in Fds : Opens(c, f)
  BY <1>4, OpensSockets
<1>5. CASE Connects(c)
  BY <1>5, ConnectsSockets
<1>6. ASSUME Disconnected(c), Fails(c),
             \A f \in Fds : /\ sock'[f].owner = sock[f].owner
                            /\ sock[f].state # "closed" => sock'[f].state # "closed"
      PROVE  SocketInv'
  <2>1. ~connectInform[c] /\ pc[c] = "loop" /\ fd[c] \in {0, NoFd}
    BY <1>6 DEF Disconnected, SocketInv, NoEntry
  <2>2. \A f \in Fds : ~Holds(c, f)
    BY <2>1 DEF Holds
  <2>3. NoFd \notin Fds
    BY TcpClientAssumption DEF NoFd
  <2> QED BY <1>6, <2>1, <2>2, <2>3, GivesUp DEF Fails
<1>7. CASE SocketFails(c)
  BY <1>6, <1>7 DEF SocketFails
<1>8. CASE \E f \in Fds : SetsockoptFails(c, f)
  BY <1>6, <1>8 DEF SetsockoptFails
<1>9. CASE ConnectFails(c)
  <2>1. pc[c] = "connect" /\ sockFd[c] \in Fds /\ ~connectInform[c] /\ fd[c] \in {0, NoFd}
    BY <1>9 DEF ConnectFails, SocketInv, ConnectingOwns, NoEntry
  <2>2. \A f \in Fds : Holds(c, f) <=> f = sockFd[c]
    BY <2>1 DEF Holds
  <2>3. \A f \in Fds : sock'[f] = IF f = sockFd[c] THEN NoSock ELSE sock[f]
    BY <1>9 DEF ConnectFails, Closing
  <2> QED BY <1>9, <2>1, <2>2, <2>3, GivesUp DEF ConnectFails, Fails
<1>10. CASE Closes(c)
  <2>1. connectInform[c] /\ pc[c] = "loop" /\ fd[c] \in Fds
    BY <1>10 DEF Closes, Connected, SocketInv, ConnectedOwns
  <2>2. \A f \in Fds : Holds(c, f) <=> f = fd[c]
    BY <2>1 DEF Holds
  <2>3. \A f \in Fds : sock'[f] = IF f = fd[c] THEN NoSock ELSE sock[f]
    BY <1>10 DEF Closes, Closing
  <2>4. /\ ~connectInform'[c] /\ pc'[c] = "forget"
        /\ \A d \in Client \ {c} : /\ connectInform'[d] = connectInform[d]
                                   /\ pc'[d] = pc[d] /\ sockFd'[d] = sockFd[d] /\ fd'[d] = fd[d]
    BY <1>10 DEF Closes
  <2> QED BY <2>1, <2>2, <2>3, <2>4, GivesUp
<1>11. CASE Forgets(c)
  <2>1. pc[c] = "forget" /\ ~connectInform[c]
    BY <1>11 DEF Forgets, CountInv
  <2>2. \A f \in Fds : ~Holds(c, f)
    BY <2>1 DEF Holds
  <2>3. NoFd \notin Fds
    BY TcpClientAssumption DEF NoFd
  <2> QED BY <1>11, <2>1, <2>2, <2>3, GivesUp DEF Forgets, Forgotten
<1> QED BY <1>1, <1>2, <1>3, <1>4, <1>5, <1>7, <1>8, <1>9, <1>10, <1>11 DEF ThreadTcpClient

-----------------------------------------------------------------------------
(* The counter.                                                             *)

LEMMA CountKept ==
  ASSUME TypeOK, CountInv, NEW c \in Client, ScanKeyboardData(c) \/ ThreadTcpClient(c)
  PROVE  CountInv'
<1> USE DEF TypeOK, CountInv, Disconnected
<1>0. /\ Reconn \in Nat /\ Reconn > 0
      /\ \A n \in Int : Less(n) \in Int /\ (n > 0 => Less(n) = n - 1)
  BY LessType, TcpClientAssumption
<1>1. CASE ScanKeyboardData(c)
  BY <1>0, <1>1 DEF ScanKeyboardData
<1>2. CASE Waits(c)
  BY <1>0, <1>2 DEF Waits
<1>3. CASE \E f \in Fds : Opens(c, f)
  BY <1>3 DEF Opens
<1>4. ASSUME Fails(c), ~connectInform[c]
      PROVE  CountInv'
  <2>1. Less(Reconn) = Reconn - 1
    BY LessType, TcpClientAssumption
  <2>2. waitTimeCnt' = [waitTimeCnt EXCEPT ![c] = Reconn - 1] /\ pc' = [pc EXCEPT ![c] = "loop"]
    BY <1>4, <2>1 DEF Fails, AfterAttempt
  <2> QED BY <1>0, <1>4, <2>2 DEF Fails
<1>5. CASE SocketFails(c) \/ ConnectFails(c) \/ \E f \in Fds : SetsockoptFails(c, f)
  BY <1>4, <1>5 DEF SocketFails, ConnectFails, SetsockoptFails
<1>6. CASE Connects(c)
  BY <1>6 DEF Connects, AfterAttempt
<1>7. CASE PollsNothing(c) \/ Receives(c)
  BY <1>7 DEF PollsNothing, Receives, Connected
<1>8. CASE Closes(c)
  BY <1>0, <1>8 DEF Closes, Connected, AfterEnd
<1>9. CASE Forgets(c)
  BY <1>0, <1>9 DEF Forgets
<1> QED BY <1>1, <1>2, <1>3, <1>5, <1>6, <1>7, <1>8, <1>9 DEF ThreadTcpClient

-----------------------------------------------------------------------------
LEMMA ClientInvInit == Init => ClientInv
<1> SUFFICES ASSUME Init
             PROVE  ClientInv
  OBVIOUS
<1> USE DEF Init
<1>1. TypeOK
  BY DEF TypeOK, PcValues, SockStates, NoSock, NoCall
<1>2. SocketInv
  BY DEF SocketInv, ConnectingOwns, ConnectedOwns, NoEntry, OwnerHolds, NoSock
<1>3. CountInv
  BY DEF CountInv, Disconnected
<1> QED BY <1>1, <1>2, <1>3 DEF ClientInv

LEMMA ClientInvNext == ClientInv /\ [Next]_vars => ClientInv'
<1> SUFFICES ASSUME ClientInv, [Next]_vars
             PROVE  ClientInv'
  OBVIOUS
<1> USE DEF ClientInv
<1>1. ASSUME NEW c \in Client, ScanKeyboardData(c) \/ ThreadTcpClient(c)
      PROVE  ClientInv'
  BY <1>1, ThreadType, ThreadSockets, CountKept
<1>2. CASE \/ \E f \in Fds : ServerSends(f) \/ ServerEnds(f)
           \/ \E s \in Senders : SendWrites(s) \/ SendKilled(s) \/ \E c \in Client : SendReads(s, c)
  <2>1. TypeOK' /\ SocketInv' /\ UNCHANGED client
    BY <1>2, OutsideType, OutsideSockets
  <2> QED BY <2>1 DEF client, CountInv, Disconnected
<1>3. CASE UNCHANGED vars
  BY <1>3 DEF vars, client, TypeOK, SocketInv, ConnectingOwns, ConnectedOwns, NoEntry,
              OwnerHolds, Holds, CountInv, Disconnected
<1> QED BY <1>1, <1>2, <1>3 DEF Next

\* ClientInv is an invariant.
THEOREM ClientInvariant == Spec => []ClientInv
BY ClientInvInit, ClientInvNext, PTL DEF Spec

-----------------------------------------------------------------------------
(* What the runs check, for every value of the constants.                   *)

\* Every variable of TcpClient keeps to its values.
THEOREM ClientTypeCorrect == Spec => []TypeOK
<1>1. ClientInv => TypeOK
  BY DEF ClientInv
<1> QED BY <1>1, ClientInvariant, PTL

\* SendTcpDataFromClient finds the client's own connection in the table, or none,
\* whatever the threads close and open, but in the moment before fd = -1.
THEOREM EntriesAreOwn == Spec => []EntryIsOwn
<1>1. ClientInv => EntryIsOwn
  <2> SUFFICES ASSUME ClientInv, NEW c \in Client, fd[c] > 0, pc[c] # "forget"
               PROVE  sock[fd[c]].owner = c /\ connectInform[c]
    BY DEF EntryIsOwn
  <2>1. connectInform[c]
    BY DEF ClientInv, SocketInv, NoEntry, NoFd
  <2> QED BY <2>1 DEF ClientInv, SocketInv, ConnectedOwns
<1> QED BY <1>1, ClientInvariant, PTL

\* A socket that ConnectionTcp has set up is one client's, from socket() to close().
THEOREM SocketsAreHeld == Spec => []SocketsHeld
<1>1. ClientInv => SocketsHeld
  <2> SUFFICES ASSUME ClientInv, NEW f \in Fds
               PROVE  /\ sock[f].owner # NoClient => \E c \in Client : Holds(c, f)
                      /\ \A c, d \in Client : Holds(c, f) /\ Holds(d, f) => c = d
    BY DEF SocketsHeld
  <2>1. sock[f].owner # NoClient => \E c \in Client : Holds(c, f)
    BY DEF ClientInv, SocketInv, OwnerHolds, TypeOK
  <2>2. \A c, d \in Client : Holds(c, f) /\ Holds(d, f) => c = d
    BY HolderOwns DEF ClientInv
  <2> QED BY <2>1, <2>2
<1> QED BY <1>1, ClientInvariant, PTL

\* The counter of a client without a connection never gets past the 0 at which
\* ThreadTcpClient tries again.
THEOREM WaitEndsAtZero == Spec => []WaitReachesZero
<1>1. ClientInv => WaitReachesZero
  BY DEF ClientInv, CountInv, WaitReachesZero
<1> QED BY <1>1, ClientInvariant, PTL

=============================================================================
