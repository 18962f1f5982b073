------------------------------ MODULE ClientTable ------------------------------
(***************************************************************************)
(* What the client tables of sample_tcp_server/TcpServer.c promise: each   *)
(* port has a list of clients in the order in which they came, with at     *)
(* most one entry for an address.  A client joins at the end, comes back   *)
(* in the entry it had, is marked, or leaves, and nobody else's entry      *)
(* changes but for its place.  TcpServer implements this list with two     *)
(* arrays, a count, and entries that removals leave behind.                *)
(***************************************************************************)
EXTENDS Integers

CONSTANTS
  Ports,
  Addr,      \* the IP addresses of clients
  Fds,       \* descriptors of connections
  Marked,    \* the address of a client that is to be dropped
  Capacity   \* clients of a port

VARIABLES
  size,      \* clients of each port
  client     \* client[p][k], for k in 1..size[p]

list == <<size, client>>

Client == [fd : Fds \cup {0, -1}, addr : Addr \cup {Marked}]

Entries(p) == 1..size[p]

Init ==
  /\ size = [p \in Ports |-> 0]
  /\ client = [p \in Ports |-> [k \in 1..0 |-> [fd |-> 0, addr |-> Marked]]]

\* A client that is not in the list takes a new entry at its end.
Join(p, c) ==
  /\ size[p] < Capacity
  /\ size' = [size EXCEPT ![p] = @ + 1]
  /\ \A k \in Entries(p) : client[p][k].addr # c.addr
  /\ client' = [client EXCEPT ![p] =
                  [k \in 1..(size[p] + 1) |-> IF k <= size[p] THEN client[p][k] ELSE c]]

\* A client in the list has a new connection: its entry, or the one a sender
\* has marked in the meantime, gets it.
Renew(p, k, c) ==
  /\ UNCHANGED size
  /\ client[p][k].addr \in {c.addr, Marked}
  /\ \A j \in Entries(p) \ {k} : client[p][j].addr # c.addr
  /\ client' = [client EXCEPT ![p] = [j \in Entries(p) |-> IF j = k THEN c ELSE client[p][j]]]

Mark(p, k) ==
  /\ UNCHANGED size
  /\ client' = [client EXCEPT ![p] =
       [j \in Entries(p) |-> IF j = k THEN [fd |-> client[p][k].fd, addr |-> Marked]
                                      ELSE client[p][j]]]

\* Those that joined after the one that leaves move down by one.
Leave(p, k) ==
  /\ size' = [size EXCEPT ![p] = @ - 1]
  /\ client' = [client EXCEPT ![p] =
       [j \in 1..(size[p] - 1) |-> IF j < k THEN client[p][j] ELSE client[p][j + 1]]]

Next ==
  \E p \in Ports :
    \/ \E k \in Entries(p) : Mark(p, k) \/ Leave(p, k)
    \/ \E f \in Fds, a \in Addr :
         \/ Join(p, [fd |-> f, addr |-> a])
         \/ \E k \in Entries(p) : Renew(p, k, [fd |-> f, addr |-> a])

Spec == Init /\ [][Next]_list

=============================================================================
