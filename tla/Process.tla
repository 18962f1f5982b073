-------------------------------- MODULE Process --------------------------------
(***************************************************************************)
(* What the IIC, SPI and UART samples share when an application links      *)
(* them: its threads, each in one call at a time, and its descriptors.     *)
(***************************************************************************)
EXTENDS Integers

CONSTANTS
  Threads,   \* application threads
  Fds,       \* the process's descriptors, 0 to 2 being stdin, stdout and stderr
  MaxOpens   \* bound: calls of open() by application threads

ASSUME ProcessAssumption == Fds \subseteq Nat /\ 0..2 \subseteq Fds /\ MaxOpens \in Nat

VARIABLES
  owner,     \* who has opened each descriptor
  call,      \* the driver call each thread is in, and how far it is
  opens      \* calls of open() so far

Owners == {"free", "std", "iic", "spi", "uart"}

Idle == [op |-> "none", at |-> "none", cnt |-> 0]

ProcessInit ==
  /\ owner = [f \in Fds |-> IF f <= 2 THEN "std" ELSE "free"]
  /\ call = [t \in Threads |-> Idle]
  /\ opens = 0

Is(t, op, at) == call[t].op = op /\ call[t].at = at

Calls(t, op, at) ==
  /\ call[t] = Idle
  /\ call' = [call EXCEPT ![t] = [op |-> op, at |-> at, cnt |-> 0]]

Goes(t, at) == call' = [call EXCEPT ![t].at = at]

Returns(t) == call' = [call EXCEPT ![t] = Idle]

\* A call that is going to open something.
CallsOpen(t, op) == opens < MaxOpens /\ opens' = opens + 1 /\ Calls(t, op, "open")

\* open() hands out the lowest descriptor that is free, or fails.
Opens(d, f) ==
  \/ /\ f \in Fds /\ owner[f] = "free"
     /\ \A g \in Fds : g < f => owner[g] # "free"
     /\ owner' = [owner EXCEPT ![f] = d]
  \/ f = -1 /\ UNCHANGED owner

\* close(): harmless on a descriptor that is not open.
Closes(f) == owner' = [g \in Fds |-> IF g = f THEN "free" ELSE owner[g]]

\* f is a descriptor of driver d.
Reaches(d, f) == f \in Fds /\ owner[f] = d

=============================================================================
