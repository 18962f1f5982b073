---------------------------- MODULE MCTcpServer ----------------------------
(***************************************************************************)
(* Values for the constants of TcpServer: who connects to which port, and  *)
(* what the application threads send.                                      *)
(***************************************************************************)
EXTENDS TcpServer, TLC

CONSTANTS ann, bob, cid   \* client addresses

Nobody   == [x \in Addr |-> 0]
Once     == [x \in Addr |-> 1]
Twice    == [x \in Addr |-> 2]
Thrice   == [x \in Addr |-> 3]
\* ann comes back, the others come once
OneTwice == [x \in Addr |-> IF x = ann THEN 2 ELSE 1]

Dials1OneTwice == (Port1 :> OneTwice) @@ (Port2 :> Nobody)
Dials1Once     == (Port1 :> Once) @@ (Port2 :> Nobody)
Dials1Twice    == (Port1 :> Twice) @@ (Port2 :> Nobody)
Dials1Thrice   == (Port1 :> Thrice) @@ (Port2 :> Nobody)
Dials2Once     == (Port1 :> Nobody) @@ (Port2 :> Once)
DialsBothOnce  == (Port1 :> Once) @@ (Port2 :> Once)

\* What clients do (a bound): anything; only ann sends data or resets; nobody does;
\* just enough for a lock to be lost on either port while the full table of port
\* 5002 loses a client.
AllActs   == Ports \X Addr \X {"send", "close", "reset"}
ActsOne   == Ports \X {ann} \X {"send", "close", "reset"}
               \cup Ports \X Addr \X {"close"}
ActsClose == Ports \X Addr \X {"close"}
ActsLeak  == {<<Port1, ann, "send">>, <<Port1, ann, "reset">>, <<Port1, bob, "close">>,
              <<Port2, ann, "close">>, <<Port2, bob, "close">>}

\* Application threads send to one port, or to every server (the default case), there
\* to the client that comes back.
CallsPort1 == {{Port1}} \X Addr
CallsAnn   == {<<Ports, ann>>}

\* Addresses are only ever compared with each other.
Symmetry == Permutations(Addr)
=============================================================================
