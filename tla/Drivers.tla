-------------------------------- MODULE Drivers --------------------------------
(***************************************************************************)
(* An application whose threads use the IIC, SPI and UART samples: each    *)
(* has its own state, and they share the descriptors of the process.       *)
(***************************************************************************)
EXTENDS ControlIic, ControlSpi, ControlUart

vars == <<owner, call, opens, iicVars, spiVars, uartVars>>

Init == ProcessInit /\ IicInit /\ SpiInit /\ UartInit

GoesOn(t) ==
  /\ UNCHANGED opens
  /\ \/ IicGoesOn(t) /\ UNCHANGED <<spiVars, uartVars>>
     \/ SpiGoesOn(t) /\ UNCHANGED <<iicVars, uartVars>>
     \/ SendUart2TurnsBack(t) /\ UNCHANGED <<iicVars, spiVars>>

IsCalled(t) ==
  \/ IicCall(t) /\ UNCHANGED <<spiVars, uartVars>>
  \/ SpiCall(t) /\ UNCHANGED <<iicVars, uartVars>>
  \/ SendUart2Turns(t) /\ UNCHANGED <<opens, iicVars, spiVars>>

Next ==
  \/ \E t \in Threads : IsCalled(t) \/ GoesOn(t)
  \/ ReceiverOpens /\ UNCHANGED <<opens, iicVars, spiVars>>

Spec == Init /\ [][Next]_vars

\* A thread in a call is scheduled.
FairSpec == Spec /\ \A t \in Threads : WF_vars(GoesOn(t))

-----------------------------------------------------------------------------
(* Properties                                                               *)

\* Every variable keeps to its values.
TypeOK ==
  /\ owner \in [Fds -> Owners] /\ opens \in 0..MaxOpens
  /\ call \in [Threads -> [op : {"none", "iic", "spi", "spiwrite", "spiread", "uart"},
                           at : {"none", "open", "forget", "wait", "try", "post",
                                 "ioctl", "send"},
                           cnt : 0..CntRetry]]
  /\ fdIic \in Fds \cup {-1} /\ semIic \in Nat
  /\ fdSpi \in Int /\ semSpi \in Nat /\ fdOpened \in Fds \cup {-1}
  /\ uartFd \in [0..1 -> Fds] /\ opened \in 0..2
  /\ line \in {"receive", "send"}

Buses == {"iic", "spi"}
Semaphore(bus) == IF bus = "iic" THEN semIic ELSE semSpi

\* The threads between their sem_wait and their sem_post.
Holders(bus) ==
  {t \in Threads : IF bus = "iic" THEN call[t].op = "iic" /\ call[t].at \in {"try", "post"}
                                  ELSE call[t].at = "ioctl"}

IsLock(bus) ==
  /\ Semaphore(bus) \in {0, 1}
  /\ \A t, u \in Holders(bus) : t = u
  /\ Holders(bus) # {} => Semaphore(bus) = 0

\* One transfer at a time on each bus, through retries, failures and closes of either
\* driver: what makes it two is opening the same driver again during a transfer
\* (sem_init, control_iic.c l.62, control_spi.c l.144).
OpensAgain(bus, t) ==
  /\ Holders(bus) # {}
  /\ bus = "iic" => OpenIicInits(t)
  /\ bus = "spi" => OpenSpiOpens(t)

OnlyOpenBreaksLock ==
  [][\A bus \in Buses : IsLock(bus) /\ ~IsLock(bus)'
       => \E t \in Threads : OpensAgain(bus, t)]_vars

Lost(bus) == Semaphore(bus) = 0 /\ Holders(bus) = {}

\* A bus becomes unusable, with its semaphore taken and nobody to give it back, in
\* three ways only: a register size that is not 1 or 2 (control_iic.c l.120, l.188), a
\* read (control_spi.c l.255), and the semaphore cleared by an open (l.136).  Retries
\* that all fail, closed descriptors and lost ones are not among them.
Loses(bus, t) ==
  /\ bus = "iic" => IicRefuses(t)
  /\ bus = "spi" => ReadSpiPosts(t) \/ OpenSpiClears(t)

OnlyTheseLoseLock ==
  [][\A bus \in Buses : ~Lost(bus) /\ Lost(bus)' => \E t \in Threads : Loses(bus, t)]_vars

\* Each driver's descriptor is one that it has opened and nobody has closed.
Own ==
  /\ fdIic > 0 => Reaches("iic", fdIic) \/ \E t \in Threads : Is(t, "iic", "forget")
  /\ fdSpi > 0 /\ fdSpi = fdOpened => Reaches("spi", fdSpi)
  /\ \A port \in 0..(opened - 1) : Reaches("uart", uartFd[port])

\* That ends in two ways only: SPI is closed when fdSpi is no longer what open()
\* returned, after a read (l.255) or an earlier close (l.189); or IIC is closed a second
\* time before the first close has forgotten the descriptor (control_iic.c l.81-86),
\* which somebody else has by then.
OnlyTheseCloseOthers ==
  [][Own /\ ~Own' => \E t \in Threads :
       \/ CloseSpiCloses(t) /\ fdSpi # fdOpened
       \/ CloseIicCloses(t) /\ \E u \in Threads : Is(u, "iic", "forget")]_vars

\* A transfer that has got its bus, and a send, come to an end: the retries are bounded,
\* and nothing is waited for with the semaphore taken.
TransfersEnd ==
  \A t \in Threads : call[t].at \in {"try", "post", "ioctl", "send"}
    ~> call[t] = Idle

=============================================================================
