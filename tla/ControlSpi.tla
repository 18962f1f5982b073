------------------------------ MODULE ControlSpi ------------------------------
(***************************************************************************)
(* sample_controller_spi/control_spi.c: one open SPI device, writes and    *)
(* reads under semSpi.  The speed is written to the device only:           *)
(* controlSpi.speed stays 0, so that OpenSpiDriver reports a failure       *)
(* unless it was asked for 0, and leaves the device open.                  *)
(***************************************************************************)
EXTENDS Process

VARIABLES
  fdSpi,      \* controlSpi.fdSpi
  semSpi,     \* the value of controlSpi.semSpi
  fdOpened    \* auxiliary: what open() returned, while fdSpi is that

spiVars == <<fdSpi, semSpi, fdOpened>>

SpiInit == fdSpi = 0 /\ semSpi = 0 /\ fdOpened = 0

-----------------------------------------------------------------------------
\* OpenSpiDriver clears all of controlSpi, the semaphore included, ...
OpenSpiClears(t) ==
  /\ CallsOpen(t, "spi")
  /\ fdSpi' = 0 /\ semSpi' = 0 /\ fdOpened' = 0
  /\ UNCHANGED owner

\* ... opens the device and only then makes the semaphore.
OpenSpiOpens(t) ==
  /\ Is(t, "spi", "open")
  /\ \E f \in Fds \cup {-1} :
       /\ Opens("spi", f)
       /\ fdSpi' = f /\ fdOpened' = f
       /\ semSpi' = IF f < 0 THEN semSpi ELSE 1
  /\ Returns(t)

CloseSpiCloses(t) ==
  /\ fdSpi > 0
  /\ Calls(t, "spi", "forget")
  /\ Closes(fdSpi)
  /\ fdOpened' = -1
  /\ UNCHANGED <<fdSpi, semSpi, opens>>

\* fdSpi becomes 1, which is stdout, and every check takes it for open.
CloseSpiForgets(t) ==
  /\ Is(t, "spi", "forget")
  /\ fdSpi' = 1 /\ fdOpened' = -1
  /\ Returns(t)
  /\ UNCHANGED <<semSpi, owner>>

-----------------------------------------------------------------------------
SpiOps == {"spiwrite", "spiread"}

\* WriteSpi of something, or ReadSpi.
TransferSpi(t, op) ==
  /\ fdSpi >= 0
  /\ Calls(t, op, "wait")
  /\ UNCHANGED <<spiVars, owner, opens>>

\* Mutant: the semaphore is looked at, not taken.
SemTakenNot == semSpi

SemTaken == semSpi - 1

SpiTakes(t) ==
  /\ call[t].op \in SpiOps /\ call[t].at = "wait" /\ semSpi > 0
  /\ semSpi' = SemTaken
  /\ Goes(t, "ioctl")
  /\ UNCHANGED <<fdSpi, fdOpened, owner>>

\* WriteSpi is done, whatever ioctl() returned.
WriteSpiPosts(t) ==
  /\ Is(t, "spiwrite", "ioctl")
  /\ semSpi' = semSpi + 1
  /\ Returns(t)
  /\ UNCHANGED <<fdSpi, fdOpened, owner>>

\* ReadSpi is done and posts the address of fdSpi (l.255): the descriptor is counted
\* up, by one or, where the C library keeps a bit for waiters, by two.
ReadSpiPosts(t) ==
  /\ Is(t, "spiread", "ioctl")
  /\ \E d \in {1, 2} : fdSpi' = fdSpi + d
  /\ fdOpened' = -1
  /\ Returns(t)
  /\ UNCHANGED <<semSpi, owner>>

SpiGoesOn(t) ==
  \/ OpenSpiOpens(t) \/ CloseSpiForgets(t)
  \/ SpiTakes(t) \/ WriteSpiPosts(t) \/ ReadSpiPosts(t)

SpiCall(t) ==
  OpenSpiClears(t) \/ CloseSpiCloses(t) \/ \E op \in SpiOps : TransferSpi(t, op)

=============================================================================
