------------------------------ MODULE ControlIic ------------------------------
(***************************************************************************)
(* sample_contoller_iic/control_iic.c: one open IIC channel, transfers     *)
(* with retries under semIic, and an open and a close without it.          *)
(* WriteIic and ReadIic have the same steps: a transfer is either.  One of *)
(* more than 253 bytes is refused before it does anything.                 *)
(***************************************************************************)
EXTENDS Process

CONSTANT CntRetry   \* CNT_RETRY

ASSUME IicAssumption == CntRetry \in Nat \ {0}

VARIABLES
  fdIic,
  semIic    \* the value of the semaphore

iicVars == <<fdIic, semIic>>

IicInit == fdIic = 0 /\ semIic = 0

-----------------------------------------------------------------------------
\* OpenIicDriver: sem_init, whoever has the semaphore, ...
OpenIicInits(t) ==
  /\ CallsOpen(t, "iic")
  /\ semIic' = 1
  /\ UNCHANGED <<fdIic, owner>>

\* ... and open(); a descriptor that was open before is forgotten.
OpenIicOpens(t) ==
  /\ Is(t, "iic", "open")
  /\ \E f \in Fds \cup {-1} : Opens("iic", f) /\ fdIic' = f
  /\ Returns(t)
  /\ UNCHANGED semIic

\* CloseIicDriver: the descriptor is closed first ...
CloseIicCloses(t) ==
  /\ fdIic > 0
  /\ Calls(t, "iic", "forget")
  /\ Closes(fdIic)
  /\ UNCHANGED <<iicVars, opens>>

\* Mutant: the descriptor is kept.
FdAfterClose == fdIic

FdClosed == -1

\* ... and forgotten last; sem_destroy does nothing to the value.
CloseIicForgets(t) ==
  /\ Is(t, "iic", "forget")
  /\ fdIic' = FdClosed
  /\ Returns(t)
  /\ UNCHANGED <<semIic, owner>>

-----------------------------------------------------------------------------
TransferIic(t) ==
  /\ Calls(t, "iic", "wait")
  /\ UNCHANGED <<iicVars, owner, opens>>

IicTakes(t) ==
  /\ Is(t, "iic", "wait") /\ semIic > 0
  /\ semIic' = semIic - 1
  /\ UNCHANGED <<fdIic, owner>>

\* A register address of one byte or two.
IicStarts(t) == IicTakes(t) /\ Goes(t, "try")

\* Any other size: the call returns and keeps the semaphore.
IicRefuses(t) == IicTakes(t) /\ Returns(t)

\* ioctl() on what fdIic is by now.
IicSucceeds(t) ==
  /\ Is(t, "iic", "try")
  /\ Reaches("iic", fdIic)
  /\ Goes(t, "post")
  /\ UNCHANGED <<iicVars, owner>>

\* Mutant: cnt is not counted up.
TryAgain(t) == Goes(t, "try")

\* Mutant: one try more than CNT_RETRY.
OneTryMore(t) ==
  call' = [call EXCEPT ![t].cnt = @ + 1,
                       ![t].at = IF call[t].cnt + 1 <= CntRetry THEN "try" ELSE "post"]

\* cnt++, as long as it is less than CNT_RETRY.
NextTry(t) ==
  call' = [call EXCEPT ![t].cnt = @ + 1,
                       ![t].at = IF call[t].cnt + 1 < CntRetry THEN "try" ELSE "post"]

IicFails(t) ==
  /\ Is(t, "iic", "try")
  /\ NextTry(t)
  /\ UNCHANGED <<iicVars, owner>>

\* Mutant: sem_post is skipped when every try has failed.
IicPostsIfDone(t) ==
  /\ Is(t, "iic", "post")
  /\ semIic' = IF call[t].cnt = CntRetry THEN semIic ELSE semIic + 1
  /\ Returns(t)
  /\ UNCHANGED <<fdIic, owner>>

IicPosts(t) ==
  /\ Is(t, "iic", "post")
  /\ semIic' = semIic + 1
  /\ Returns(t)
  /\ UNCHANGED <<fdIic, owner>>

IicGoesOn(t) ==
  \/ OpenIicOpens(t) \/ CloseIicForgets(t)
  \/ IicStarts(t) \/ IicRefuses(t)
  \/ IicSucceeds(t) \/ IicFails(t) \/ IicPosts(t)

IicCall(t) == OpenIicInits(t) \/ CloseIicCloses(t) \/ TransferIic(t)

=============================================================================
