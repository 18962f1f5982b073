---------------------------- MODULE DriversProofs ----------------------------
(***************************************************************************)
(* What Drivers promises for any number of threads, descriptors, retries   *)
(* and opens.  The locks of the two buses, and the descriptors, are no     *)
(* invariants: what is proved is which steps, and no others, break them.   *)
(***************************************************************************)
EXTENDS Drivers, TLAPS

\* A transfer starts counting at 0 and tries again only while tries are left.
RetryInv ==
  \A t \in Threads :
    /\ call[t].at = "wait" => call[t].cnt = 0
    /\ call[t].at = "try" => call[t].cnt < CntRetry

DriversInv == TypeOK /\ RetryInv

Ops == {"none", "iic", "spi", "spiwrite", "spiread", "uart"}
Ats == {"none", "open", "forget", "wait", "try", "post", "ioctl", "send"}

-----------------------------------------------------------------------------
(* What the helpers of Process do to the calls and the descriptors.         *)

LEMMA Constants ==
  /\ CntRetry \in Nat /\ CntRetry > 0 /\ Fds \subseteq Nat /\ {0, 1, 2} \subseteq Fds
  /\ -1 \notin Fds
BY ProcessAssumption, IicAssumption

LEMMA CallsMade ==
  ASSUME TypeOK, NEW t \in Threads, NEW op \in Ops, NEW at \in Ats, Calls(t, op, at)
  PROVE  /\ call' \in [Threads -> [op : Ops, at : Ats, cnt : 0..CntRetry]]
         /\ call[t] = Idle
         /\ call'[t] = [op |-> op, at |-> at, cnt |-> 0]
         /\ \A u \in Threads \ {t} : call'[u] = call[u]
BY Constants DEF TypeOK, Calls, Ops, Ats

LEMMA CallGoes ==
  ASSUME TypeOK, NEW t \in Threads, NEW at \in Ats, Goes(t, at)
  PROVE  /\ call' \in [Threads -> [op : Ops, at : Ats, cnt : 0..CntRetry]]
         /\ call'[t].op = call[t].op /\ call'[t].at = at /\ call'[t].cnt = call[t].cnt
         /\ \A u \in Threads \ {t} : call'[u] = call[u]
BY DEF TypeOK, Goes, Ops, Ats

LEMMA CallReturns ==
  ASSUME TypeOK, NEW t \in Threads, Returns(t)
  PROVE  /\ call' \in [Threads -> [op : Ops, at : Ats, cnt : 0..CntRetry]]
         /\ call'[t] = Idle
         /\ \A u \in Threads \ {t} : call'[u] = call[u]
BY Constants DEF TypeOK, Returns, Idle, Ops, Ats

LEMMA CallTriesAgain ==
  ASSUME TypeOK, RetryInv, NEW t \in Threads, call[t].at = "try", NextTry(t)
  PROVE  /\ call' \in [Threads -> [op : Ops, at : Ats, cnt : 0..CntRetry]]
         /\ call'[t].op = call[t].op
         /\ \/ call'[t].at = "try" /\ call'[t].cnt < CntRetry
            \/ call'[t].at = "post"
         /\ \A u \in Threads \ {t} : call'[u] = call[u]
<1>1. call[t].cnt \in 0..CntRetry /\ call[t].cnt < CntRetry
  BY DEF TypeOK, RetryInv
<1>2. call[t].cnt + 1 \in 0..CntRetry
  BY <1>1, Constants
<1> QED BY <1>2 DEF TypeOK, NextTry, Ops, Ats

\* open() takes a descriptor that is nobody's.
LEMMA OpensOne ==
  ASSUME TypeOK, NEW d \in {"iic", "spi", "uart"}, NEW f \in Fds \cup {-1}, Opens(d, f)
  PROVE  /\ owner' \in [Fds -> Owners]
         /\ f \in Fds => owner[f] = "free" /\ owner'[f] = d
         /\ \A g \in Fds \ {f} : owner'[g] = owner[g]
BY Constants DEF TypeOK, Opens, Owners

LEMMA ClosesOne ==
  ASSUME TypeOK, NEW f, Closes(f)
  PROVE  /\ owner' \in [Fds -> Owners]
         /\ f \in Fds => owner'[f] = "free"
         /\ \A g \in Fds \ {f} : owner'[g] = owner[g]
BY DEF TypeOK, Closes, Owners

-----------------------------------------------------------------------------
(* Types and retries, driver by driver.                                     *)

\* What is left to show of a step once it is clear which call it changes.
LEMMA OneCall ==
  ASSUME RetryInv, NEW t \in Threads,
         \A u \in Threads \ {t} : call'[u] = call[u],
         call'[t].at = "wait" => call'[t].cnt = 0,
         call'[t].at = "try" => call'[t].cnt < CntRetry
  PROVE  RetryInv'
BY DEF RetryInv

\* A call that begins or returns leaves it that way.
LEMMA CallsRetry ==
  ASSUME TypeOK, RetryInv, NEW t \in Threads, NEW op \in Ops, NEW at \in Ats \ {"try"},
         Calls(t, op, at)
  PROVE  /\ call' \in [Threads -> [op : Ops, at : Ats, cnt : 0..CntRetry]]
         /\ RetryInv'
<1>1. /\ call' \in [Threads -> [op : Ops, at : Ats, cnt : 0..CntRetry]]
      /\ call'[t] = [op |-> op, at |-> at, cnt |-> 0]
      /\ \A u \in Threads \ {t} : call'[u] = call[u]
  BY CallsMade
<1>2. call'[t].cnt = 0 /\ call'[t].at # "try"
  BY <1>1
<1> QED BY <1>1, <1>2, OneCall

LEMMA ReturnsRetry ==
  ASSUME TypeOK, RetryInv, NEW t \in Threads, Returns(t)
  PROVE  /\ call' \in [Threads -> [op : Ops, at : Ats, cnt : 0..CntRetry]]
         /\ RetryInv'
BY CallReturns, OneCall DEF Idle

\* TypeOK, by variables.
LEMMA OtherDrivers ==
  ASSUME TypeOK,
         call' \in [Threads -> [op : Ops, at : Ats, cnt : 0..CntRetry]],
         owner' \in [Fds -> Owners], opens' \in 0..MaxOpens,
         fdIic' \in Fds \cup {-1} /\ semIic' \in Nat,
         fdSpi' \in Int /\ semSpi' \in Nat /\ fdOpened' \in Fds \cup {-1},
         uartFd' \in [0..1 -> Fds] /\ opened' \in 0..2 /\ line' \in {"receive", "send"}
  PROVE  TypeOK'
BY DEF TypeOK, Ops, Ats

LEMMA IicTypes ==
  ASSUME TypeOK, RetryInv, NEW t \in Threads,
         \/ IicCall(t)
         \/ IicGoesOn(t) /\ UNCHANGED opens
  PROVE  /\ call' \in [Threads -> [op : Ops, at : Ats, cnt : 0..CntRetry]]
         /\ owner' \in [Fds -> Owners] /\ opens' \in 0..MaxOpens
         /\ fdIic' \in Fds \cup {-1} /\ semIic' \in Nat
         /\ RetryInv'
<1> USE DEF iicVars
<1>t. /\ owner \in [Fds -> Owners] /\ opens \in 0..MaxOpens
      /\ fdIic \in Fds \cup {-1} /\ semIic \in Nat
      /\ "iic" \in Ops /\ {"open", "forget", "wait", "try", "post"} \subseteq Ats
  BY DEF TypeOK, Ops, Ats
<1> USE <1>t
<1>1. CASE OpenIicInits(t)
  <2>1. Calls(t, "iic", "open") /\ opens' \in 0..MaxOpens /\ semIic' = 1 /\ UNCHANGED <<fdIic, owner>>
    BY <1>1, ProcessAssumption DEF OpenIicInits, CallsOpen
  <2> QED BY <2>1, CallsRetry
<1>2. CASE OpenIicOpens(t) /\ UNCHANGED opens
  <2>1. PICK f \in Fds \cup {-1} : Opens("iic", f) /\ fdIic' = f
    BY <1>2 DEF OpenIicOpens
  <2>2. Returns(t) /\ UNCHANGED <<semIic, opens>>
    BY <1>2 DEF OpenIicOpens
  <2>3. owner' \in [Fds -> Owners]
    BY <2>1, OpensOne
  <2> QED BY <2>1, <2>2, <2>3, ReturnsRetry
<1>3. CASE CloseIicCloses(t)
  <2>1. Calls(t, "iic", "forget") /\ Closes(fdIic) /\ UNCHANGED <<fdIic, semIic, opens>>
    BY <1>3 DEF CloseIicCloses
  <2> QED BY <2>1, CallsRetry, ClosesOne
<1>4. CASE CloseIicForgets(t) /\ UNCHANGED opens
  <2>1. Returns(t) /\ fdIic' = -1 /\ UNCHANGED <<semIic, owner, opens>>
    BY <1>4 DEF CloseIicForgets, FdClosed
  <2> QED BY <2>1, ReturnsRetry
<1>5. CASE TransferIic(t)
  <2>1. Calls(t, "iic", "wait") /\ UNCHANGED <<fdIic, semIic, owner, opens>>
    BY <1>5 DEF TransferIic
  <2> QED BY <2>1, CallsRetry
<1>6. ASSUME IicTakes(t)
      PROVE  semIic' \in Nat /\ UNCHANGED <<fdIic, owner>>
  BY <1>6 DEF IicTakes
<1>7. CASE IicStarts(t) /\ UNCHANGED opens
  <2>1. Goes(t, "try") /\ call[t].cnt = 0
    BY <1>7 DEF IicStarts, IicTakes, Is, RetryInv
  <2>2. RetryInv'
    BY <2>1, CallGoes, OneCall, Constants
  <2> QED BY <1>6, <1>7, <2>1, <2>2, CallGoes DEF IicStarts
<1>8. CASE IicRefuses(t) /\ UNCHANGED opens
  BY <1>6, <1>8, ReturnsRetry DEF IicRefuses
<1>9. CASE IicSucceeds(t) /\ UNCHANGED opens
  <2>1. Goes(t, "post") /\ UNCHANGED <<fdIic, semIic, owner, opens>>
    BY <1>9 DEF IicSucceeds
  <2> QED BY <2>1, CallGoes, OneCall
<1>10. CASE IicFails(t) /\ UNCHANGED opens
  <2>1. NextTry(t) /\ call[t].at = "try" /\ UNCHANGED <<fdIic, semIic, owner, opens>>
    BY <1>10 DEF IicFails, Is
  <2> QED BY <2>1, CallTriesAgain, OneCall
<1>11. CASE IicPosts(t) /\ UNCHANGED opens
  <2>1. Returns(t) /\ semIic' = semIic + 1 /\ UNCHANGED <<fdIic, owner, opens>>
    BY <1>11 DEF IicPosts
  <2> QED BY <2>1, ReturnsRetry
<1> QED BY <1>1, <1>2, <1>3, <1>4, <1>5, <1>7, <1>8, <1>9, <1>10, <1>11 DEF IicCall, IicGoesOn

LEMMA SpiTypes ==
  ASSUME TypeOK, RetryInv, NEW t \in Threads,
         \/ SpiCall(t)
         \/ SpiGoesOn(t) /\ UNCHANGED opens
  PROVE  /\ call' \in [Threads -> [op : Ops, at : Ats, cnt : 0..CntRetry]]
         /\ owner' \in [Fds -> Owners] /\ opens' \in 0..MaxOpens
         /\ fdSpi' \in Int /\ semSpi' \in Nat /\ fdOpened' \in Fds \cup {-1}
         /\ RetryInv'
<1> USE DEF spiVars
<1>t. /\ owner \in [Fds -> Owners] /\ opens \in 0..MaxOpens
      /\ fdSpi \in Int /\ semSpi \in Nat /\ fdOpened \in Fds \cup {-1}
      /\ "spi" \in Ops /\ {"open", "forget", "wait", "ioctl"} \subseteq Ats
      /\ SpiOps \subseteq Ops
  BY DEF TypeOK, Ops, Ats, SpiOps
<1> USE <1>t
<1>1. CASE OpenSpiClears(t)
  <2>1. /\ Calls(t, "spi", "open") /\ opens' \in 0..MaxOpens /\ UNCHANGED owner
        /\ fdSpi' = 0 /\ semSpi' = 0 /\ fdOpened' = 0
    BY <1>1, ProcessAssumption DEF OpenSpiClears, CallsOpen
  <2> QED BY <2>1, CallsRetry, Constants
<1>2. CASE OpenSpiOpens(t) /\ UNCHANGED opens
  <2>1. PICK f \in Fds \cup {-1} : /\ Opens("spi", f)
                                   /\ fdSpi' = f /\ fdOpened' = f
                                   /\ semSpi' = IF f < 0 THEN semSpi ELSE 1
    BY <1>2 DEF OpenSpiOpens
  <2>2. Returns(t) /\ UNCHANGED opens
    BY <1>2 DEF OpenSpiOpens
  <2>3. owner' \in [Fds -> Owners]
    BY <2>1, OpensOne
  <2>4. f \in Int
    BY Constants
  <2> QED BY <2>1, <2>2, <2>3, <2>4, ReturnsRetry
<1>3. CASE CloseSpiCloses(t)
  <2>1. Calls(t, "spi", "forget") /\ Closes(fdSpi) /\ fdOpened' = -1 /\ UNCHANGED <<fdSpi, semSpi, opens>>
    BY <1>3 DEF CloseSpiCloses
  <2> QED BY <2>1, CallsRetry, ClosesOne
<1>4. CASE CloseSpiForgets(t) /\ UNCHANGED opens
  <2>1. Returns(t) /\ fdSpi' = 1 /\ fdOpened' = -1 /\ UNCHANGED <<semSpi, owner, opens>>
    BY <1>4 DEF CloseSpiForgets
  <2> QED BY <2>1, ReturnsRetry
<1>5. ASSUME NEW op \in SpiOps, TransferSpi(t, op)
      PROVE  /\ call' \in [Threads -> [op : Ops, at : Ats, cnt : 0..CntRetry]]
             /\ RetryInv' /\ UNCHANGED <<owner, opens, fdSpi, semSpi, fdOpened>>
  <2>1. Calls(t, op, "wait") /\ UNCHANGED <<owner, opens, fdSpi, semSpi, fdOpened>>
    BY <1>5 DEF TransferSpi
  <2> QED BY <2>1, CallsRetry
<1>6. CASE SpiTakes(t) /\ UNCHANGED opens
  <2>1. Goes(t, "ioctl") /\ semSpi' \in Nat /\ UNCHANGED <<fdSpi, fdOpened, owner, opens>>
    BY <1>6 DEF SpiTakes, SemTaken
  <2> QED BY <2>1, CallGoes, OneCall
<1>7. CASE WriteSpiPosts(t) /\ UNCHANGED opens
  <2>1. Returns(t) /\ semSpi' = semSpi + 1 /\ UNCHANGED <<fdSpi, fdOpened, owner, opens>>
    BY <1>7 DEF WriteSpiPosts
  <2> QED BY <2>1, ReturnsRetry
<1>8. CASE ReadSpiPosts(t) /\ UNCHANGED opens
  <2>1. Returns(t) /\ fdSpi' \in Int /\ fdOpened' = -1 /\ UNCHANGED <<semSpi, owner, opens>>
    BY <1>8 DEF ReadSpiPosts
  <2> QED BY <2>1, ReturnsRetry
<1> QED BY <1>1, <1>2, <1>3, <1>4, <1>5, <1>6, <1>7, <1>8 DEF SpiCall, SpiGoesOn

LEMMA UartTypes ==
  ASSUME TypeOK, RetryInv, NEW t \in Threads, SendUart2Turns(t) \/ SendUart2TurnsBack(t)
  PROVE  /\ call' \in [Threads -> [op : Ops, at : Ats, cnt : 0..CntRetry]]
         /\ line' \in {"receive", "send"}
         /\ UNCHANGED <<uartFd, opened, owner>>
         /\ RetryInv'
<1>t. line \in {"receive", "send"} /\ "uart" \in Ops /\ "send" \in Ats
  BY DEF TypeOK, Ops, Ats
<1>1. line' \in {"receive", "send"} /\ UNCHANGED <<uartFd, opened, owner>>
  BY <1>t DEF SendUart2Turns, SendUart2TurnsBack, ControlRs485
<1>2. CASE SendUart2Turns(t)
  BY <1>t, <1>1, <1>2, CallsRetry DEF SendUart2Turns
<1>3. CASE SendUart2TurnsBack(t)
  BY <1>1, <1>3, ReturnsRetry DEF SendUart2TurnsBack
<1> QED BY <1>2, <1>3

\* The receiver opens a port: no descriptor of -1 is kept.
LEMMA ReceiverTypes ==
  ASSUME TypeOK, ReceiverOpens
  PROVE  \E f \in Fds :
           /\ Opens("uart", f) /\ owner[f] = "free" /\ owner'[f] = "uart"
           /\ \A g \in Fds \ {f} : owner'[g] = owner[g]
           /\ owner' \in [Fds -> Owners]
           /\ opened \in 0..1 /\ opened' = opened + 1
           /\ uartFd' = [uartFd EXCEPT ![opened] = f]
           /\ uartFd' \in [0..1 -> Fds]
           /\ line' \in {"receive", "send"} /\ UNCHANGED call
<1>1. PICK f \in Fds : Opens("uart", f) /\ uartFd' = [uartFd EXCEPT ![opened] = f]
  BY DEF ReceiverOpens
<1>2. owner[f] = "free" /\ owner'[f] = "uart" /\ owner' \in [Fds -> Owners]
      /\ \A g \in Fds \ {f} : owner'[g] = owner[g]
  BY <1>1, OpensOne
<1>3. opened \in 0..1 /\ opened' = opened + 1 /\ line' \in {"receive", "send"} /\ UNCHANGED call
  BY DEF ReceiverOpens, TypeOK
<1>4. uartFd' \in [0..1 -> Fds]
  BY <1>1, <1>3 DEF TypeOK
<1> QED BY <1>1, <1>2, <1>3, <1>4

LEMMA TypesNext ==
  ASSUME TypeOK, RetryInv, Next
  PROVE  TypeOK' /\ RetryInv'
<1> USE DEF iicVars, spiVars, uartVars
<1>t. /\ owner \in [Fds -> Owners] /\ opens \in 0..MaxOpens
      /\ fdIic \in Fds \cup {-1} /\ semIic \in Nat
      /\ fdSpi \in Int /\ semSpi \in Nat /\ fdOpened \in Fds \cup {-1}
      /\ uartFd \in [0..1 -> Fds] /\ opened \in 0..2 /\ line \in {"receive", "send"}
      /\ call \in [Threads -> [op : Ops, at : Ats, cnt : 0..CntRetry]]
  BY DEF TypeOK, Ops, Ats
<1>1. ASSUME NEW t \in Threads, IicCall(t) \/ (IicGoesOn(t) /\ UNCHANGED opens),
             UNCHANGED <<spiVars, uartVars>>
      PROVE  TypeOK' /\ RetryInv'
  BY <1>1, <1>t, IicTypes, OtherDrivers
<1>2. ASSUME NEW t \in Threads, SpiCall(t) \/ (SpiGoesOn(t) /\ UNCHANGED opens),
             UNCHANGED <<iicVars, uartVars>>
      PROVE  TypeOK' /\ RetryInv'
  BY <1>2, <1>t, SpiTypes, OtherDrivers
<1>3. ASSUME NEW t \in Threads, SendUart2Turns(t) \/ SendUart2TurnsBack(t),
             UNCHANGED <<opens, iicVars, spiVars>>
      PROVE  TypeOK' /\ RetryInv'
  BY <1>3, <1>t, UartTypes, OtherDrivers
<1>4. CASE ReceiverOpens /\ UNCHANGED <<opens, iicVars, spiVars>>
  <2>1. TypeOK'
    BY <1>4, <1>t, ReceiverTypes, OtherDrivers
  <2>2. RetryInv'
    BY <1>4, ReceiverTypes DEF RetryInv
  <2> QED BY <2>1, <2>2
<1> QED BY <1>1, <1>2, <1>3, <1>4 DEF Next, IsCalled, GoesOn

-----------------------------------------------------------------------------
LEMMA DriversInvInit == Init => DriversInv
<1> SUFFICES ASSUME Init
             PROVE  DriversInv
  OBVIOUS
<1> USE Constants DEF Init, ProcessInit, IicInit, SpiInit, UartInit
<1>1. TypeOK
  BY ProcessAssumption DEF TypeOK, Idle, Owners
<1>2. RetryInv
  BY DEF RetryInv, Idle
<1> QED BY <1>1, <1>2 DEF DriversInv

LEMMA DriversInvNext == DriversInv /\ [Next]_vars => DriversInv'
<1>1. DriversInv /\ Next => DriversInv'
  BY TypesNext DEF DriversInv
<1>2. DriversInv /\ UNCHANGED vars => DriversInv'
  BY DEF DriversInv, TypeOK, RetryInv, vars, iicVars, spiVars, uartVars
<1> QED BY <1>1, <1>2

\* DriversInv is an invariant.
THEOREM DriversInvariant == Spec => []DriversInv
BY DriversInvInit, DriversInvNext, PTL DEF Spec

\* Every variable of the drivers keeps to its values; no transfer is tried more often
\* than CNT_RETRY says.
THEOREM DriversTypeCorrect == Spec => []TypeOK
<1>1. DriversInv => TypeOK
  BY DEF DriversInv
<1> QED BY <1>1, DriversInvariant, PTL

-----------------------------------------------------------------------------
(* The locks of the buses.                                                  *)

LEMMA HoldersOf ==
  ASSUME NEW t \in Threads
  PROVE  /\ t \in Holders("iic") <=> call[t].op = "iic" /\ call[t].at \in {"try", "post"}
         /\ t \in Holders("spi") <=> call[t].at = "ioctl"
         /\ (t \in Holders("iic") <=> call[t].op = "iic" /\ call[t].at \in {"try", "post"})'
         /\ (t \in Holders("spi") <=> call[t].at = "ioctl")'
BY DEF Holders

\* What a step of thread t can do to the semaphore of a bus and to t's hold on it:
\* nothing, take it, or give it back.
Keeps(t, bus) ==
  /\ Semaphore(bus)' = Semaphore(bus)
  /\ t \in Holders(bus)' <=> t \in Holders(bus)

Takes(t, bus) ==
  /\ Semaphore(bus) > 0 /\ Semaphore(bus)' = Semaphore(bus) - 1
  /\ t \in Holders(bus)'

GivesBack(t, bus) ==
  /\ t \in Holders(bus) /\ t \notin Holders(bus)'
  /\ Semaphore(bus)' = Semaphore(bus) + 1

\* None of the three breaks a lock, or loses it.
LEMMA LockStep ==
  ASSUME TypeOK, NEW t \in Threads, NEW bus \in Buses,
         \A u \in Threads \ {t} : call'[u] = call[u],
         Keeps(t, bus) \/ Takes(t, bus) \/ GivesBack(t, bus)
  PROVE  (IsLock(bus) => IsLock(bus)') /\ (Lost(bus)' => Lost(bus))
<1>1. Semaphore(bus) \in Nat
  BY DEF TypeOK, Semaphore
<1>2. \A u \in Threads \ {t} : u \in Holders(bus)' <=> u \in Holders(bus)
  BY DEF Holders
<1>3. Holders(bus) \subseteq Threads /\ Holders(bus)' \subseteq Threads
  BY DEF Holders
<1>4. CASE Keeps(t, bus)
  <2>1. Holders(bus)' = Holders(bus)
    BY <1>2, <1>3, <1>4 DEF Keeps
  <2> QED BY <1>4, <2>1 DEF Keeps, IsLock, Lost
<1>5. CASE Takes(t, bus)
  BY <1>1, <1>2, <1>3, <1>5 DEF Takes, IsLock, Lost
<1>6. CASE GivesBack(t, bus)
  BY <1>1, <1>2, <1>3, <1>6 DEF GivesBack, IsLock, Lost
<1> QED BY <1>4, <1>5, <1>6

\* The helpers again, as far as the holders are concerned.
LEMMA CallsHold ==
  ASSUME TypeOK, NEW t \in Threads, NEW op \in Ops, NEW at \in {"open", "forget", "wait", "send"},
         Calls(t, op, at)
  PROVE  /\ \A bus \in Buses : t \notin Holders(bus) /\ t \notin Holders(bus)'
         /\ \A u \in Threads \ {t} : call'[u] = call[u]
<1>1. /\ call[t] = Idle /\ call'[t] = [op |-> op, at |-> at, cnt |-> 0]
      /\ \A u \in Threads \ {t} : call'[u] = call[u]
  BY CallsMade DEF Ats
<1>2. call[t].at = "none" /\ call'[t].at = at
  BY <1>1 DEF Idle
<1> QED BY <1>1, <1>2, HoldersOf DEF Buses

LEMMA GoesHold ==
  ASSUME TypeOK, NEW t \in Threads, NEW at \in Ats, Goes(t, at)
  PROVE  /\ t \in Holders("iic")' <=> call[t].op = "iic" /\ at \in {"try", "post"}
         /\ t \in Holders("spi")' <=> at = "ioctl"
         /\ \A u \in Threads \ {t} : call'[u] = call[u]
BY CallGoes, HoldersOf

LEMMA ReturnsHold ==
  ASSUME TypeOK, NEW t \in Threads, Returns(t)
  PROVE  /\ \A bus \in Buses : t \notin Holders(bus)'
         /\ \A u \in Threads \ {t} : call'[u] = call[u]
BY CallReturns, HoldersOf DEF Idle, Buses

\* The steps of IIC: all but a refusal and sem_init take, keep or give back.
LEMMA IicSteps ==
  ASSUME TypeOK, NEW t \in Threads, IicCall(t) \/ IicGoesOn(t), UNCHANGED spiVars
  PROVE  /\ \A u \in Threads \ {t} : call'[u] = call[u]
         /\ Keeps(t, "spi")
         /\ \/ Keeps(t, "iic") \/ Takes(t, "iic") \/ GivesBack(t, "iic")
            \/ OpenIicInits(t) /\ t \notin Holders("iic")' /\ semIic' = 1
            \/ IicRefuses(t) /\ t \notin Holders("iic")' /\ semIic > 0 /\ semIic' = semIic - 1
<1> USE DEF iicVars, spiVars, Semaphore, Keeps
<1>t. /\ "iic" \in Ops /\ {"open", "forget", "wait", "try", "post"} \subseteq Ats
      /\ "iic" \in Buses /\ "spi" \in Buses
  BY DEF Ops, Ats, Buses
<1>1. CASE OpenIicInits(t)
  BY <1>1, <1>t, CallsHold DEF OpenIicInits, CallsOpen
<1>2. CASE CloseIicCloses(t) \/ TransferIic(t)
  BY <1>2, <1>t, CallsHold DEF CloseIicCloses, TransferIic
<1>3. CASE OpenIicOpens(t) \/ CloseIicForgets(t)
  <2>1. Returns(t) /\ semIic' = semIic
    BY <1>3 DEF OpenIicOpens, CloseIicForgets
  <2>2. t \notin Holders("iic") /\ t \notin Holders("spi")
    BY <1>3, HoldersOf DEF OpenIicOpens, CloseIicForgets, Is
  <2> QED BY <1>t, <2>1, <2>2, ReturnsHold
<1>4. CASE IicStarts(t)
  <2>1. Goes(t, "try") /\ semIic > 0 /\ semIic' = semIic - 1 /\ Is(t, "iic", "wait")
    BY <1>4 DEF IicStarts, IicTakes
  <2>2. t \in Holders("iic")' /\ t \notin Holders("spi")' /\ t \notin Holders("spi")
        /\ \A u \in Threads \ {t} : call'[u] = call[u]
    BY <1>t, <2>1, GoesHold, HoldersOf DEF Is
  <2> QED BY <2>1, <2>2 DEF Takes
<1>5. CASE IicRefuses(t)
  <2>1. Returns(t) /\ semIic > 0 /\ semIic' = semIic - 1 /\ Is(t, "iic", "wait")
    BY <1>5 DEF IicRefuses, IicTakes
  <2>2. t \notin Holders("spi")
    BY <2>1, HoldersOf DEF Is
  <2> QED BY <1>5, <1>t, <2>1, <2>2, ReturnsHold
<1>6. CASE IicSucceeds(t)
  <2>1. Goes(t, "post") /\ semIic' = semIic /\ Is(t, "iic", "try")
    BY <1>6 DEF IicSucceeds
  <2> QED BY <1>t, <2>1, GoesHold, HoldersOf DEF Is
<1>7. CASE IicFails(t)
  <2>1. NextTry(t) /\ semIic' = semIic /\ Is(t, "iic", "try")
    BY <1>7 DEF IicFails
  <2>2. call'[t].op = "iic" /\ call'[t].at \in {"try", "post"}
        /\ \A u \in Threads \ {t} : call'[u] = call[u]
    BY <2>1 DEF NextTry, TypeOK, Is
  <2> QED BY <2>1, <2>2, HoldersOf DEF Is
<1>8. CASE IicPosts(t)
  <2>1. Returns(t) /\ semIic' = semIic + 1 /\ Is(t, "iic", "post")
    BY <1>8 DEF IicPosts
  <2>2. t \in Holders("iic") /\ t \notin Holders("spi")
    BY <2>1, HoldersOf DEF Is
  <2> QED BY <1>t, <2>1, <2>2, ReturnsHold DEF GivesBack
<1> QED BY <1>1, <1>2, <1>3, <1>4, <1>5, <1>6, <1>7, <1>8 DEF IicCall, IicGoesOn

\* The steps of SPI: all but an open and the end of a read do.
LEMMA SpiSteps ==
  ASSUME TypeOK, NEW t \in Threads, SpiCall(t) \/ SpiGoesOn(t), UNCHANGED iicVars
  PROVE  /\ \A u \in Threads \ {t} : call'[u] = call[u]
         /\ Keeps(t, "iic")
         /\ \/ Keeps(t, "spi") \/ Takes(t, "spi") \/ GivesBack(t, "spi")
            \/ OpenSpiOpens(t) /\ t \notin Holders("spi")' /\ semSpi' = 1
            \/ OpenSpiClears(t) /\ t \notin Holders("spi")' /\ semSpi' = 0
            \/ ReadSpiPosts(t) /\ t \notin Holders("spi")' /\ semSpi' = semSpi
<1> USE DEF iicVars, spiVars, Semaphore, Keeps
<1>t. /\ {"spi", "spiwrite", "spiread"} \subseteq Ops /\ {"ioctl"} \subseteq Ats
      /\ "iic" \in Buses /\ "spi" \in Buses
  BY DEF Ops, Ats, Buses
<1>1. CASE OpenSpiClears(t)
  <2>1. Calls(t, "spi", "open") /\ semSpi' = 0
    BY <1>1 DEF OpenSpiClears, CallsOpen
  <2> QED BY <1>1, <1>t, <2>1, CallsHold
<1>2. CASE CloseSpiCloses(t) \/ \E op \in SpiOps : TransferSpi(t, op)
  BY <1>2, <1>t, CallsHold DEF CloseSpiCloses, TransferSpi, SpiOps
<1>3. CASE OpenSpiOpens(t) \/ CloseSpiForgets(t)
  <2>1. Returns(t) /\ (semSpi' = semSpi \/ (OpenSpiOpens(t) /\ semSpi' = 1))
    BY <1>3 DEF OpenSpiOpens, CloseSpiForgets
  <2>2. t \notin Holders("iic") /\ t \notin Holders("spi")
    BY <1>3, HoldersOf DEF OpenSpiOpens, CloseSpiForgets, Is
  <2> QED BY <1>t, <2>1, <2>2, ReturnsHold
<1>4. CASE SpiTakes(t)
  <2>1. Goes(t, "ioctl") /\ semSpi > 0 /\ semSpi' = semSpi - 1 /\ call[t].op # "iic"
    BY <1>4 DEF SpiTakes, SpiOps, SemTaken
  <2>2. t \in Holders("spi")' /\ t \notin Holders("iic")' /\ t \notin Holders("iic")
        /\ \A u \in Threads \ {t} : call'[u] = call[u]
    BY <1>t, <2>1, GoesHold, HoldersOf
  <2> QED BY <2>1, <2>2 DEF Takes
<1>5. CASE WriteSpiPosts(t) \/ ReadSpiPosts(t)
  <2>1. Returns(t) /\ call[t].op # "iic" /\ call[t].at = "ioctl"
    BY <1>5 DEF WriteSpiPosts, ReadSpiPosts, Is
  <2>2. t \in Holders("spi") /\ t \notin Holders("iic")
    BY <2>1, HoldersOf
  <2>3. semSpi' = semSpi + 1 \/ (ReadSpiPosts(t) /\ semSpi' = semSpi)
    BY <1>5 DEF WriteSpiPosts, ReadSpiPosts
  <2> QED BY <1>t, <2>1, <2>2, <2>3, ReturnsHold DEF GivesBack
<1> QED BY <1>1, <1>2, <1>3, <1>4, <1>5 DEF SpiCall, SpiGoesOn

LEMMA UartSteps ==
  ASSUME TypeOK, NEW t \in Threads, SendUart2Turns(t) \/ SendUart2TurnsBack(t),
         UNCHANGED <<iicVars, spiVars>>
  PROVE  /\ \A u \in Threads \ {t} : call'[u] = call[u]
         /\ Keeps(t, "iic") /\ Keeps(t, "spi")
<1> USE DEF iicVars, spiVars, Semaphore, Keeps
<1>t. "uart" \in Ops /\ "iic" \in Buses /\ "spi" \in Buses
  BY DEF Ops, Buses
<1>1. CASE SendUart2Turns(t)
  BY <1>1, <1>t, CallsHold DEF SendUart2Turns
<1>2. CASE SendUart2TurnsBack(t)
  <2>1. t \notin Holders("iic") /\ t \notin Holders("spi")
    BY <1>2, HoldersOf DEF SendUart2TurnsBack, Is
  <2> QED BY <1>2, <1>t, <2>1, ReturnsHold DEF SendUart2TurnsBack
<1> QED BY <1>1, <1>2

\* The steps that do not give the semaphore back, but nobody a hold on it either.
LEMMA LosingKeepsLock ==
  ASSUME TypeOK, NEW t \in Threads, NEW bus \in Buses,
         \A u \in Threads \ {t} : call'[u] = call[u],
         t \notin Holders(bus)',
         Semaphore(bus)' = Semaphore(bus) \/ Semaphore(bus)' = 0
  PROVE  IsLock(bus) => IsLock(bus)'
<1>1. \A u \in Threads \ {t} : u \in Holders(bus)' <=> u \in Holders(bus)
  BY DEF Holders
<1>2. Holders(bus) \subseteq Threads /\ Holders(bus)' \subseteq Threads
  BY DEF Holders
<1> QED BY <1>1, <1>2 DEF IsLock

\* sem_init while nobody has the semaphore.
LEMMA OpeningKeepsLock ==
  ASSUME TypeOK, NEW t \in Threads, NEW bus \in Buses,
         \A u \in Threads \ {t} : call'[u] = call[u],
         Holders(bus) = {}, t \notin Holders(bus)', Semaphore(bus)' = 1
  PROVE  IsLock(bus)'
<1>1. \A u \in Threads \ {t} : u \in Holders(bus)' <=> u \in Holders(bus)
  BY DEF Holders
<1>2. Holders(bus)' \subseteq Threads
  BY DEF Holders
<1> QED BY <1>1, <1>2 DEF IsLock

\* Whose step it is.
LEMMA ThreadSteps ==
  ASSUME Next
  PROVE  \/ ReceiverOpens /\ UNCHANGED <<opens, iicVars, spiVars>>
         \/ \E t \in Threads :
              \/ (IicCall(t) \/ IicGoesOn(t)) /\ UNCHANGED <<spiVars, uartVars>>
              \/ (SpiCall(t) \/ SpiGoesOn(t)) /\ UNCHANGED <<iicVars, uartVars>>
              \/ (SendUart2Turns(t) \/ SendUart2TurnsBack(t)) /\ UNCHANGED <<iicVars, spiVars>>
BY DEF Next, IsCalled, GoesOn

LEMMA ReceiverKeepsHolders ==
  ASSUME TypeOK, ReceiverOpens /\ UNCHANGED <<opens, iicVars, spiVars>>, NEW bus \in Buses
  PROVE  (IsLock(bus)' <=> IsLock(bus)) /\ (Lost(bus)' <=> Lost(bus))
<1>1. UNCHANGED <<call, semIic, semSpi>>
  BY DEF ReceiverOpens, iicVars, spiVars
<1> QED BY <1>1 DEF IsLock, Lost, Semaphore, Holders

\* One transfer at a time on each bus, for any number of threads, until its driver is
\* opened again during one: no retry, failure, refusal or close of anybody's, and
\* nothing done to the other bus, lets two in.
THEOREM LocksBrokenByOpens == Spec => OnlyOpenBreaksLock
<1>1. ASSUME TypeOK, Next, NEW bus \in Buses, IsLock(bus),
             \A t \in Threads : ~OpensAgain(bus, t)
      PROVE  IsLock(bus)'
  <2>0. bus = "iic" \/ bus = "spi"
    BY DEF Buses
  <2>1. CASE ReceiverOpens /\ UNCHANGED <<opens, iicVars, spiVars>>
    BY <1>1, <2>1, ReceiverKeepsHolders
  <2>2. ASSUME NEW t \in Threads, IicCall(t) \/ IicGoesOn(t), UNCHANGED spiVars
        PROVE  IsLock(bus)'
    <3>1. /\ \A u \in Threads \ {t} : call'[u] = call[u]
          /\ Keeps(t, "spi")
          /\ \/ Keeps(t, "iic") \/ Takes(t, "iic") \/ GivesBack(t, "iic")
             \/ OpenIicInits(t) /\ t \notin Holders("iic")' /\ semIic' = 1
             \/ t \notin Holders("iic")' /\ semIic > 0 /\ semIic' = semIic - 1
      BY <1>1, <2>2, IicSteps
    <3>2. CASE OpenIicInits(t) /\ t \notin Holders("iic")' /\ semIic' = 1 /\ bus = "iic"
      <4>1. Holders(bus) = {} /\ Semaphore(bus)' = 1
        BY <1>1, <3>2 DEF OpensAgain, Semaphore
      <4> QED BY <1>1, <3>1, <3>2, <4>1, OpeningKeepsLock
    <3>3. CASE t \notin Holders("iic")' /\ semIic > 0 /\ semIic' = semIic - 1 /\ bus = "iic"
      <4>1. Semaphore("iic")' = 0
        BY <1>1, <3>3 DEF IsLock, Semaphore
      <4> QED BY <1>1, <3>1, <3>3, <4>1, LosingKeepsLock
    <3> QED BY <1>1, <2>0, <3>1, <3>2, <3>3, LockStep
  <2>3. ASSUME NEW t \in Threads, SpiCall(t) \/ SpiGoesOn(t), UNCHANGED iicVars
        PROVE  IsLock(bus)'
    <3>1. /\ \A u \in Threads \ {t} : call'[u] = call[u]
          /\ Keeps(t, "iic")
          /\ \/ Keeps(t, "spi") \/ Takes(t, "spi") \/ GivesBack(t, "spi")
             \/ OpenSpiOpens(t) /\ t \notin Holders("spi")' /\ semSpi' = 1
             \/ t \notin Holders("spi")' /\ (semSpi' = 0 \/ semSpi' = semSpi)
      BY <1>1, <2>3, SpiSteps
    <3>2. CASE OpenSpiOpens(t) /\ t \notin Holders("spi")' /\ semSpi' = 1 /\ bus = "spi"
      <4>1. Holders(bus) = {} /\ Semaphore(bus)' = 1
        BY <1>1, <3>2 DEF OpensAgain, Semaphore
      <4> QED BY <1>1, <3>1, <3>2, <4>1, OpeningKeepsLock
    <3>3. CASE t \notin Holders("spi")' /\ (semSpi' = 0 \/ semSpi' = semSpi) /\ bus = "spi"
      <4>1. Semaphore("spi")' = 0 \/ Semaphore("spi")' = Semaphore("spi")
        BY <3>3 DEF Semaphore
      <4> QED BY <1>1, <3>1, <3>3, <4>1, LosingKeepsLock
    <3> QED BY <1>1, <2>0, <3>1, <3>2, <3>3, LockStep
  <2>4. ASSUME NEW t \in Threads, SendUart2Turns(t) \/ SendUart2TurnsBack(t),
               UNCHANGED <<iicVars, spiVars>>
        PROVE  IsLock(bus)'
    BY <1>1, <2>0, <2>4, UartSteps, LockStep
  <2> QED BY <1>1, <2>1, <2>2, <2>3, <2>4, ThreadSteps
<1>2. ASSUME TypeOK, [Next]_vars
      PROVE  [\A bus \in Buses : IsLock(bus) /\ ~IsLock(bus)'
               => \E t \in Threads : OpensAgain(bus, t)]_vars
  BY <1>1, <1>2
<1> QED BY <1>2, DriversTypeCorrect, PTL DEF Spec, OnlyOpenBreaksLock

\* A bus is lost in its own one or two ways and no others, for any number of threads and
\* retries, and whatever becomes of the other bus.
THEOREM LocksLostByThese == Spec => OnlyTheseLoseLock
<1>1. ASSUME TypeOK, Next, NEW bus \in Buses, Lost(bus)',
             \A t \in Threads : ~Loses(bus, t)
      PROVE  Lost(bus)
  <2>0. bus = "iic" \/ bus = "spi"
    BY DEF Buses
  <2>1. CASE ReceiverOpens /\ UNCHANGED <<opens, iicVars, spiVars>>
    BY <1>1, <2>1, ReceiverKeepsHolders
  <2>2. ASSUME NEW t \in Threads, IicCall(t) \/ IicGoesOn(t), UNCHANGED spiVars
        PROVE  Lost(bus)
    <3>1. /\ \A u \in Threads \ {t} : call'[u] = call[u]
          /\ Keeps(t, "spi")
          /\ \/ Keeps(t, "iic") \/ Takes(t, "iic") \/ GivesBack(t, "iic")
             \/ semIic' = 1 \/ IicRefuses(t)
      BY <1>1, <2>2, IicSteps
    <3>2. bus = "iic" => semIic' # 1 /\ ~IicRefuses(t)
      BY <1>1 DEF Lost, Semaphore, Loses
    <3> QED BY <1>1, <2>0, <3>1, <3>2, LockStep
  <2>3. ASSUME NEW t \in Threads, SpiCall(t) \/ SpiGoesOn(t), UNCHANGED iicVars
        PROVE  Lost(bus)
    <3>1. /\ \A u \in Threads \ {t} : call'[u] = call[u]
          /\ Keeps(t, "iic")
          /\ \/ Keeps(t, "spi") \/ Takes(t, "spi") \/ GivesBack(t, "spi")
             \/ semSpi' = 1 \/ ReadSpiPosts(t) \/ OpenSpiClears(t)
      BY <1>1, <2>3, SpiSteps
    <3>2. bus = "spi" => semSpi' # 1 /\ ~ReadSpiPosts(t) /\ ~OpenSpiClears(t)
      BY <1>1 DEF Lost, Semaphore, Loses
    <3> QED BY <1>1, <2>0, <3>1, <3>2, LockStep
  <2>4. ASSUME NEW t \in Threads, SendUart2Turns(t) \/ SendUart2TurnsBack(t),
               UNCHANGED <<iicVars, spiVars>>
        PROVE  Lost(bus)
    BY <1>1, <2>0, <2>4, UartSteps, LockStep
  <2> QED BY <1>1, <2>1, <2>2, <2>3, <2>4, ThreadSteps
<1>2. ASSUME TypeOK, [Next]_vars
      PROVE  [\A bus \in Buses : ~Lost(bus) /\ Lost(bus)'
               => \E t \in Threads : Loses(bus, t)]_vars
  BY <1>1, <1>2
<1> QED BY <1>2, DriversTypeCorrect, PTL DEF Spec, OnlyTheseLoseLock

-----------------------------------------------------------------------------
(* The descriptors.                                                         *)

OwnIic == fdIic > 0 => Reaches("iic", fdIic) \/ \E t \in Threads : Is(t, "iic", "forget")
OwnSpi == fdSpi > 0 /\ fdSpi = fdOpened => Reaches("spi", fdSpi)
OwnUart == \A port \in 0..(opened - 1) : Reaches("uart", uartFd[port])

LEMMA OwnParts == (Own <=> OwnIic /\ OwnSpi /\ OwnUart) /\ (Own' <=> OwnIic' /\ OwnSpi' /\ OwnUart')
BY DEF Own, OwnIic, OwnSpi, OwnUart

\* A thread that has closed the IIC descriptor forgets it next.
LEMMA ForgetIsNext ==
  ASSUME TypeOK, NEW t \in Threads, Is(t, "iic", "forget"),
         \/ IicCall(t) \/ IicGoesOn(t) \/ SpiCall(t) \/ SpiGoesOn(t)
         \/ SendUart2Turns(t) \/ SendUart2TurnsBack(t)
  PROVE  CloseIicForgets(t)
<1>1. call[t].op = "iic" /\ call[t].at = "forget" /\ call[t] # Idle
  BY DEF Is, Idle
<1>2. ~IicCall(t) /\ ~SpiCall(t) /\ ~SendUart2Turns(t)
  BY <1>1 DEF IicCall, OpenIicInits, CloseIicCloses, TransferIic, SpiCall, OpenSpiClears,
              CloseSpiCloses, TransferSpi, SendUart2Turns, CallsOpen, Calls
<1>3. ~SpiGoesOn(t) /\ ~SendUart2TurnsBack(t)
  BY <1>1 DEF SpiGoesOn, OpenSpiOpens, CloseSpiForgets, SpiTakes, WriteSpiPosts, ReadSpiPosts,
              SpiOps, SendUart2TurnsBack, Is
<1> QED BY <1>1, <1>2, <1>3 DEF IicGoesOn, OpenIicOpens, IicStarts, IicRefuses, IicTakes,
              IicSucceeds, IicFails, IicPosts, Is

LEMMA ForgetStays ==
  ASSUME TypeOK, NEW t \in Threads, \A u \in Threads \ {t} : call'[u] = call[u],
         \/ IicCall(t) \/ IicGoesOn(t) \/ SpiCall(t) \/ SpiGoesOn(t)
         \/ SendUart2Turns(t) \/ SendUart2TurnsBack(t),
         ~CloseIicForgets(t)
  PROVE  (\E u \in Threads : Is(u, "iic", "forget")) => \E u \in Threads : Is(u, "iic", "forget")'
<1>1. ~Is(t, "iic", "forget")
  BY ForgetIsNext
<1> QED BY <1>1 DEF Is

\* A driver loses nothing by an open(): it takes a descriptor that is free.
LEMMA OpensTakesNone ==
  ASSUME TypeOK, NEW d \in {"iic", "spi", "uart"}, NEW f \in Fds \cup {-1}, Opens(d, f),
         NEW e \in {"iic", "spi", "uart"}, NEW g, Reaches(e, g)
  PROVE  Reaches(e, g)'
BY OpensOne DEF Reaches

\* A driver loses nothing when another closes what is its own.
LEMMA ClosesOwn ==
  ASSUME TypeOK, NEW d, NEW f, Reaches(d, f), Closes(f), NEW e, e # d, NEW g, Reaches(e, g)
  PROVE  Reaches(e, g)'
BY ClosesOne DEF Reaches

LEMMA OwnIicStep ==
  ASSUME TypeOK, Own, NEW t \in Threads, IicCall(t) \/ IicGoesOn(t), UNCHANGED <<spiVars, uartVars>>,
         ~(CloseIicCloses(t) /\ \E u \in Threads : Is(u, "iic", "forget"))
  PROVE  Own'
<1> USE DEF spiVars, uartVars, iicVars
<1>o. OwnIic /\ OwnSpi /\ OwnUart
  BY OwnParts
<1>1. \A u \in Threads \ {t} : call'[u] = call[u]
  BY IicSteps
<1>2. CASE OpenIicOpens(t)
  <2>1. PICK f \in Fds \cup {-1} : Opens("iic", f) /\ fdIic' = f
    BY <1>2 DEF OpenIicOpens
  <2>2. OwnIic'
    BY <2>1, OpensOne DEF OwnIic, Reaches
  <2>3. OwnSpi' /\ OwnUart'
    BY <1>o, <2>1, OpensTakesNone DEF OwnSpi, OwnUart
  <2> QED BY <2>2, <2>3, OwnParts
<1>3. CASE CloseIicCloses(t)
  <2>1. fdIic > 0 /\ Calls(t, "iic", "forget") /\ Closes(fdIic)
    BY <1>3 DEF CloseIicCloses
  <2>2. Reaches("iic", fdIic)
    BY <1>3, <1>o, <2>1 DEF OwnIic
  <2>3. OwnSpi' /\ OwnUart'
    BY <1>o, <2>1, <2>2, ClosesOwn DEF OwnSpi, OwnUart
  <2>4. Is(t, "iic", "forget")'
    BY <2>1, CallsMade DEF Is, Ops, Ats
  <2> QED BY <2>3, <2>4, OwnParts DEF OwnIic
<1>4. CASE CloseIicForgets(t)
  <2>1. fdIic' = -1 /\ owner' = owner
    BY <1>4 DEF CloseIicForgets, FdClosed
  <2> QED BY <1>o, <2>1, OwnParts DEF OwnIic, OwnSpi, OwnUart, Reaches
<1>5. CASE ~OpenIicOpens(t) /\ ~CloseIicCloses(t) /\ ~CloseIicForgets(t)
  <2>1. fdIic' = fdIic /\ owner' = owner
    BY <1>5 DEF IicCall, OpenIicInits, TransferIic, IicGoesOn, IicStarts, IicRefuses, IicTakes,
                IicSucceeds, IicFails, IicPosts
  <2>2. (\E u \in Threads : Is(u, "iic", "forget")) => \E u \in Threads : Is(u, "iic", "forget")'
    BY <1>1, <1>5, ForgetStays
  <2>3. OwnIic'
    BY <1>o, <2>1, <2>2 DEF OwnIic, Reaches
  <2>4. OwnSpi' /\ OwnUart'
    BY <1>o, <2>1 DEF OwnSpi, OwnUart, Reaches
  <2> QED BY <2>3, <2>4, OwnParts
<1> QED BY <1>2, <1>3, <1>4, <1>5

LEMMA OwnSpiStep ==
  ASSUME TypeOK, Own, NEW t \in Threads, SpiCall(t) \/ SpiGoesOn(t), UNCHANGED <<iicVars, uartVars>>,
         ~(CloseSpiCloses(t) /\ fdSpi # fdOpened)
  PROVE  Own'
<1> USE DEF spiVars, uartVars, iicVars
<1>o. OwnIic /\ OwnSpi /\ OwnUart
  BY OwnParts
<1>1. \A u \in Threads \ {t} : call'[u] = call[u]
  BY SpiSteps
<1>2. (\E u \in Threads : Is(u, "iic", "forget")) => \E u \in Threads : Is(u, "iic", "forget")'
  <2>1. ~CloseIicForgets(t) \/ ~Is(t, "iic", "forget")
    BY ForgetIsNext DEF SpiCall, OpenSpiClears, CloseSpiCloses, TransferSpi, CallsOpen, Calls, Idle,
       SpiGoesOn, OpenSpiOpens, CloseSpiForgets, SpiTakes, WriteSpiPosts, ReadSpiPosts, SpiOps, Is
  <2>2. ~CloseIicForgets(t)
    BY <2>1 DEF CloseIicForgets
  <2> QED BY <1>1, <2>2, ForgetStays
<1>3. CASE OpenSpiOpens(t)
  <2>1. PICK f \in Fds \cup {-1} : Opens("spi", f) /\ fdSpi' = f
    BY <1>3 DEF OpenSpiOpens
  <2>2. OwnSpi'
    BY <2>1, OpensOne DEF OwnSpi, Reaches
  <2>3. OwnIic' /\ OwnUart'
    BY <1>o, <1>2, <2>1, OpensTakesNone DEF OwnIic, OwnUart
  <2> QED BY <2>2, <2>3, OwnParts
<1>4. CASE CloseSpiCloses(t)
  <2>1. fdSpi > 0 /\ fdSpi = fdOpened /\ Closes(fdSpi) /\ fdSpi' = fdSpi /\ fdOpened' = -1
    BY <1>4 DEF CloseSpiCloses
  <2>2. Reaches("spi", fdSpi)
    BY <1>o, <2>1 DEF OwnSpi
  <2>3. OwnIic' /\ OwnUart'
    BY <1>o, <1>2, <2>1, <2>2, ClosesOwn DEF OwnIic, OwnUart
  <2>4. OwnSpi'
    BY <2>1 DEF OwnSpi
  <2> QED BY <2>3, <2>4, OwnParts
<1>5. CASE ~OpenSpiOpens(t) /\ ~CloseSpiCloses(t)
  <2>1. owner' = owner
    BY <1>5 DEF SpiCall, OpenSpiClears, TransferSpi, SpiGoesOn, CloseSpiForgets, SpiTakes,
                WriteSpiPosts, ReadSpiPosts
  <2>2. \/ fdSpi' = fdSpi /\ fdOpened' = fdOpened
        \/ fdSpi' = 0
        \/ fdOpened' = -1
    BY <1>5 DEF SpiCall, OpenSpiClears, TransferSpi, SpiGoesOn, CloseSpiForgets, SpiTakes,
                WriteSpiPosts, ReadSpiPosts
  <2>3. OwnSpi'
    BY <1>o, <2>1, <2>2 DEF OwnSpi, Reaches
  <2>4. OwnIic' /\ OwnUart'
    BY <1>o, <1>2, <2>1 DEF OwnIic, OwnUart, Reaches
  <2> QED BY <2>3, <2>4, OwnParts
<1> QED BY <1>3, <1>4, <1>5

LEMMA OwnUartStep ==
  ASSUME TypeOK, Own, NEW t \in Threads, SendUart2Turns(t) \/ SendUart2TurnsBack(t),
         UNCHANGED <<iicVars, spiVars>>
  PROVE  Own'
<1> USE DEF spiVars, uartVars, iicVars
<1>o. OwnIic /\ OwnSpi /\ OwnUart
  BY OwnParts
<1>1. UNCHANGED <<uartFd, opened, owner>>
  BY DEF SendUart2Turns, SendUart2TurnsBack
<1>2. ~CloseIicForgets(t)
  BY DEF CloseIicForgets, SendUart2Turns, SendUart2TurnsBack, Calls,
         Idle, Is
<1>3. (\E u \in Threads : Is(u, "iic", "forget")) => \E u \in Threads : Is(u, "iic", "forget")'
  BY <1>2, UartSteps, ForgetStays
<1> QED BY <1>o, <1>1, <1>3, OwnParts DEF OwnIic, OwnSpi, OwnUart, Reaches

LEMMA OwnReceiverStep ==
  ASSUME TypeOK, Own, ReceiverOpens, UNCHANGED <<iicVars, spiVars>>
  PROVE  Own'
<1> USE DEF spiVars, iicVars
<1>o. OwnIic /\ OwnSpi /\ OwnUart
  BY OwnParts
<1>1. PICK f \in Fds : /\ Opens("uart", f) /\ owner'[f] = "uart"
                       /\ opened \in 0..1 /\ opened' = opened + 1
                       /\ uartFd' = [uartFd EXCEPT ![opened] = f]
                       /\ UNCHANGED call
  BY ReceiverTypes
<1>2. OwnIic' /\ OwnSpi'
  BY <1>o, <1>1, OpensTakesNone DEF OwnIic, OwnSpi, Is
<1>3. OwnUart'
  <2> SUFFICES ASSUME NEW port \in 0..(opened' - 1)
               PROVE  uartFd'[port] \in Fds /\ owner'[uartFd'[port]] = "uart"
    BY DEF OwnUart, Reaches
  <2>1. uartFd \in [0..1 -> Fds] /\ port \in 0..opened
    BY <1>1 DEF TypeOK
  <2>2. CASE port = opened
    BY <1>1, <2>1, <2>2
  <2>3. CASE port # opened
    <3>1. uartFd'[port] = uartFd[port] /\ port \in 0..(opened - 1)
      BY <1>1, <2>1, <2>3
    <3>2. Reaches("uart", uartFd[port])
      BY <1>o, <3>1 DEF OwnUart
    <3> QED BY <1>1, <3>1, <3>2, OpensOne DEF Reaches
  <2> QED BY <2>2, <2>3
<1> QED BY <1>2, <1>3, OwnParts

\* The drivers take each other's descriptors in two ways and no others, whatever the
\* threads open, close and transfer at the same time.
THEOREM DescriptorsTakenByThese == Spec => OnlyTheseCloseOthers
<1>1. ASSUME TypeOK, Next, Own,
             \A t \in Threads :
               /\ ~(CloseSpiCloses(t) /\ fdSpi # fdOpened)
               /\ ~(CloseIicCloses(t) /\ \E u \in Threads : Is(u, "iic", "forget"))
      PROVE  Own'
  BY <1>1, ThreadSteps, OwnIicStep, OwnSpiStep, OwnUartStep, OwnReceiverStep
<1>2. ASSUME TypeOK, [Next]_vars
      PROVE  [Own /\ ~Own' => \E t \in Threads :
                \/ CloseSpiCloses(t) /\ fdSpi # fdOpened
                \/ CloseIicCloses(t) /\ \E u \in Threads : Is(u, "iic", "forget")]_vars
  BY <1>1, <1>2
<1> QED BY <1>2, DriversTypeCorrect, PTL DEF Spec, OnlyTheseCloseOthers

=============================================================================
