------------------------------ MODULE ControlUart ------------------------------
(***************************************************************************)
(* sample_controller_uart/control_uart.c: the receiver thread that opens   *)
(* the two ports, and SendUart2Data, which is to turn the RS-485 line of   *)
(* port 1 to sending and back.  Port 0 needs no turning, and what is       *)
(* received is thrown away: SendUart1Data and the receiver's loop change   *)
(* nothing.                                                                *)
(***************************************************************************)
EXTENDS Process

VARIABLES
  uartFd,   \* pollFd[port].fd
  line,     \* the direction of the RS-485 line: RTS of port 1, clear for sending
  opened    \* the ports the receiver has opened so far

uartVars == <<uartFd, line, opened>>

UartInit ==
  /\ uartFd = [port \in 0..1 |-> 0]
  /\ line = "receive"
  /\ opened = 0

\* ControlRs485 of port 1.  UART_FLAG_OFF clears RTS, if pollFd still names the port
\* and neither ioctl fails.  UART_FLAG_ON finds no case: the label of the one that
\* would set RTS (l.77) is UART_FLAG_OFF again.  Nobody looks at the result.
ControlRs485(flag) ==
  \/ flag = "UART_FLAG_OFF" /\ Reaches("uart", uartFd[1]) /\ line' = "send"
  \/ UNCHANGED line

\* ThreadUartReceiver opens the next port, or ends the process if it cannot.  With
\* port 1 open RTS is set, by open(); the call of ControlRs485 (l.189) adds nothing.
ReceiverOpens ==
  /\ opened < 2
  /\ \E f \in Fds :
       /\ Opens("uart", f)
       /\ uartFd' = [uartFd EXCEPT ![opened] = f]
  /\ opened' = opened + 1
  /\ line' = IF opened = 1 THEN "receive" ELSE line
  /\ UNCHANGED call

-----------------------------------------------------------------------------
SendUart2Turns(t) ==
  /\ Calls(t, "uart", "send")
  /\ ControlRs485("UART_FLAG_OFF")
  /\ UNCHANGED <<uartFd, opened, owner>>

\* SendUartData, which changes nothing and whose result nobody looks at, and 30 ms of
\* sleep; then the line is to be turned back, whoever else is sending.
SendUart2TurnsBack(t) ==
  /\ Is(t, "uart", "send")
  /\ ControlRs485("UART_FLAG_ON")
  /\ Returns(t)
  /\ UNCHANGED <<uartFd, opened, owner>>

=============================================================================
