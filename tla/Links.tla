------------------------------- MODULE Links -------------------------------
(***************************************************************************)
(* The board's two serial links: the RS232 one that main reads by polling, *)
(* and the JTAG one that its printf writes through an interrupt handler.   *)
(* They share nothing; a behaviour uses one, with the other at rest.       *)
(***************************************************************************)
EXTENDS Uart, JtagUart

VARIABLE link

LinksInit ==
  \/ link = "rs232" /\ Init /\ JtagIdle
  \/ link = "jtag" /\ (Init /\ noisy) /\ JtagInit

LinksNext ==
  \/ link = "rs232" /\ Next /\ UNCHANGED <<link, jtagVars>>
  \/ link = "jtag" /\ JtagNext /\ UNCHANGED <<link, vars>>

\* The fairness of the link in use.  RS232: the processor keeps running and the
\* core stores what reaches it.  JTAG: the processor runs the handler and the
\* call in progress, the alarm goes off, and a host that is there polls and,
\* when it can again and again, takes its bytes.
LinksFairness ==
  /\ WF_vars(link = "rs232" /\ Main) /\ WF_vars(link = "rs232" /\ Arrive)
  /\ WF_jtagVars(link = "jtag" /\ Isr) /\ WF_jtagVars(link = "jtag" /\ InCall)
  /\ WF_jtagVars(link = "jtag" /\ Timeout)
  /\ WF_jtagVars(link = "jtag" /\ HostPolls) /\ SF_jtagVars(link = "jtag" /\ HostTakes)

LinksSpec == LinksInit /\ [][LinksNext]_<<link, vars, jtagVars>> /\ LinksFairness

---------------------------------------------------------------------------
(* Properties *)

\* Both JTAG rings are pipes between the program and the host: the bytes come
\* out once, whole and in order, and a read copies the oldest
\* (altera_avalon_jtag_uart_init.c:106-197, _read.c:116-143, _write.c:104-128).
ImplementsPipes == ImplementsReceive /\ ImplementsSend /\ []ReadsOldest

\* No call waits for ever, again and again none is waiting: make_command takes
\* what is written as long as whole instructions come, and the JTAG calls give up
\* a host that has gone; a lost byte does leave make_command waiting, until others
\* come (rs232.c:39-43, altera_avalon_jtag_uart_write.c:156-202).
CallsReturn == []<>(Serves /\ WaitOver)
=============================================================================
