-------------------------------- MODULE App --------------------------------
(***************************************************************************)
(* The two halves of the app for TLC: the mailbox of module Phone and the  *)
(* connection of module Connection.                                        *)
(*                                                                         *)
(* They meet in two places, and each half has an action for the other at   *)
(* it: the mailbox sees a socket that comes and goes (Link), the           *)
(* connection a mailbox that may hold a command (GetOutputStream).  A      *)
(* behaviour is about one half, the other stays where it starts.           *)
(***************************************************************************)
EXTENDS Phone, Connection

VARIABLE half

AppInit == half \in {"mailbox", "connection"} /\ Init /\ ConnInit

AppNext ==
  \/ half = "mailbox" /\ Next /\ UNCHANGED <<half, connVars>>
  \/ half = "connection" /\ ConnNext /\ UNCHANGED <<half, vars>>

AppSpec ==
  /\ AppInit /\ [][AppNext]_<<half, vars, connVars>>
  /\ Fairness /\ ConnFairness

---------------------------------------------------------------------------
(* Properties *)

\* Nothing on the phone waits for ever: a command leaves the mailbox while the
\* socket is open, and the check box that onResume disables is enabled again
\* when its connect is answered (MainActivity.java:338-356, 104-110, 299-301).
Waiting == IF half = "mailbox" THEN instr.cmd # 0 ELSE ~box
Served == IF half = "mailbox" THEN instr.cmd = 0 \/ ~up ELSE box \/ ~Running
NothingWaits == Waiting ~> Served
===========================================================================
