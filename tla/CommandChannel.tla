-------------------------- MODULE CommandChannel --------------------------
(***************************************************************************)
(* What the RS232 link promises the render loop: the instructions the      *)
(* sender writes come out of make_command whole, once, and in order.       *)
(***************************************************************************)
EXTENDS Sequences

CONSTANT Frames       \* the instructions a sender writes

VARIABLES pending,    \* written and not yet delivered
          command     \* the last instruction delivered, or none

None == << >>

Init == pending = << >> /\ command = None

Put(f) == pending' = Append(pending, f) /\ UNCHANGED command

Take ==
  /\ pending # << >>
  /\ command' = Head(pending)
  /\ pending' = Tail(pending)

Next == Take \/ \E f \in Frames : Put(f)

Spec == Init /\ [][Next]_<<pending, command>>
===========================================================================
