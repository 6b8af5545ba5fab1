----------------------------- MODULE SaveBmpMC -----------------------------
(* Instances of SaveBmp for TLC: cards of eight data sectors in clusters of *)
(* one or two, with or without an earlier bitmap, one of them almost full.  *)
EXTENDS SaveBmp

MCCards ==
  {[spc |-> 1, other |-> <<2>>, old |-> << >>],
   [spc |-> 1, other |-> <<3, 5>>, old |-> << >>],
   [spc |-> 1, other |-> <<4>>, old |-> <<2, 3, 6, 8>>],
   [spc |-> 1, other |-> <<2, 3, 4, 5, 6>>, old |-> << >>],
   [spc |-> 2, other |-> <<3>>, old |-> << >>],
   [spc |-> 2, other |-> <<3>>, old |-> <<2, 4>>]}
MCLengths == {5, 7}
===========================================================================
