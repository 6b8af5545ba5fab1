-------------------------------- MODULE Pipe --------------------------------
(***************************************************************************)
(* What a buffered byte stream promises its two ends: the bytes put in     *)
(* come out whole, once and in order, however many are put or taken at     *)
(* once.                                                                   *)
(***************************************************************************)
EXTENDS SequencesExt

VARIABLE content        \* put and not yet taken

Init == content = << >>

Put == IsStrictPrefix(content, content')

Take == IsStrictSuffix(content', content)

Spec == Init /\ [][Put \/ Take]_content
===========================================================================
