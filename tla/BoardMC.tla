------------------------------ MODULE BoardMC ------------------------------
(* Instances of Board for TLC: a screen of two to six pixels and two colours. *)
EXTENDS Board

CONSTANT Red

MCColor == {White, Red}
MCGrid == {0}
InImage == Pixels
ZeroOnly == {0}
Beyond == {2 * NPix + 1}

AllButLines == AllCmds \ {"LINE_PT"}
FillAndPixel == {"FILL_SCR", "FILL_PIXEL"}
Drawing == {"FILL_SCR", "FILL_PIXEL", "FILL_COLOR", "LINE_PT"}
EndPixels == {NPix - 1, NPix}
LinesOnly == {"LINE_START", "LINE_PT"}
===========================================================================
