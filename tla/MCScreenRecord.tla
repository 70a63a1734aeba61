--------------------------- MODULE MCScreenRecord ---------------------------
(* Instances of ScreenRecord for TLC.                                      *)
EXTENDS ScreenRecord

CONSTANTS b1, b2
=============================================================================
