--------------------------- MODULE MCCecMsgQueue ---------------------------
(* Instances of CecMsgQueue for TLC: three messages, two of them of the    *)
(* type that is removed, with delays that make a later send due earlier.   *)
EXTENDS CecMsgQueue

CONSTANTS m1, m2, m3, otp, edid

MCTypeOf  == m1 :> otp @@ m2 :> otp @@ m3 :> edid
MCDelayOf == m1 :> 1 @@ m2 :> 2 @@ m3 :> 0
============================================================================
